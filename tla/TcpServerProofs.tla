--------------------------- MODULE TcpServerProofs ---------------------------
(***************************************************************************)
(* Safety of TcpServer for any number of connections, io loops and         *)
(* messages.  The inductive invariant says of each connection where its    *)
(* life stands, and which functors of it still wait in which loop: those   *)
(* are what makes a later handler find the connection in the state it      *)
(* expects.                                                                *)
(***************************************************************************)
EXTENDS TcpServer, TcpConnectionProofs, FiniteSetTheorems

-----------------------------------------------------------------------------
(* Queues of functors.                                                     *)

In(s, f) == \E i \in 1..Len(s) : s[i] = f
Once(s, f) == \A i, j \in 1..Len(s) : s[i] = f /\ s[j] = f => i = j
Before(s, f, g) == \A i, j \in 1..Len(s) : s[i] = f /\ s[j] = g => i < j

\* What is left of batch s after p calls, and then queue q.
Rest(s, p, q) == SubSeq(s, p + 1, Len(s)) \o q

\* The functors that loop l will call, in this order.
Waits == [l \in Loops |-> Rest(functors[l], pos[l], pending[l])]

\* A functor at the end of a queue.
LEMMA Pushed ==
    ASSUME NEW F, NEW s \in Seq(F), NEW x \in F
    PROVE  LET t == Append(s, x) IN
           /\ t \in Seq(F)
           /\ \A f : In(t, f) <=> In(s, f) \/ x = f
           /\ \A f : Once(s, f) /\ (x = f => ~In(s, f)) => Once(t, f)
           /\ \A f, g : f # g /\ Before(s, f, g) /\ (x = f => ~In(s, g)) => Before(t, f, g)
<1> DEFINE t == Append(s, x)
           n == Len(s)
<1>1. /\ t \in Seq(F) /\ Len(t) = n + 1 /\ n \in Nat /\ t[n + 1] = x
      /\ \A i \in 1..n : t[i] = s[i]
  OBVIOUS
<1> HIDE DEF t
<1>2. \A f : In(t, f) <=> In(s, f) \/ x = f
  <2> TAKE f
  <2>1. ASSUME In(t, f) PROVE In(s, f) \/ x = f
    BY <1>1, <2>1 DEF In
  <2>2. ASSUME In(s, f) PROVE In(t, f)
    BY <1>1, <2>2 DEF In
  <2>3. ASSUME x = f PROVE In(t, f)
    <3>1. n + 1 \in 1..Len(t)
      BY <1>1
    <3> QED
      BY <1>1, <2>3, <3>1 DEF In
  <2> QED
    BY <2>1, <2>2, <2>3
<1>3. \A f : Once(s, f) /\ (x = f => ~In(s, f)) => Once(t, f)
  <2> SUFFICES ASSUME NEW f, Once(s, f), x = f => ~In(s, f),
                      NEW i \in 1..Len(t), NEW j \in 1..Len(t), t[i] = f, t[j] = f
               PROVE  i = j
    BY DEF Once
  <2>1. i \in 1..n \/ i = n + 1
    BY <1>1
  <2>2. j \in 1..n \/ j = n + 1
    BY <1>1
  <2>3. CASE i \in 1..n /\ j \in 1..n
    BY <1>1, <2>3 DEF Once
  <2>4. CASE i = n + 1 /\ j \in 1..n
    BY <1>1, <2>4 DEF In
  <2>5. CASE j = n + 1 /\ i \in 1..n
    BY <1>1, <2>5 DEF In
  <2> QED
    BY <2>1, <2>2, <2>3, <2>4, <2>5
<1>4. \A f, g : f # g /\ Before(s, f, g) /\ (x = f => ~In(s, g)) => Before(t, f, g)
  <2> SUFFICES ASSUME NEW f, NEW g, f # g, Before(s, f, g), x = f => ~In(s, g),
                      NEW i \in 1..Len(t), NEW j \in 1..Len(t), t[i] = f, t[j] = g
               PROVE  i < j
    BY DEF Before
  <2>1. i \in 1..n \/ i = n + 1
    BY <1>1
  <2>2. j \in 1..n \/ j = n + 1
    BY <1>1
  <2>3. CASE i \in 1..n /\ j \in 1..n
    BY <1>1, <2>3 DEF Before
  <2>4. CASE i = n + 1 /\ j \in 1..n
    BY <1>1, <2>4 DEF In
  <2>5. CASE j = n + 1 /\ i \in 1..n
    BY <1>1, <2>5
  <2>6. CASE j = n + 1 /\ i = n + 1
    BY <1>1, <2>6
  <2> QED
    BY <2>1, <2>2, <2>3, <2>4, <2>5, <2>6
<1> QED
  BY <1>1, <1>2, <1>3, <1>4 DEF t

\* A functor taken from the front of a queue.
LEMMA Popped ==
    ASSUME NEW F, NEW s \in Seq(F), s # <<>>
    PROVE  LET x == Head(s)
               t == Tail(s) IN
           /\ t \in Seq(F) /\ x \in F
           /\ \A f : In(s, f) <=> In(t, f) \/ x = f
           /\ \A f : Once(s, f) => Once(t, f) /\ (x = f => ~In(t, f))
           /\ \A f, g : Before(s, f, g) => Before(t, f, g) /\ (x = g => ~In(t, f))
<1> DEFINE x == Head(s)
           t == Tail(s)
           n == Len(t)
<1>1. /\ t \in Seq(F) /\ Len(s) = n + 1 /\ n \in Nat /\ s[1] = x /\ x \in F
      /\ \A i \in 1..n : t[i] = s[i + 1]
  OBVIOUS
<1> HIDE DEF t, x
<1>2. \A f : In(s, f) <=> In(t, f) \/ x = f
  <2> TAKE f
  <2>1. ASSUME In(s, f), x # f PROVE In(t, f)
    <3>1. PICK i \in 1..Len(s) : s[i] = f
      BY <2>1 DEF In
    <3>2. i # 1 /\ i - 1 \in 1..n /\ (i - 1) + 1 = i
      BY <1>1, <2>1, <3>1
    <3>3. t[i - 1] = f
      BY <1>1, <3>1, <3>2
    <3> QED
      BY <3>2, <3>3 DEF In
  <2>2. ASSUME In(t, f) PROVE In(s, f)
    <3>1. PICK i \in 1..n : t[i] = f
      BY <2>2 DEF In
    <3>2. i + 1 \in 1..Len(s) /\ s[i + 1] = f
      BY <1>1, <3>1
    <3> QED
      BY <3>2 DEF In
  <2>3. ASSUME x = f PROVE In(s, f)
    <3>1. 1 \in 1..Len(s)
      BY <1>1
    <3> QED
      BY <1>1, <2>3, <3>1 DEF In
  <2> QED
    BY <2>1, <2>2, <2>3
<1>3. \A f : Once(s, f) => Once(t, f) /\ (x = f => ~In(t, f))
  <2> SUFFICES ASSUME NEW f, Once(s, f)
               PROVE  Once(t, f) /\ (x = f => ~In(t, f))
    OBVIOUS
  <2>1. \A i, j \in 1..Len(s) : s[i] = f /\ s[j] = f => i = j
    BY DEF Once
  <2>2. \A i \in 1..n : i + 1 \in 1..Len(s) /\ i + 1 # 1
    BY <1>1
  <2>3. Once(t, f)
    <3> SUFFICES ASSUME NEW i \in 1..n, NEW j \in 1..n, t[i] = f, t[j] = f
                 PROVE  i = j
      BY DEF Once
    <3>1. i + 1 = j + 1
      BY <1>1, <2>1, <2>2
    <3> QED
      BY <3>1
  <2>4. ASSUME x = f, NEW i \in 1..n, t[i] = f PROVE FALSE
    <3>1. 1 \in 1..Len(s) /\ s[i + 1] = f /\ s[1] = f
      BY <1>1, <2>4
    <3> QED
      BY <2>1, <2>2, <3>1
  <2> QED
    BY <2>3, <2>4 DEF In
<1>4. \A f, g : Before(s, f, g) => Before(t, f, g) /\ (x = g => ~In(t, f))
  <2> SUFFICES ASSUME NEW f, NEW g, Before(s, f, g)
               PROVE  Before(t, f, g) /\ (x = g => ~In(t, f))
    OBVIOUS
  <2>1. \A i, j \in 1..Len(s) : s[i] = f /\ s[j] = g => i < j
    BY DEF Before
  <2>2. \A i \in 1..n : i + 1 \in 1..Len(s) /\ i + 1 # 1
    BY <1>1
  <2>3. Before(t, f, g)
    <3> SUFFICES ASSUME NEW i \in 1..n, NEW j \in 1..n, t[i] = f, t[j] = g
                 PROVE  i < j
      BY DEF Before
    <3>1. i + 1 < j + 1
      BY <1>1, <2>1, <2>2
    <3> QED
      BY <3>1
  <2>4. ASSUME x = g, NEW i \in 1..n, t[i] = f PROVE FALSE
    <3>1. 1 \in 1..Len(s) /\ s[i + 1] = f /\ s[1] = g
      BY <1>1, <2>4
    <3>2. i + 1 < 1
      BY <2>1, <2>2, <3>1
    <3> QED
      BY <1>1, <3>2
  <2> QED
    BY <2>3, <2>4 DEF In
<1> QED
  BY <1>1, <1>2, <1>3, <1>4 DEF t, x

\* The queue of a loop through an iteration: a functor is called; one is
\* queued; the batch is swapped in; the batch is over.
LEMMA RestNext ==
    ASSUME NEW F, NEW s \in Seq(F), NEW q \in Seq(F), NEW p \in Nat, p < Len(s)
    PROVE  /\ Rest(s, p, q) \in Seq(F) /\ Rest(s, p, q) # <<>>
           /\ Head(Rest(s, p, q)) = s[p + 1]
           /\ Tail(Rest(s, p, q)) = Rest(s, p + 1, q)
<1> DEFINE a == SubSeq(s, p + 1, Len(s))
           b == SubSeq(s, p + 1 + 1, Len(s))
           x == s[p + 1]
           v == b \o q
           u == <<x>> \o v
<1>1. x \in F /\ p + 1 \in 1..Len(s) /\ Len(s) \in (p + 1)..Len(s)
  OBVIOUS
<1>2. a = <<x>> \o b
  BY <1>1, SubSeqRecursiveFirst
<1>3. b \in Seq(F)
  <2>1. \A i \in (p + 1 + 1)..Len(s) : s[i] \in F
    OBVIOUS
  <2>2. p + 1 + 1 \in Int /\ Len(s) \in Int
    OBVIOUS
  <2> QED
    BY <2>1, <2>2, SubSeqProperties
<1>4. Rest(s, p, q) = a \o q /\ Rest(s, p + 1, q) = v
  BY DEF Rest
<1> HIDE DEF a, b, x
<1>5. a \o q = u /\ v \in Seq(F)
  BY <1>1, <1>2, <1>3, ConcatAssociative
<1> HIDE DEF v
<1>6. /\ u \in Seq(F) /\ Len(u) = 1 + Len(v) /\ u[1] = x
      /\ \A i \in 1..Len(v) : u[i + 1] = v[i]
  BY <1>1, <1>5
<1> HIDE DEF u
<1>7. u # <<>> /\ Head(u) = x /\ Tail(u) \in Seq(F) /\ Len(Tail(u)) = Len(v)
  BY <1>5, <1>6
<1>8. \A i \in 1..Len(v) : Tail(u)[i] = v[i]
  BY <1>5, <1>6
<1>9. Tail(u) = v
  BY <1>5, <1>7, <1>8, SeqEqual
<1> QED
  BY <1>4, <1>5, <1>6, <1>7, <1>9 DEF x

\* A functor is queued behind what the loop has left to call.
LEMMA RestPush ==
    ASSUME NEW F, NEW s \in Seq(F), NEW q \in Seq(F), NEW p \in Nat, p <= Len(s), NEW x \in F
    PROVE  /\ Rest(s, p, q) \in Seq(F)
           /\ Rest(s, p, q \o <<x>>) = Append(Rest(s, p, q), x)
<1> DEFINE a == SubSeq(s, p + 1, Len(s))
<1>1. a \in Seq(F)
  BY SubSeqProperties
<1>2. Rest(s, p, q) = a \o q /\ Rest(s, p, q \o <<x>>) = a \o (q \o <<x>>)
  BY DEF Rest
<1> HIDE DEF a
<1>3. a \o q \in Seq(F)
  BY <1>1
<1>4. a \o (q \o <<x>>) = (a \o q) \o <<x>>
  BY <1>1, ConcatAssociative
<1>5. (a \o q) \o <<x>> = Append(a \o q, x)
  BY <1>3, AppendIsConcat
<1> QED
  BY <1>2, <1>3, <1>4, <1>5

\* The queue becomes the batch, and nothing is lost or reordered.
LEMMA RestSwap ==
    ASSUME NEW F, NEW q \in Seq(F)
    PROVE  Rest(<<>>, 0, q) = q /\ Rest(q, 0, <<>>) = q
<1>1. SubSeq(<<>>, 0 + 1, Len(<<>>)) = <<>>
  OBVIOUS
<1>2. SubSeq(q, 0 + 1, Len(q)) = q
  BY SubSeqFull
<1>3. <<>> \o q = q /\ q \o <<>> = q
  BY ConcatEmptySeq
<1> QED
  BY <1>1, <1>2, <1>3 DEF Rest

\* A batch that is over leaves the queue.
LEMMA RestEnd ==
    ASSUME NEW F, NEW s \in Seq(F), NEW q \in Seq(F)
    PROVE  Rest(s, Len(s), q) = q
<1>1. SubSeq(s, Len(s) + 1, Len(s)) = <<>>
  OBVIOUS
<1>2. <<>> \o q = q
  BY ConcatEmptySeq
<1> QED
  BY <1>1, <1>2 DEF Rest

\* What waits in the loop is in the batch or in the queue.
LEMMA RestFrom ==
    ASSUME NEW F, NEW s \in Seq(F), NEW q \in Seq(F), NEW p \in Nat, p <= Len(s),
           NEW f, In(Rest(s, p, q), f)
    PROVE  f \in Range(q) \cup Range(s)
<1> DEFINE a == SubSeq(s, p + 1, Len(s))
           u == a \o q
<1>1. a \in Seq(F) /\ Len(a) = Len(s) - p /\ \A i \in 1..(Len(s) - p) : a[i] = s[p + i]
  BY SubSeqProperties
<1>2. PICK i \in 1..Len(u) : u[i] = f
  BY DEF In, Rest
<1> HIDE DEF a
<1>3. CASE i \in 1..Len(a)
  <2>1. u[i] = a[i] /\ p + i \in 1..Len(s)
    BY <1>1, <1>3
  <2>2. s[p + i] = f /\ p + i \in DOMAIN s
    BY <1>1, <1>2, <1>3, <2>1
  <2> QED
    BY <2>2 DEF Range
<1>4. CASE i \notin 1..Len(a)
  <2>1. u[i] = q[i - Len(a)] /\ i - Len(a) \in 1..Len(q)
    BY <1>1, <1>2, <1>4
  <2>2. i - Len(a) \in DOMAIN q
    BY <2>1
  <2> QED
    BY <1>2, <2>1, <2>2 DEF Range
<1> QED
  BY <1>3, <1>4

-----------------------------------------------------------------------------
(* The inductive invariant.                                                *)

LifeOps == {"established", "remove", "destroyed"}

\* What the user has heard in each state.
Heard(k) ==
    /\ k.state = kConnecting => k.heard = <<>>
    /\ Live(k) => k.heard = <<"up">>
    /\ k.state = kDisconnected => k.heard = <<"up", "down">>

\* A connection that was not accepted has no life yet.
NotAccepted(c) ==
    socket[c] # "accepted" =>
        /\ conn[c].state = kConnecting
        /\ c \notin connections_
        /\ \A l \in Loops, op \in LifeOps : ~In(Waits[l], Functor(op, c))

\* While the server is up, its map has every connection that is not down.
InMap(c) ==
    server = "up" /\ socket[c] = "accepted" /\ conn[c].state # kDisconnected
        => c \in connections_

\* connectEstablished is called once, and finds a connection that is new.
Established(c) ==
    \A l \in Loops :
        /\ Once(Waits[l], Functor("established", c))
        /\ In(Waits[l], Functor("established", c)) =>
              l = ioloop[c] /\ l # Base /\ conn[c].state = kConnecting

\* removeConnectionInLoop is called once, and finds the connection.
Removed(c) ==
    \A l \in Loops :
        /\ Once(Waits[l], Functor("remove", c))
        /\ In(Waits[l], Functor("remove", c)) =>
              /\ l = Base /\ conn[c].state = kDisconnected
              /\ server = "up" => c \in connections_

\* connectDestoryed is called after connectEstablished.
Destroyed(c) ==
    \A l \in Loops :
        /\ Before(Waits[l], Functor("established", c), Functor("destroyed", c))
        /\ In(Waits[l], Functor("destroyed", c)) => l = ioloop[c]
        /\ In(Waits[l], Functor("established", c)) /\ c \notin connections_ =>
              In(Waits[l], Functor("destroyed", c))

\* A channel in epoll belongs to a connection that the map or the functor
\* which will remove the channel owns.
Watched(c) ==
    conn[c].ch.index = KAdded =>
        c \in connections_ \/ In(Waits[ioloop[c]], Functor("destroyed", c))

\* While the map has a connection, nothing takes its channel out of epoll.
Kept(c) ==
    c \in connections_ =>
        /\ Live(conn[c]) => conn[c].ch.index = KAdded
        /\ \A l \in Loops : ~In(Waits[l], Functor("destroyed", c))

Life(c) ==
    /\ ConnOK(conn[c]) /\ Heard(conn[c])
    /\ NotAccepted(c) /\ InMap(c)
    /\ Established(c) /\ Removed(c) /\ Destroyed(c) /\ Watched(c) /\ Kept(c)

\* A channel that poll() reported: what is left to do for it, and what keeps
\* its connection alive until that is done.
Active(c) ==
    \A l \in Loops : c \in Range(active[l]) =>
        /\ ioloop[c] = l
        /\ revents[c] # {} /\ ~({"HUP", "IN"} \subseteq revents[c])
        /\ \/ Ready(conn[c])
           \/ conn[c].state = kDisconnected /\ "HUP" \notin revents[c] /\ "IN" \notin revents[c]
        /\ c \in connections_ \/ c \in guard \/ In(Waits[l], Functor("destroyed", c))

\* Where a loop stands.
LoopPhase(l) ==
    /\ lpc[l] # "dispatch" => active[l] = <<>>
    /\ lpc[l] # "functors" => functors[l] = <<>> /\ pos[l] = 0
    /\ pos[l] <= Len(functors[l])
    /\ IsInjective(active[l])

\* Where the server stands.  The base loop runs only while it is up.
ServerPhase ==
    /\ server = "new" => /\ next_ = 0 /\ loops_ = <<>>
                         /\ \A c \in Conns : socket[c] = "none"
                         /\ \A l \in Loops : lpc[l] = "none"
    /\ lpc[Base] \in {"none", "exited"} \/ server = "up"
    /\ server \in {"closing", "gone"} => connections_ = {} \/ lpc[Base] = "exited"

ServerInv ==
    /\ TypeOK /\ ChannelOK(acceptChannel_) /\ faults = {}
    /\ ServerPhase
    /\ \A l \in Loops : LoopPhase(l)
    /\ \A c \in Conns : Life(c) /\ Active(c)

-----------------------------------------------------------------------------
(* Steps that leave a connection alone.                                    *)

\* The queue changes from s to t, with nothing in it for the life of c.
Quiet(c, s, t) ==
    /\ \A op \in LifeOps : /\ In(t, Functor(op, c)) <=> In(s, Functor(op, c))
                           /\ Once(s, Functor(op, c)) => Once(t, Functor(op, c))
    /\ Before(s, Functor("established", c), Functor("destroyed", c)) =>
          Before(t, Functor("established", c), Functor("destroyed", c))

\* Functors are told apart by their operation and their connection.
LEMMA FunctorsDiffer ==
    /\ \A op, c : Functor(op, c).op = op /\ Functor(op, c).c = c
    /\ \A op, c, p, d : Functor(op, c) = Functor(p, d) => op = p /\ c = d
BY DEF Functor

\* The types of the variables that the proofs use most.
LEMMA Types ==
    ASSUME TypeOK
    PROVE  /\ server \in {"new", "up", "closing", "gone"}
           /\ connections_ \subseteq Conns /\ guard \subseteq Conns
           /\ ioloop \in [Conns -> Loops]
           /\ conn \in [Conns -> ConnectionType]
           /\ revents \in [Conns -> SUBSET {"HUP", "ERR", "IN", "OUT"}]
           /\ active \in [Loops -> Seq(Conns \cup {Acceptor})]
           /\ pending \in [Loops -> Seq(FunctorType)]
           /\ functors \in [Loops -> Seq(FunctorType)]
           /\ pos \in [Loops -> Nat]
           /\ Base \in Loops
BY Zenon DEF TypeOK, Loops

\* Queues hold functors.
LEMMA WaitsType ==
    ASSUME TypeOK, \A l \in Loops : LoopPhase(l), NEW l \in Loops
    PROVE  Waits[l] \in Seq(FunctorType) /\ Waits[l] = Rest(functors[l], pos[l], pending[l])
<1>1. /\ functors[l] \in Seq(FunctorType) /\ pending[l] \in Seq(FunctorType)
      /\ pos[l] \in Nat /\ pos[l] <= Len(functors[l])
  BY Types DEF LoopPhase
<1>2. Waits[l] = Rest(functors[l], pos[l], pending[l])
  BY DEF Waits
<1> DEFINE s == functors[l]
           a == SubSeq(s, pos[l] + 1, Len(s))
<1>3. a \in Seq(FunctorType)
  <2>1. \A i \in (pos[l] + 1)..Len(s) : s[i] \in FunctorType
    BY <1>1
  <2>2. pos[l] + 1 \in Int /\ Len(s) \in Int
    BY <1>1
  <2> HIDE DEF s
  <2> QED
    BY <2>1, <2>2, SubSeqProperties
<1> HIDE DEF a
<1> QED
  BY <1>1, <1>2, <1>3 DEF Rest, a

\* The same for queues of functors.
LEMMA QueueSteps ==
    /\ \A s, q \in Seq(FunctorType), p \in Nat : p < Len(s) =>
          /\ Rest(s, p, q) # <<>>
          /\ Head(Rest(s, p, q)) = s[p + 1]
          /\ Tail(Rest(s, p, q)) = Rest(s, p + 1, q)
    /\ \A s, q \in Seq(FunctorType), p \in Nat, x \in FunctorType : p <= Len(s) =>
          Rest(s, p, q \o <<x>>) = Append(Rest(s, p, q), x)
<1>1. ASSUME NEW s \in Seq(FunctorType), NEW q \in Seq(FunctorType), NEW p \in Nat, p < Len(s)
      PROVE  /\ Rest(s, p, q) # <<>>
             /\ Head(Rest(s, p, q)) = s[p + 1]
             /\ Tail(Rest(s, p, q)) = Rest(s, p + 1, q)
  BY <1>1, RestNext
<1>2. ASSUME NEW s \in Seq(FunctorType), NEW q \in Seq(FunctorType), NEW p \in Nat,
             NEW x \in FunctorType, p <= Len(s)
      PROVE  Rest(s, p, q \o <<x>>) = Append(Rest(s, p, q), x)
  BY <1>2, RestPush
<1> QED
  BY <1>1, <1>2, Zenon

\* A functor of another connection, or none of the life of a connection, is
\* queued or called.
LEMMA QuietPush ==
    ASSUME NEW s \in Seq(FunctorType), NEW x \in FunctorType, NEW c,
           x.c # c \/ x.op \notin LifeOps
    PROVE  Quiet(c, s, Append(s, x))
<1>1. \A op \in LifeOps : x # Functor(op, c)
  BY FunctorsDiffer
<1>2. /\ "established" \in LifeOps /\ "destroyed" \in LifeOps
      /\ Functor("established", c) # Functor("destroyed", c)
  BY FunctorsDiffer DEF LifeOps
<1> DEFINE t == Append(s, x)
<1>3. /\ \A f : In(t, f) <=> In(s, f) \/ x = f
      /\ \A f : Once(s, f) /\ (x = f => ~In(s, f)) => Once(t, f)
      /\ \A f, g : f # g /\ Before(s, f, g) /\ (x = f => ~In(s, g)) => Before(t, f, g)
  BY Pushed
<1> HIDE DEF t
<1>4. Quiet(c, s, t)
  BY <1>1, <1>2, <1>3, Zenon DEF Quiet
<1> QED
  BY <1>4 DEF t

\* A functor that is not of c's life leaves the front of the queue.
LEMMA QuietPop ==
    ASSUME NEW s \in Seq(FunctorType), s # <<>>, NEW c,
           Head(s).c # c \/ Head(s).op \notin LifeOps
    PROVE  Quiet(c, s, Tail(s))
<1> DEFINE x == Head(s)
           t == Tail(s)
<1>1. \A op \in LifeOps : x # Functor(op, c)
  BY FunctorsDiffer
<1>2. /\ \A f : In(s, f) <=> In(t, f) \/ x = f
      /\ \A f : Once(s, f) => Once(t, f)
      /\ \A f, g : Before(s, f, g) => Before(t, f, g)
  BY Popped
<1> HIDE DEF t, x
<1>3. Quiet(c, s, t)
  BY <1>1, <1>2, Zenon DEF Quiet
<1> QED
  BY <1>3 DEF t

\* Two quiet changes are one.
LEMMA QuietTrans ==
    ASSUME NEW c, NEW r, NEW s, NEW t, Quiet(c, r, s), Quiet(c, s, t)
    PROVE  Quiet(c, r, t)
BY Zenon DEF Quiet

\* A queue that does not change is quiet.
LEMMA QuietSame ==
    ASSUME NEW c, NEW s
    PROVE  Quiet(c, s, s)
BY Zenon DEF Quiet

\* A step that keeps connection c open or closed as it is, and has nothing
\* to do with its life, preserves what is known of it.
LEMMA LifeFrame ==
    ASSUME NEW c \in Conns, Life(c),
           ConnOK(conn'[c]), Heard(conn'[c]), Keeps(conn[c], conn'[c]),
           server' = "up" => server = "up",
           socket'[c] = "accepted" <=> socket[c] = "accepted",
           c \in connections_' <=> c \in connections_,
           ioloop'[c] = ioloop[c], ioloop[c] \in Loops,
           \A l \in Loops : Quiet(c, Waits[l], Waits'[l])
    PROVE  Life(c)'
<1>1. /\ conn'[c].state = kConnecting <=> conn[c].state = kConnecting
      /\ conn'[c].state = kDisconnected <=> conn[c].state = kDisconnected
  BY StatesDiffer, Zenon DEF Keeps, Live
<1>2. /\ "established" \in LifeOps /\ "remove" \in LifeOps /\ "destroyed" \in LifeOps
      /\ Loops = Loops'
  BY Zenon DEF LifeOps, Loops
<1>3. \A l \in Loops : \A op \in LifeOps :
         /\ In(Waits'[l], Functor(op, c)) <=> In(Waits[l], Functor(op, c))
         /\ Once(Waits[l], Functor(op, c)) => Once(Waits'[l], Functor(op, c))
  BY Zenon DEF Quiet
<1>4. \A l \in Loops :
         Before(Waits[l], Functor("established", c), Functor("destroyed", c)) =>
         Before(Waits'[l], Functor("established", c), Functor("destroyed", c))
  BY Zenon DEF Quiet
<1>5. NotAccepted(c)'
  BY <1>1, <1>2, <1>3, Zenon DEF Life, NotAccepted
<1>6. InMap(c)'
  BY <1>1, Zenon DEF Life, InMap
<1>7. Established(c)'
  BY <1>1, <1>2, <1>3, Zenon DEF Life, Established
<1>8. Removed(c)'
  BY <1>1, <1>2, <1>3, Zenon DEF Life, Removed
<1>9. Destroyed(c)'
  BY <1>2, <1>3, <1>4, Zenon DEF Life, Destroyed
<1>10. Watched(c)'
  BY <1>2, <1>3, Zenon DEF Life, Watched, Keeps
<1>11. Kept(c)'
  BY <1>2, <1>3, Zenon DEF Life, Kept, Keeps
<1> QED
  BY <1>5, <1>6, <1>7, <1>8, <1>9, <1>10, <1>11, Zenon DEF Life

\* A step that leaves c's part of the active channels alone.
LEMMA ActiveFrame ==
    ASSUME NEW c \in Conns, Active(c), Keeps(conn[c], conn'[c]),
           c \in connections_' <=> c \in connections_,
           ioloop'[c] = ioloop[c],
           revents'[c] \subseteq revents[c],
           \A l \in Loops : c \in Range(active'[l]) =>
              c \in Range(active[l]) /\ revents'[c] # {} /\ (c \in guard => c \in guard'),
           \A l \in Loops : Quiet(c, Waits[l], Waits'[l])
    PROVE  Active(c)'
<1>1. "destroyed" \in LifeOps /\ Loops = Loops'
  BY Zenon DEF LifeOps, Loops
<1>2. \A l \in Loops :
         In(Waits'[l], Functor("destroyed", c)) <=> In(Waits[l], Functor("destroyed", c))
  BY <1>1, Zenon DEF Quiet
<1>3. Ready(conn[c]) => Ready(conn'[c])
  BY Zenon DEF Keeps, Ready
<1>4. conn[c].state = kDisconnected => conn'[c].state = kDisconnected
  BY StatesDiffer, Zenon DEF Keeps, Live
<1> SUFFICES ASSUME NEW l \in Loops, c \in Range(active'[l])
             PROVE  /\ ioloop'[c] = l
                    /\ revents'[c] # {} /\ ~({"HUP", "IN"} \subseteq revents'[c])
                    /\ \/ Ready(conn'[c])
                       \/ /\ conn'[c].state = kDisconnected
                          /\ "HUP" \notin revents'[c] /\ "IN" \notin revents'[c]
                    /\ c \in connections_' \/ c \in guard' \/ In(Waits'[l], Functor("destroyed", c))
  BY <1>1, Zenon DEF Active
<1>5. /\ ioloop[c] = l
      /\ revents[c] # {} /\ ~({"HUP", "IN"} \subseteq revents[c])
      /\ \/ Ready(conn[c])
         \/ conn[c].state = kDisconnected /\ "HUP" \notin revents[c] /\ "IN" \notin revents[c]
      /\ c \in connections_ \/ c \in guard \/ In(Waits[l], Functor("destroyed", c))
  BY Zenon DEF Active
<1>6. "HUP" \in revents'[c] => "HUP" \in revents[c]
  OBVIOUS
<1>7. "IN" \in revents'[c] => "IN" \in revents[c]
  OBVIOUS
<1>8. ~({"HUP", "IN"} \subseteq revents'[c])
  BY <1>5
<1> QED
  BY <1>2, <1>3, <1>4, <1>5, <1>6, <1>7, <1>8, Zenon

\* A connection keeps itself.
LEMMA KeepsSame ==
    ASSUME NEW k
    PROVE  Keeps(k, k)
BY Zenon DEF Keeps

\* What a handler keeps, the user's history too.
LEMMA KeepsHeard ==
    ASSUME NEW k, NEW m, Heard(k), Keeps(k, m)
    PROVE  Heard(m)
BY StatesDiffer, Zenon DEF Heard, Keeps, Live

\* A step that changes no queue.
LEMMA WaitsSame ==
    ASSUME UNCHANGED <<pending, functors, pos>>
    PROVE  Waits' = Waits
BY Zenon DEF Waits, Loops

\* A functor is queued.
LEMMA WaitsPush ==
    ASSUME TypeOK, \A l \in Loops : LoopPhase(l),
           NEW m \in Loops, NEW x \in FunctorType,
           pending' = Queued(pending, m, <<x>>), UNCHANGED <<functors, pos>>
    PROVE  /\ \A l \in Loops : Waits'[l] = IF l = m THEN Append(Waits[l], x) ELSE Waits[l]
           /\ pending' \in [Loops -> Seq(FunctorType)]
<1> USE Types
<1>1. pending' = [pending EXCEPT ![m] = pending[m] \o <<x>>]
  BY DEF Queued
<1>2. pending[m] \o <<x>> \in Seq(FunctorType)
  OBVIOUS
<1>3. \A l \in Loops : Waits'[l] = Rest(functors[l], pos[l], pending'[l])
  BY DEF Waits, Loops
<1>4. Waits'[m] = Append(Waits[m], x)
  <2>1. pending'[m] = pending[m] \o <<x>>
    BY <1>1
  <2>2. /\ functors[m] \in Seq(FunctorType) /\ pending[m] \in Seq(FunctorType)
        /\ pos[m] \in Nat /\ pos[m] <= Len(functors[m])
    BY DEF LoopPhase
  <2>3. Waits[m] = Rest(functors[m], pos[m], pending[m])
    BY WaitsType
  <2>4. Rest(functors[m], pos[m], pending[m] \o <<x>>) = Append(Rest(functors[m], pos[m], pending[m]), x)
    BY <2>2, QueueSteps, Zenon
  <2> QED
    BY <1>3, <2>1, <2>3, <2>4, Zenon
<1>5. ASSUME NEW l \in Loops, l # m PROVE Waits'[l] = Waits[l]
  <2>1. pending'[l] = pending[l]
    BY <1>1, <1>5
  <2> QED
    BY <1>3, <2>1, WaitsType
<1>6. pending' \in [Loops -> Seq(FunctorType)]
  BY <1>1, <1>2
<1> QED
  BY <1>4, <1>5, <1>6

\* A functor is called, and perhaps another one queued.
LEMMA WaitsPop ==
    ASSUME TypeOK, \A l \in Loops : LoopPhase(l), NEW l \in Loops, NEW op, Calling(l, op)
    PROVE  /\ Waits[l] # <<>> /\ Head(Waits[l]) = Current(l) /\ Current(l) \in FunctorType
           /\ Current(l) = Functor(op, Current(l).c) /\ Current(l).c \in Conns
           /\ pending' = pending =>
                 \A k \in Loops : Waits'[k] = IF k = l THEN Tail(Waits[k]) ELSE Waits[k]
           /\ \A m \in Loops, x \in FunctorType :
                 pending' = Queued(pending, m, <<x>>) =>
                    \A k \in Loops :
                       Waits'[k] = LET w == IF k = l THEN Tail(Waits[k]) ELSE Waits[k]
                                   IN  IF k = m THEN Append(w, x) ELSE w
<1> USE Types
<1>1. /\ pos[l] < Len(functors[l]) /\ Current(l).op = op /\ functors' = functors
      /\ pos' = [pos EXCEPT ![l] = pos[l] + 1]
  BY DEF Calling
<1>2. Current(l) \in FunctorType
  <2>1. pos[l] + 1 \in 1..Len(functors[l])
    BY <1>1
  <2> QED
    BY <2>1 DEF Current
<1>3. Current(l) = Functor(op, Current(l).c) /\ Current(l).c \in Conns
  BY <1>1, <1>2 DEF FunctorType, Functor
<1> DEFINE P(k) == IF k = l THEN pos[l] + 1 ELSE pos[k]
           W(k) == Rest(functors[k], P(k), pending[k])
<1>4. \A k \in Loops : pos'[k] = P(k) /\ P(k) \in Nat /\ P(k) <= Len(functors[k])
  BY <1>1 DEF LoopPhase
<1>5. /\ Waits[l] # <<>> /\ Head(Waits[l]) = Current(l) /\ W(l) = Tail(Waits[l])
  <2> DEFINE s == functors[l]
             p == pos[l]
             q == pending[l]
  <2>1. s \in Seq(FunctorType) /\ q \in Seq(FunctorType) /\ p \in Nat /\ p < Len(s)
    BY <1>1
  <2>2. Waits[l] = Rest(s, p, q) /\ W(l) = Rest(s, p + 1, q) /\ Current(l) = s[p + 1]
    BY WaitsType DEF Current
  <2> HIDE DEF s, p, q, W
  <2>3. /\ Rest(s, p, q) # <<>> /\ Head(Rest(s, p, q)) = s[p + 1]
        /\ Tail(Rest(s, p, q)) = Rest(s, p + 1, q)
    BY <2>1, QueueSteps, Zenon
  <2> QED
    BY <2>2, <2>3, Zenon
<1>6. \A k \in Loops : W(k) = IF k = l THEN Tail(Waits[k]) ELSE Waits[k]
  BY <1>5, WaitsType
<1>7. \A k \in Loops : Waits'[k] = Rest(functors[k], P(k), pending'[k])
  BY <1>1, <1>4 DEF Waits, Loops
<1> HIDE DEF P
<1>8. ASSUME NEW m \in Loops, NEW x \in FunctorType, pending' = Queued(pending, m, <<x>>),
             NEW k \in Loops
      PROVE  Waits'[k] = IF k = m THEN Append(W(k), x) ELSE W(k)
  <2>1. pending'[k] = IF k = m THEN pending[k] \o <<x>> ELSE pending[k]
    BY <1>8 DEF Queued
  <2>2. functors[k] \in Seq(FunctorType) /\ pending[k] \in Seq(FunctorType)
    OBVIOUS
  <2>3. P(k) \in Nat /\ P(k) <= Len(functors[k])
    BY <1>4
  <2>4. Rest(functors[k], P(k), pending[k] \o <<x>>) = Append(W(k), x)
    BY <2>2, <2>3, QueueSteps, Zenon
  <2> QED
    BY <1>7, <2>1, <2>4, Zenon
<1>9. pending' = pending => \A k \in Loops : Waits'[k] = W(k)
  BY <1>7
<1> HIDE DEF W
<1> QED
  <2>1. ASSUME NEW m \in Loops, NEW x \in FunctorType, pending' = Queued(pending, m, <<x>>),
               NEW k \in Loops
        PROVE  Waits'[k] = LET w == IF k = l THEN Tail(Waits[k]) ELSE Waits[k]
                           IN  IF k = m THEN Append(w, x) ELSE w
    <3>1. Waits'[k] = IF k = m THEN Append(W(k), x) ELSE W(k)
      BY <1>8, <2>1, Zenon
    <3>2. W(k) = IF k = l THEN Tail(Waits[k]) ELSE Waits[k]
      BY <1>6
    <3> QED
      BY <3>1, <3>2, Zenon
  <2>2. pending' = pending =>
           \A k \in Loops : Waits'[k] = IF k = l THEN Tail(Waits[k]) ELSE Waits[k]
    BY <1>6, <1>9, Zenon
  <2> QED
    BY <1>2, <1>3, <1>5, <2>1, <2>2, Zenon

\* A step that leaves every connection alone.
LEMMA AllFrame ==
    ASSUME ServerInv,
           server' = "up" => server = "up",
           UNCHANGED <<connections_, ioloop, revents, active, guard>>,
           \A c \in Conns : socket'[c] = "accepted" <=> socket[c] = "accepted",
           \A c \in Conns : conn'[c] = conn[c] \/ (/\ ConnOK(conn'[c]) /\ Heard(conn'[c])
                                                   /\ Keeps(conn[c], conn'[c])),
           \A l \in Loops : Waits'[l] = Waits[l]
    PROVE  \A c \in Conns : Life(c)' /\ Active(c)'
<1> SUFFICES ASSUME NEW c \in Conns PROVE Life(c)' /\ Active(c)'
  BY Zenon
<1>1. Life(c) /\ Active(c) /\ TypeOK
  BY Zenon DEF ServerInv
<1>2. ioloop[c] \in Loops
  BY <1>1, Types
<1>3. ConnOK(conn'[c]) /\ Heard(conn'[c]) /\ Keeps(conn[c], conn'[c])
  BY <1>1, KeepsSame, Zenon DEF Life
<1>4. \A l \in Loops : Quiet(c, Waits[l], Waits'[l])
  BY QuietSame, Zenon
<1>5. Life(c)'
  BY <1>1, <1>2, <1>3, <1>4, LifeFrame, Zenon
<1>6. \A l \in Loops : c \in Range(active'[l]) =>
         c \in Range(active[l]) /\ revents'[c] # {} /\ (c \in guard => c \in guard')
  BY <1>1, Zenon DEF Active
<1>7. revents'[c] \subseteq revents[c]
  BY Zenon
<1>8. Active(c)'
  BY <1>1, <1>3, <1>4, <1>6, <1>7, ActiveFrame, Zenon
<1> QED
  BY <1>5, <1>8

\* The loops stand where they stood.
LEMMA PhaseFrame ==
    ASSUME \A l \in Loops : LoopPhase(l), UNCHANGED <<lpc, active, functors, pos>>
    PROVE  \A l \in Loops : LoopPhase(l)'
BY Zenon DEF LoopPhase, Loops

-----------------------------------------------------------------------------
(* The steps, one lemma for each action.                                   *)

\* What a peer does changes neither the life of the connection nor its
\* channel.
LEMMA PeerOK ==
    ASSUME NEW k, ConnOK(k), Heard(k), NEW m,
           \/ m = [k EXCEPT !.rx = 1]
           \/ k.peer = "open" /\ m = [k EXCEPT !.peer = "fin"]
           \/ m = [k EXCEPT !.peer = "rst", !.err = TRUE]
    PROVE  ConnOK(m) /\ Heard(m) /\ Keeps(k, m)
<1>1. k \in ConnectionType /\ Counts(k) /\ Drains(k) /\ Listens(k)
  BY DEF ConnOK
<1>2. /\ m \in ConnectionType
      /\ m.state = k.state /\ m.ch = k.ch /\ m.sent = k.sent /\ m.wire = k.wire /\ m.out = k.out
      /\ m.fin = k.fin /\ m.heard = k.heard
      /\ m.peer = k.peer \/ m.peer = "rst" \/ k.peer = "open"
  BY <1>1 DEF ConnectionType
<1>3. Counts(m)
  BY <1>1, <1>2 DEF Counts
<1>4. Drains(m) /\ Listens(m) /\ Keeps(k, m) /\ Heard(m)
  BY <1>1, <1>2, Zenon DEF Drains, Listens, Live, Keeps, Heard
<1> QED
  BY <1>2, <1>3, <1>4 DEF ConnOK

\* A peer sends, closes or resets.
LEMMA PeerStep ==
    ASSUME ServerInv, NEW c \in Conns, PeerSend(c) \/ PeerClose(c) \/ PeerReset(c)
    PROVE  ServerInv'
<1>1. TypeOK /\ Life(c) /\ \A l \in Loops : LoopPhase(l)
  BY Zenon DEF ServerInv
<1>2. UNCHANGED <<server, socket, connections_, ioloop, acceptChannel_, numThread_, loops_, next_,
                  active, revents, guard, pending, functors, pos, lpc, quit, faults>>
  BY Zenon DEF PeerSend, PeerClose, PeerReset, serverVars, loopVars
<1> DEFINE k == conn[c]
           m == conn'[c]
<1>3. conn \in [Conns -> ConnectionType] /\ k \in ConnectionType
  BY <1>1, Types
<1>4. PICK x : conn' = [conn EXCEPT ![c] = x]
  BY <1>3 DEF PeerSend, PeerClose, PeerReset
<1>5. m = x
  BY <1>3, <1>4
<1>6. \/ x = [k EXCEPT !.rx = 1]
      \/ k.peer = "open" /\ x = [k EXCEPT !.peer = "fin"]
      \/ x = [k EXCEPT !.peer = "rst", !.err = TRUE]
  BY <1>3, <1>5 DEF PeerSend, PeerClose, PeerReset
<1>7. ConnOK(x) /\ Heard(x) /\ Keeps(k, x)
  BY <1>1, <1>6, PeerOK, Zenon DEF Life
<1>8. conn' \in [Conns -> ConnectionType]
  BY <1>3, <1>4, <1>7 DEF ConnOK
<1>9. TypeOK'
  BY <1>1, <1>2, <1>8, Zenon DEF TypeOK, Loops
<1>10. \A d \in Conns : conn'[d] = conn[d] \/ (/\ ConnOK(conn'[d]) /\ Heard(conn'[d])
                                               /\ Keeps(conn[d], conn'[d]))
  <2> TAKE d \in Conns
  <2>1. CASE d = c
    BY <1>5, <1>7, <2>1, Zenon
  <2>2. CASE d # c
    BY <1>3, <1>4, <2>2
  <2> QED
    BY <2>1, <2>2
<1>11. \A l \in Loops : Waits'[l] = Waits[l]
  BY <1>2, WaitsSame
<1>12. \A d \in Conns : Life(d)' /\ Active(d)'
  BY <1>2, <1>10, <1>11, AllFrame
<1>13. ServerPhase' /\ ChannelOK(acceptChannel_)' /\ faults' = {}
  BY <1>2, Zenon DEF ServerInv, ServerPhase, Loops
<1>14. \A l \in Loops : LoopPhase(l)'
  BY <1>1, <1>2, PhaseFrame
<1> QED
  BY <1>9, <1>12, <1>13, <1>14, Zenon DEF ServerInv, Loops

\* A peer connects, and waits in the backlog.
LEMMA PeerConnectStep ==
    ASSUME ServerInv, NEW c \in Conns, PeerConnect(c)
    PROVE  ServerInv'
<1>1. TypeOK /\ \A l \in Loops : LoopPhase(l)
  BY Zenon DEF ServerInv
<1>2. /\ UNCHANGED <<server, connections_, ioloop, conn, acceptChannel_, numThread_, loops_, next_,
                     active, revents, guard, pending, functors, pos, lpc, quit, faults>>
      /\ server = "up" /\ socket[c] = "none" /\ socket' = [socket EXCEPT ![c] = "backlog"]
  BY Zenon DEF PeerConnect, serverVars, loopVars
<1>3. socket \in [Conns -> {"none", "backlog", "accepted"}]
  BY <1>1 DEF TypeOK
<1>4. /\ socket' \in [Conns -> {"none", "backlog", "accepted"}]
      /\ \A d \in Conns : socket'[d] = "accepted" <=> socket[d] = "accepted"
  BY <1>2, <1>3
<1>5. TypeOK'
  BY <1>1, <1>2, <1>4, Zenon DEF TypeOK, Loops
<1>6. \A l \in Loops : Waits'[l] = Waits[l]
  BY <1>2, WaitsSame
<1>7. \A d \in Conns : Life(d)' /\ Active(d)'
  BY <1>2, <1>4, <1>6, AllFrame
<1>8. ServerPhase' /\ ChannelOK(acceptChannel_)' /\ faults' = {}
  <2>1. server' # "new"
    BY <1>2
  <2> QED
    BY <1>2, <2>1, Zenon DEF ServerInv, ServerPhase, Loops
<1>9. \A l \in Loops : LoopPhase(l)'
  BY <1>1, <1>2, PhaseFrame
<1> QED
  BY <1>5, <1>7, <1>8, <1>9, Zenon DEF ServerInv, Loops

\* TcpServer::start: the loops run, the acceptor listens.
LEMMA StartStep ==
    ASSUME ServerInv, Start
    PROVE  ServerInv'
<1>1. TypeOK /\ ServerPhase /\ ChannelOK(acceptChannel_) /\ \A l \in Loops : LoopPhase(l)
  BY Zenon DEF ServerInv
<1>2. /\ UNCHANGED <<socket, connections_, ioloop, conn, numThread_, next_, active, revents, guard,
                     pending, functors, pos, quit, faults>>
      /\ server = "new" /\ server' = "up"
  BY Zenon DEF Start, connVars
<1>3. /\ loops_' = SubSeq(IoLoops, 1, numThread_)
      /\ lpc' = [l \in Loops |-> IF l = Base THEN "poll"
                                 ELSE IF l \in Range(loops_') THEN "starting" ELSE "none"]
      /\ acceptChannel_' = EnableReading(acceptChannel_)
  BY Zenon DEF Start, StartPool, Listen
<1>4. /\ next_ = 0 /\ \A c \in Conns : socket[c] = "none"
      /\ \A l \in Loops : lpc[l] = "none"
  BY <1>1, <1>2, Zenon DEF ServerPhase
<1>5. loops_' \in Seq(Range(IoLoops))
  <2>1. IoLoops \in Seq(Range(IoLoops)) /\ numThread_ \in 0..Len(IoLoops)
    BY <1>1, PoolAssumption DEF TypeOK
  <2>2. \A i \in 1..numThread_ : IoLoops[i] \in Range(IoLoops)
    BY <2>1
  <2>3. 1 \in Int /\ numThread_ \in Int
    BY <2>1
  <2> QED
    BY <1>3, <2>2, <2>3, SubSeqProperties
<1>6. lpc' \in [Loops -> {"none", "starting", "poll", "dispatch", "functors", "exited"}]
  BY <1>3
<1>7. acceptChannel_' \in ChannelType /\ ChannelOK(acceptChannel_')
  <2> DEFINE ch == acceptChannel_
             E == ch.events \cup {Reading}
  <2>1. ch \in ChannelType
    BY <1>1 DEF TypeOK
  <2>2. E \in SUBSET {Reading, Writing}
    BY <2>1 DEF ChannelType
  <2>3. acceptChannel_' = UpdateChannel([ch EXCEPT !.events = E])
    BY <1>3 DEF EnableReading
  <2> HIDE DEF ch, E
  <2> QED
    BY <1>1, <2>1, <2>2, <2>3, EnableDisableOK DEF ch
<1>8. TypeOK'
  <2>1. next_' \in Nat /\ (next_' = 0 \/ next_' < Len(loops_'))
    BY <1>2, <1>4
  <2>2. server' \in {"new", "up", "closing", "gone"}
    BY <1>2
  <2> QED
    BY <1>1, <1>2, <1>5, <1>6, <1>7, <2>1, <2>2, Zenon DEF TypeOK, Loops
<1>9. Waits' = Waits
  BY <1>2, WaitsSame
<1>10. ASSUME NEW c \in Conns PROVE Life(c)' /\ Active(c)'
  <2>1. /\ ConnOK(conn[c]) /\ Heard(conn[c]) /\ NotAccepted(c) /\ Established(c) /\ Removed(c)
        /\ Destroyed(c) /\ Watched(c) /\ Kept(c) /\ Active(c)
    BY Zenon DEF ServerInv, Life
  <2>2. socket[c] # "accepted"
    BY <1>4
  <2>3. "remove" \in LifeOps
    BY DEF LifeOps
  <2>4. Removed(c)'
    BY <1>2, <1>9, <2>1, <2>2, <2>3, Zenon DEF Removed, NotAccepted, Loops
  <2>5. NotAccepted(c)' /\ InMap(c)' /\ Established(c)' /\ Destroyed(c)' /\ Watched(c)'
    BY <1>2, <1>9, <2>1, <2>2, Zenon DEF NotAccepted, InMap, Established, Destroyed, Watched, Loops
  <2>7. Kept(c)'
    BY <1>2, <1>9, <2>1, Zenon DEF Kept, Loops
  <2>6. Active(c)'
    BY <1>2, <1>9, <2>1, Zenon DEF Active, Loops
  <2> QED
    BY <1>2, <2>1, <2>4, <2>5, <2>6, <2>7, Zenon DEF Life
<1>11. ServerPhase'
  BY <1>2 DEF ServerPhase
<1>12. ASSUME NEW l \in Loops PROVE LoopPhase(l)'
  <2>1. /\ active[l] = <<>> /\ functors[l] = <<>> /\ pos[l] = 0
        /\ pos[l] <= Len(functors[l]) /\ IsInjective(active[l])
    BY <1>1, <1>4 DEF LoopPhase
  <2> QED
    BY <1>2, <2>1, Zenon DEF LoopPhase
<1> QED
  BY <1>2, <1>7, <1>8, <1>10, <1>11, <1>12, Zenon DEF ServerInv, Loops

\* The steps that only say that a loop shall stop, or that the server is
\* being destroyed.
LEMMA QuitStep ==
    ASSUME ServerInv,
           QuitBase \/ BeginDestroy \/ \E i \in 1..Len(loops_) : QuitLoop(i)
    PROVE  ServerInv'
<1>1. /\ TypeOK /\ ServerPhase /\ ChannelOK(acceptChannel_) /\ faults = {}
      /\ \A l \in Loops : LoopPhase(l)
  BY Zenon DEF ServerInv
<1>2. UNCHANGED <<socket, connections_, ioloop, conn, acceptChannel_, numThread_, loops_, next_,
                  active, revents, guard, pending, functors, pos, lpc, faults>>
  BY Zenon DEF QuitBase, BeginDestroy, QuitLoop, connVars, serverVars, loopVars
<1>3. /\ server' = server \/ (server' = "closing" /\ (server = "new" \/ lpc[Base] = "exited"))
      /\ server' = "up" => server = "up"
  BY DEF QuitBase, BeginDestroy, QuitLoop
<1>4. quit' \in [Loops -> {"no", "set", "lost"}]
  <2>1. quit \in [Loops -> {"no", "set", "lost"}]
    BY <1>1, Zenon DEF TypeOK
  <2>2. CASE QuitBase
    BY <2>1, <2>2 DEF QuitBase
  <2>3. CASE BeginDestroy
    BY <2>1, <2>3 DEF BeginDestroy, loopVars
  <2>4. ASSUME NEW i \in 1..Len(loops_), QuitLoop(i)
        PROVE  quit' \in [Loops -> {"no", "set", "lost"}]
    <3>1. quit' = [quit EXCEPT ![loops_[i]] = "set"]
      BY <2>4 DEF QuitLoop
    <3> QED
      BY <2>1, <3>1
  <2> QED
    BY <2>2, <2>3, <2>4
<1>5. TypeOK'
  <2>1. server' \in {"new", "up", "closing", "gone"}
    BY <1>1, <1>3 DEF TypeOK
  <2> QED
    BY <1>1, <1>2, <1>4, <2>1, Zenon DEF TypeOK, Loops
<1>6. \A l \in Loops : Waits'[l] = Waits[l]
  BY <1>2, WaitsSame
<1>7. \A d \in Conns : Life(d)' /\ Active(d)'
  BY <1>2, <1>3, <1>6, AllFrame
<1>8. ServerPhase'
  <2>1. CASE server' = server
    BY <1>1, <1>2, <2>1, Zenon DEF ServerPhase, Loops
  <2>2. CASE server' = "closing" /\ lpc[Base] = "exited"
    BY <1>2, <2>2 DEF ServerPhase
  <2>3. CASE server' = "closing" /\ server = "new"
    <3>1. \A c \in Conns : socket[c] = "none"
      BY <1>1, <2>3, Zenon DEF ServerPhase
    <3>2. \A c \in Conns : c \notin connections_
      <4> TAKE c \in Conns
      <4>1. NotAccepted(c) /\ socket[c] # "accepted"
        BY <3>1 DEF ServerInv, Life
      <4> QED
        BY <4>1, Zenon DEF NotAccepted
    <3>3. connections_ = {}
      BY <1>1, <3>2, Types
    <3>4. lpc[Base] = "none"
      BY <1>1, <2>3, Types DEF ServerPhase
    <3> QED
      BY <1>2, <2>3, <3>3, <3>4 DEF ServerPhase
  <2> QED
    BY <1>3, <2>1, <2>2, <2>3
<1>9. \A l \in Loops : LoopPhase(l)'
  BY <1>1, <1>2, PhaseFrame
<1> QED
  BY <1>1, <1>2, <1>5, <1>7, <1>8, <1>9, Zenon DEF ServerInv, Loops

\* The end of ~TcpServer: the acceptor's channel is taken out of epoll.
LEMMA EndDestroyStep ==
    ASSUME ServerInv, EndDestroy
    PROVE  ServerInv'
<1>1. /\ TypeOK /\ ServerPhase /\ ChannelOK(acceptChannel_) /\ faults = {}
      /\ \A l \in Loops : LoopPhase(l)
  BY Zenon DEF ServerInv
<1>2. /\ UNCHANGED <<socket, connections_, ioloop, conn, numThread_, loops_, next_,
                     active, revents, guard, pending, functors, pos, lpc, quit, faults>>
      /\ server = "closing" /\ server' = "gone" /\ connections_ = {}
      /\ acceptChannel_' = RemoveChannel(DisableAll(acceptChannel_))
  BY Zenon DEF EndDestroy, DestroyAcceptor, connVars, loopVars
<1>3. acceptChannel_' \in ChannelType /\ ChannelOK(acceptChannel_')
  <2> DEFINE ch == acceptChannel_
             u == DisableAll(ch)
  <2>1. ch \in ChannelType /\ {} \in SUBSET {Reading, Writing}
    BY <1>1 DEF TypeOK
  <2>2. u = UpdateChannel([ch EXCEPT !.events = {}])
    BY DEF DisableAll
  <2> HIDE DEF u
  <2>3. u \in ChannelType /\ ChannelOK(u)
    BY <1>1, <2>1, <2>2, EnableDisableOK
  <2> QED
    BY <1>2, <2>3, RemoveChannelOK DEF u
<1>4. TypeOK'
  <2>1. server' \in {"new", "up", "closing", "gone"}
    BY <1>2
  <2> QED
    BY <1>1, <1>2, <1>3, <2>1, Zenon DEF TypeOK, Loops
<1>5. \A l \in Loops : Waits'[l] = Waits[l]
  BY <1>2, WaitsSame
<1>6. \A d \in Conns : Life(d)' /\ Active(d)'
  <2>1. server' = "up" => server = "up"
    BY <1>2
  <2> QED
    BY <1>2, <1>5, <2>1, AllFrame
<1>7. ServerPhase'
  BY <1>1, <1>2 DEF ServerPhase
<1>8. \A l \in Loops : LoopPhase(l)'
  BY <1>1, <1>2, PhaseFrame
<1> QED
  BY <1>1, <1>2, <1>3, <1>4, <1>6, <1>7, <1>8, Zenon DEF ServerInv, Loops

\* A loop of the pool begins.
LEMMA EnterLoopStep ==
    ASSUME ServerInv, NEW l \in Loops, EnterLoop(l)
    PROVE  ServerInv'
<1>1. /\ TypeOK /\ ServerPhase /\ ChannelOK(acceptChannel_) /\ faults = {}
      /\ \A m \in Loops : LoopPhase(m)
  BY Zenon DEF ServerInv
<1>2. /\ UNCHANGED <<server, socket, connections_, ioloop, conn, acceptChannel_, numThread_, loops_,
                     next_, active, revents, guard, pending, functors, pos, faults>>
      /\ lpc[l] = "starting" /\ lpc' = [lpc EXCEPT ![l] = "poll"]
      /\ quit' = [quit EXCEPT ![l] = IF quit[l] = "set" THEN "lost" ELSE quit[l]]
  BY Zenon DEF EnterLoop, connVars, serverVars
<1>3. /\ lpc \in [Loops -> {"none", "starting", "poll", "dispatch", "functors", "exited"}]
      /\ quit \in [Loops -> {"no", "set", "lost"}]
  BY <1>1, Zenon DEF TypeOK
<1>4. TypeOK'
  <2>1. /\ lpc' \in [Loops -> {"none", "starting", "poll", "dispatch", "functors", "exited"}]
        /\ quit' \in [Loops -> {"no", "set", "lost"}]
    BY <1>2, <1>3
  <2> QED
    BY <1>1, <1>2, <2>1, Zenon DEF TypeOK, Loops
<1>5. \A m \in Loops : Waits'[m] = Waits[m]
  BY <1>2, WaitsSame
<1>6. \A d \in Conns : Life(d)' /\ Active(d)'
  BY <1>2, <1>5, AllFrame
<1>7. ServerPhase'
  <2>1. server # "new"
    BY <1>1, <1>2 DEF ServerPhase
  <2>2. Base # l => lpc'[Base] = lpc[Base]
    BY <1>2, <1>3, Types
  <2>3. Base = l => server = "up"
    BY <1>1, <1>2 DEF ServerPhase
  <2>4. server = "up" => server \notin {"closing", "gone"}
    OBVIOUS
  <2> QED
    BY <1>1, <1>2, <2>1, <2>2, <2>3, <2>4, Zenon DEF ServerPhase
<1>8. ASSUME NEW m \in Loops PROVE LoopPhase(m)'
  <2>1. LoopPhase(m)
    BY <1>1
  <2>2. CASE m = l
    <3>1. lpc[m] # "dispatch" /\ lpc[m] # "functors"
      BY <1>2, <2>2
    <3> QED
      BY <1>2, <2>1, <3>1, Zenon DEF LoopPhase
  <2>3. CASE m # l
    <3>1. lpc'[m] = lpc[m]
      BY <1>2, <1>3, <2>3
    <3> QED
      BY <1>2, <2>1, <3>1, Zenon DEF LoopPhase
  <2> QED
    BY <2>2, <2>3
<1> QED
  BY <1>1, <1>2, <1>4, <1>6, <1>7, <1>8, Zenon DEF ServerInv, Loops

\* The swap of doPendingFunctors.
LEMMA DoPendingFunctorsStep ==
    ASSUME ServerInv, NEW l \in Loops, DoPendingFunctors(l)
    PROVE  ServerInv'
<1>1. /\ TypeOK /\ ServerPhase /\ ChannelOK(acceptChannel_) /\ faults = {}
      /\ \A m \in Loops : LoopPhase(m)
  BY Zenon DEF ServerInv
<1>2. /\ UNCHANGED <<server, socket, connections_, ioloop, conn, acceptChannel_, numThread_, loops_,
                     next_, active, revents, guard, quit, faults>>
      /\ lpc[l] = "dispatch" /\ active[l] = <<>>
      /\ functors' = [functors EXCEPT ![l] = pending[l]]
      /\ pending' = [pending EXCEPT ![l] = <<>>]
      /\ pos' = [pos EXCEPT ![l] = 0]
      /\ lpc' = [lpc EXCEPT ![l] = "functors"]
  BY Zenon DEF DoPendingFunctors, connVars, serverVars
<1>3. /\ pending \in [Loops -> Seq(FunctorType)] /\ functors \in [Loops -> Seq(FunctorType)]
      /\ pos \in [Loops -> Nat]
      /\ lpc \in [Loops -> {"none", "starting", "poll", "dispatch", "functors", "exited"}]
  BY <1>1, Zenon DEF TypeOK
<1>4. TypeOK'
  <2>1. /\ pending' \in [Loops -> Seq(FunctorType)] /\ functors' \in [Loops -> Seq(FunctorType)]
        /\ pos' \in [Loops -> Nat]
        /\ lpc' \in [Loops -> {"none", "starting", "poll", "dispatch", "functors", "exited"}]
    BY <1>2, <1>3
  <2> QED
    BY <1>1, <1>2, <2>1, Zenon DEF TypeOK, Loops
<1>5. functors[l] = <<>> /\ pos[l] = 0
  BY <1>1, <1>2 DEF LoopPhase
<1>6. \A m \in Loops : Waits'[m] = Waits[m]
  <2> TAKE m \in Loops
  <2>1. Waits'[m] = Rest(functors'[m], pos'[m], pending'[m])
    BY DEF Waits, Loops
  <2>2. Waits[m] = Rest(functors[m], pos[m], pending[m])
    BY <1>1, WaitsType
  <2>3. CASE m = l
    <3>1. functors'[m] = pending[l] /\ pos'[m] = 0 /\ pending'[m] = <<>>
      BY <1>2, <1>3, <2>3
    <3>2. pending[l] \in Seq(FunctorType)
      BY <1>3
    <3> QED
      BY <1>5, <2>1, <2>2, <2>3, <3>1, <3>2, RestSwap
  <2>4. CASE m # l
    BY <1>2, <1>3, <2>1, <2>2, <2>4
  <2> QED
    BY <2>3, <2>4
<1>7. \A d \in Conns : Life(d)' /\ Active(d)'
  BY <1>2, <1>6, AllFrame
<1>8. ServerPhase'
  <2>1. lpc[Base] \in {"none", "exited"} => l # Base
    BY <1>2
  <2>2. server # "new"
    BY <1>1, <1>2 DEF ServerPhase
  <2>3. Base # l => lpc'[Base] = lpc[Base]
    BY <1>2, <1>3, Types
  <2>4. lpc'[Base] \in {"none", "exited"} \/ server' = "up"
    BY <1>1, <1>2, <2>1, <2>3, Zenon DEF ServerPhase
  <2>5. server \in {"closing", "gone"} => connections_ = {} \/ lpc'[Base] = "exited"
    <3>1. lpc[Base] = "exited" => l # Base
      BY <1>2
    <3> QED
      BY <1>1, <2>3, <3>1, Zenon DEF ServerPhase
  <2> QED
    BY <1>2, <2>2, <2>4, <2>5, Zenon DEF ServerPhase
<1>9. ASSUME NEW m \in Loops PROVE LoopPhase(m)'
  <2>1. LoopPhase(m)
    BY <1>1
  <2>2. CASE m = l
    <3>1. functors'[m] \in Seq(FunctorType) /\ pos'[m] = 0 /\ lpc'[m] = "functors" /\ active'[m] = <<>>
      BY <1>2, <1>3, <2>2
    <3>2. IsInjective(active'[m])
      BY <1>2, <2>1 DEF LoopPhase
    <3> QED
      BY <3>1, <3>2 DEF LoopPhase
  <2>3. CASE m # l
    <3>1. /\ functors'[m] = functors[m] /\ pos'[m] = pos[m] /\ lpc'[m] = lpc[m]
          /\ active'[m] = active[m]
      BY <1>2, <1>3, <2>3
    <3> QED
      BY <2>1, <3>1, Zenon DEF LoopPhase
  <2> QED
    BY <2>2, <2>3
<1> QED
  BY <1>1, <1>2, <1>4, <1>7, <1>8, <1>9, Zenon DEF ServerInv, Loops

\* A batch is over, and the loop polls again or ends.
LEMMA EndPendingFunctorsStep ==
    ASSUME ServerInv, NEW l \in Loops, EndPendingFunctors(l)
    PROVE  ServerInv'
<1>1. /\ TypeOK /\ ServerPhase /\ ChannelOK(acceptChannel_) /\ faults = {}
      /\ \A m \in Loops : LoopPhase(m)
  BY Zenon DEF ServerInv
<1>2. /\ UNCHANGED <<server, socket, connections_, ioloop, conn, acceptChannel_, numThread_, loops_,
                     next_, active, revents, guard, pending, quit, faults>>
      /\ lpc[l] = "functors" /\ pos[l] = Len(functors[l])
      /\ functors' = [functors EXCEPT ![l] = <<>>]
      /\ pos' = [pos EXCEPT ![l] = 0]
      /\ lpc' = [lpc EXCEPT ![l] = IF quit[l] = "set" THEN "exited" ELSE "poll"]
  BY Zenon DEF EndPendingFunctors, connVars, serverVars
<1>3. /\ pending \in [Loops -> Seq(FunctorType)] /\ functors \in [Loops -> Seq(FunctorType)]
      /\ pos \in [Loops -> Nat]
      /\ lpc \in [Loops -> {"none", "starting", "poll", "dispatch", "functors", "exited"}]
  BY <1>1, Zenon DEF TypeOK
<1>4. TypeOK'
  <2>1. /\ functors' \in [Loops -> Seq(FunctorType)] /\ pos' \in [Loops -> Nat]
        /\ lpc' \in [Loops -> {"none", "starting", "poll", "dispatch", "functors", "exited"}]
    BY <1>2, <1>3
  <2> QED
    BY <1>1, <1>2, <2>1, Zenon DEF TypeOK, Loops
<1>5. \A m \in Loops : Waits'[m] = Waits[m]
  <2> TAKE m \in Loops
  <2>1. Waits'[m] = Rest(functors'[m], pos'[m], pending[m])
    BY <1>2 DEF Waits, Loops
  <2>2. Waits[m] = Rest(functors[m], pos[m], pending[m])
    BY <1>1, WaitsType
  <2>3. CASE m = l
    <3>1. functors'[m] = <<>> /\ pos'[m] = 0
      BY <1>2, <1>3, <2>3
    <3>2. functors[l] \in Seq(FunctorType) /\ pending[l] \in Seq(FunctorType)
      BY <1>3
    <3>3. Rest(<<>>, 0, pending[l]) = pending[l]
      BY <3>2, RestSwap
    <3>4. Rest(functors[l], Len(functors[l]), pending[l]) = pending[l]
      BY <3>2, RestEnd
    <3> QED
      BY <1>2, <2>1, <2>2, <2>3, <3>1, <3>3, <3>4
  <2>4. CASE m # l
    BY <1>2, <1>3, <2>1, <2>2, <2>4
  <2> QED
    BY <2>3, <2>4
<1>6. \A d \in Conns : Life(d)' /\ Active(d)'
  BY <1>2, <1>5, AllFrame
<1>7. ServerPhase'
  <2>1. server # "new"
    BY <1>1, <1>2 DEF ServerPhase
  <2>2. Base # l => lpc'[Base] = lpc[Base]
    BY <1>2, <1>3, Types
  <2>3. Base = l => server = "up"
    BY <1>1, <1>2 DEF ServerPhase
  <2>4. server = "up" => server \notin {"closing", "gone"}
    OBVIOUS
  <2> QED
    BY <1>1, <1>2, <2>1, <2>2, <2>3, <2>4, Zenon DEF ServerPhase
<1>8. ASSUME NEW m \in Loops PROVE LoopPhase(m)'
  <2>1. LoopPhase(m)
    BY <1>1
  <2>2. CASE m = l
    <3>1. functors'[m] = <<>> /\ pos'[m] = 0 /\ active'[m] = <<>>
      BY <1>2, <1>3, <2>1, <2>2 DEF LoopPhase
    <3>2. IsInjective(active'[m])
      BY <1>2, <2>1 DEF LoopPhase
    <3> QED
      BY <3>1, <3>2 DEF LoopPhase
  <2>3. CASE m # l
    <3>1. /\ functors'[m] = functors[m] /\ pos'[m] = pos[m] /\ lpc'[m] = lpc[m]
          /\ active'[m] = active[m]
      BY <1>2, <1>3, <2>3
    <3> QED
      BY <2>1, <3>1, Zenon DEF LoopPhase
  <2> QED
    BY <2>2, <2>3
<1> QED
  BY <1>1, <1>2, <1>4, <1>6, <1>7, <1>8, Zenon DEF ServerInv, Loops

-----------------------------------------------------------------------------
(* The steps of a loop.                                                    *)

\* A step about connection c leaves the others alone.
LEMMA OthersFrame ==
    ASSUME ServerInv, NEW c \in Conns, NEW d \in Conns, d # c,
           server' = "up" => server = "up",
           conn'[d] = conn[d], socket'[d] = socket[d], ioloop'[d] = ioloop[d],
           d \in connections_' <=> d \in connections_,
           revents'[d] = revents[d], d \in guard' <=> d \in guard,
           \A l \in Loops : Range(active'[l]) \subseteq Range(active[l]),
           \A l \in Loops : Quiet(d, Waits[l], Waits'[l])
    PROVE  Life(d)' /\ Active(d)'
<1>1. Life(d) /\ Active(d) /\ TypeOK
  BY Zenon DEF ServerInv
<1>2. ioloop[d] \in Loops
  BY <1>1, Types
<1>3. ConnOK(conn'[d]) /\ Heard(conn'[d]) /\ Keeps(conn[d], conn'[d])
  BY <1>1, KeepsSame, Zenon DEF Life
<1>4. Life(d)'
  BY <1>1, <1>2, <1>3, LifeFrame, Zenon
<1>5. \A l \in Loops : d \in Range(active'[l]) =>
         d \in Range(active[l]) /\ revents'[d] # {} /\ (d \in guard => d \in guard')
  <2> SUFFICES ASSUME NEW l \in Loops, d \in Range(active'[l])
               PROVE  d \in Range(active[l]) /\ revents'[d] # {} /\ (d \in guard => d \in guard')
    BY Zenon
  <2>1. d \in Range(active[l])
    OBVIOUS
  <2> QED
    BY <1>1, <2>1, Zenon DEF Active
<1>6. revents'[d] \subseteq revents[d]
  BY Zenon
<1>7. Active(d)'
  BY <1>1, <1>3, <1>5, <1>6, ActiveFrame, Zenon
<1> QED
  BY <1>4, <1>7

\* The current channel leaves the list of active channels.
LEMMA TailOfActive ==
    ASSUME NEW S, NEW s \in Seq(S), s # <<>>, IsInjective(s)
    PROVE  /\ Tail(s) \in Seq(S) /\ Head(s) \in S /\ Head(s) \in Range(s)
           /\ Range(Tail(s)) \subseteq Range(s)
           /\ Head(s) \notin Range(Tail(s))
           /\ IsInjective(Tail(s))
<1> DEFINE t == Tail(s)
           n == Len(t)
<1>1. /\ t \in Seq(S) /\ Len(s) = n + 1 /\ n \in Nat /\ Head(s) = s[1] /\ s[1] \in S
      /\ DOMAIN s = 1..(n + 1) /\ DOMAIN t = 1..n
      /\ \A i \in 1..n : t[i] = s[i + 1]
  OBVIOUS
<1> HIDE DEF t
<1>2. \A i \in 1..n : i + 1 \in 1..(n + 1) /\ i + 1 # 1
  BY <1>1
<1>3. 1 \in 1..(n + 1)
  BY <1>1
<1>4. \A i, j \in 1..(n + 1) : s[i] = s[j] => i = j
  BY <1>1 DEF IsInjective
<1>5. \A x : x \in Range(t) => \E i \in 1..n : x = s[i + 1]
  BY <1>1 DEF Range
<1>6. Range(t) \subseteq Range(s)
  BY <1>1, <1>2, <1>5 DEF Range
<1>7. Head(s) \notin Range(t)
  BY <1>1, <1>2, <1>3, <1>4, <1>5
<1>8. IsInjective(t)
  <2> SUFFICES ASSUME NEW i \in 1..n, NEW j \in 1..n, t[i] = t[j] PROVE i = j
    BY <1>1 DEF IsInjective
  <2>1. i + 1 = j + 1
    BY <1>1, <1>2, <1>4
  <2> QED
    BY <2>1
<1>9. Head(s) \in Range(s)
  BY <1>1, <1>3 DEF Range
<1> QED
  BY <1>1, <1>6, <1>7, <1>8, <1>9 DEF t

\* What poll() may report of a connection.
MayReport(k, E) == E = Reported(k, TRUE) \/ E = Reported(k, FALSE)

\* poll() reports a connection only while it is up, and not both EPOLLHUP
\* and EPOLLIN.
LEMMA ReportedOK ==
    ASSUME NEW k, ConnOK(k), NEW E, E # {}, MayReport(k, E)
    PROVE  /\ Ready(k) /\ E \subseteq {"HUP", "ERR", "IN", "OUT"}
           /\ ~({"HUP", "IN"} \subseteq E)
<1> DEFINE in == Reading \in k.ch.epoll.events /\ (k.rx > 0 \/ k.peer # "open")
<1>1. k.ch.epoll.watched
  BY DEF Reported, MayReport
<1>2. k.ch.index = KAdded
  BY <1>1, Zenon DEF ConnOK, Listens, ChannelOK, Registered
<1>3. k.state # kDisconnected
  BY <1>2, Zenon DEF ConnOK, Listens
<1>4. k.state # kConnecting
  <2>1. NewChannel.index # KAdded
    BY StatesDiffer DEF NewChannel
  <2> QED
    BY <1>2, <2>1, Zenon DEF ConnOK, Listens
<1>5. Ready(k)
  <2>1. k.state \in {kConnecting, kConnected, kDisconnecting, kDisconnected}
    BY ConnectionFields DEF ConnOK
  <2> QED
    BY <1>2, <1>3, <1>4, <2>1 DEF Ready, Live
<1>6. "HUP" \in E => ~in
  BY DEF Reported, MayReport
<1>7. "IN" \in E => in
  BY DEF Reported, MayReport
<1>8. E \subseteq {"HUP", "ERR", "IN", "OUT"}
  BY DEF Reported, MayReport
<1> HIDE DEF in
<1>9. ~({"HUP", "IN"} \subseteq E)
  BY <1>6, <1>7
<1> QED
  BY <1>5, <1>8, <1>9

\* poll() returns: only channels of connections that are up are active.
LEMMA PollStep ==
    ASSUME ServerInv, NEW l \in Loops, Poll(l)
    PROVE  ServerInv'
<1>1. /\ TypeOK /\ ServerPhase /\ ChannelOK(acceptChannel_) /\ faults = {}
      /\ \A m \in Loops : LoopPhase(m)
  BY Zenon DEF ServerInv
<1>2. /\ UNCHANGED <<server, socket, connections_, ioloop, conn, acceptChannel_, numThread_, loops_,
                     next_, guard, pending, functors, pos, quit, faults>>
      /\ lpc[l] = "poll" /\ lpc' = [lpc EXCEPT ![l] = "dispatch"]
  BY Zenon DEF Poll, connVars, serverVars
<1>3. PICK W \in SUBSET {c \in Conns : ioloop[c] = l /\ IsWriting(conn[c].ch)} :
        LET rev == [c \in Conns |-> Reported(conn[c], c \in W)]
            ready == {c \in Conns : ioloop[c] = l /\ rev[c] # {}}
                     \cup (IF l = Base /\ AcceptorReady
                           THEN {Acceptor} ELSE {})
        IN  \E R \in Filled(ready) :
              /\ \E order \in SetToSeqs(R) :
                    active' = [active EXCEPT ![l] = order]
              /\ revents' = [c \in Conns |-> IF c \in R THEN rev[c] ELSE revents[c]]
  BY Zenon DEF Poll
<1> DEFINE rev == [c \in Conns |-> Reported(conn[c], c \in W)]
           ready == {c \in Conns : ioloop[c] = l /\ rev[c] # {}}
                    \cup (IF l = Base /\ AcceptorReady THEN {Acceptor} ELSE {})
<1>4. PICK R \in Filled(ready) :
        /\ \E order \in SetToSeqs(R) : active' = [active EXCEPT ![l] = order]
        /\ revents' = [c \in Conns |-> IF c \in R THEN rev[c] ELSE revents[c]]
  BY <1>3, Zenon
<1>5. PICK order \in SetToSeqs(R) : active' = [active EXCEPT ![l] = order]
  BY <1>4, Zenon
<1>6. /\ conn \in [Conns -> ConnectionType] /\ ioloop \in [Conns -> Loops]
      /\ revents \in [Conns -> SUBSET {"HUP", "ERR", "IN", "OUT"}]
      /\ active \in [Loops -> Seq(Conns \cup {Acceptor})]
      /\ lpc \in [Loops -> {"none", "starting", "poll", "dispatch", "functors", "exited"}]
  BY <1>1, Zenon DEF TypeOK
<1>7. R \subseteq Conns \cup {Acceptor} /\ \A c \in Conns : c \in R => ioloop[c] = l /\ rev[c] # {}
  <2>1. Acceptor \notin Conns
    BY ConnsAssumption DEF Acceptor
  <2>2. R \subseteq ready
    BY <1>4 DEF Filled
  <2>3. \A c \in Conns : c \in ready => ioloop[c] = l /\ rev[c] # {}
    BY <2>1
  <2>4. ready \subseteq Conns \cup {Acceptor}
    OBVIOUS
  <2> HIDE DEF ready, rev
  <2> QED
    BY <2>2, <2>3, <2>4
<1> HIDE DEF ready
<1>8. Cardinality(R) \in Nat
  <2>1. IsFiniteSet(Conns \cup {Acceptor})
    BY ConnsAssumption, FS_AddElement
  <2>2. IsFiniteSet(R)
    BY <1>7, <2>1, FS_Subset
  <2> QED
    BY <2>2, FS_CardinalityType
<1>9. /\ order \in [1..Cardinality(R) -> R]
      /\ \A i, j \in 1..Cardinality(R) : i # j => order[i] # order[j]
  BY <1>5 DEF SetToSeqs
<1>10. order \in Seq(Conns \cup {Acceptor}) /\ IsInjective(order) /\ Range(order) \subseteq R
  <2>1. order \in Seq(R)
    BY <1>8, <1>9
  <2>2. order \in Seq(Conns \cup {Acceptor})
    BY <1>7, <2>1
  <2>3. IsInjective(order)
    BY <1>9 DEF IsInjective
  <2>4. Range(order) \subseteq R
    BY <1>9 DEF Range
  <2> QED
    BY <2>2, <2>3, <2>4
<1>11. \A c \in Conns : ConnOK(conn[c]) /\ Watched(c) /\ Active(c)
  BY Zenon DEF ServerInv, Life
<1>12. \A c \in Conns : c \in R =>
          /\ revents'[c] # {} /\ Ready(conn[c]) /\ revents'[c] \subseteq {"HUP", "ERR", "IN", "OUT"}
          /\ ~({"HUP", "IN"} \subseteq revents'[c])
  <2> SUFFICES ASSUME NEW c \in Conns, c \in R
               PROVE  /\ revents'[c] # {}
                      /\ Ready(conn[c]) /\ revents'[c] \subseteq {"HUP", "ERR", "IN", "OUT"}
                      /\ ~({"HUP", "IN"} \subseteq revents'[c])
    BY Zenon
  <2>1. PICK E : E = revents'[c]
    OBVIOUS
  <2>2. E = Reported(conn[c], c \in W) /\ E # {}
    BY <1>4, <1>7, <2>1
  <2>3. MayReport(conn[c], E)
    BY <2>2 DEF Reported, MayReport
  <2>4. ConnOK(conn[c])
    BY <1>11
  <2>5. /\ Ready(conn[c]) /\ E \subseteq {"HUP", "ERR", "IN", "OUT"}
        /\ ~({"HUP", "IN"} \subseteq E)
    BY <2>2, <2>3, <2>4, ReportedOK
  <2> QED
    BY <2>1, <2>2, <2>5, Zenon
<1>13. /\ revents' \in [Conns -> SUBSET {"HUP", "ERR", "IN", "OUT"}]
       /\ \A c \in Conns : c \notin R => revents'[c] = revents[c]
  <2>1. \A c \in Conns : c \notin R => revents'[c] = revents[c]
    BY <1>4
  <2>2. \A c \in Conns : revents'[c] \in SUBSET {"HUP", "ERR", "IN", "OUT"}
    <3> TAKE c \in Conns
    <3>1. CASE c \in R
      BY <1>12, <3>1
    <3>2. CASE c \notin R
      BY <1>6, <2>1, <3>2
    <3> QED
      BY <3>1, <3>2
  <2>3. revents' = [c \in Conns |-> revents'[c]]
    BY <1>4
  <2> QED
    BY <2>1, <2>2, <2>3
<1>14. TypeOK'
  <2>1. active' \in [Loops -> Seq(Conns \cup {Acceptor})]
    BY <1>5, <1>6, <1>10
  <2>2. lpc' \in [Loops -> {"none", "starting", "poll", "dispatch", "functors", "exited"}]
    BY <1>2, <1>6
  <2> QED
    BY <1>1, <1>2, <1>13, <2>1, <2>2, Zenon DEF TypeOK, Loops
<1>15. Waits' = Waits
  BY <1>2, WaitsSame
<1>16. ASSUME NEW c \in Conns PROVE Life(c)'
  <2>1. Life(c)
    BY DEF ServerInv
  <2> QED
    BY <1>2, <1>15, <2>1, Zenon
    DEF Life, NotAccepted, InMap, Established, Removed, Destroyed, Watched, Kept, Loops
<1>17. ASSUME NEW c \in Conns, NEW m \in Loops, c \in Range(active'[m])
       PROVE  /\ ioloop[c] = m
              /\ revents'[c] # {} /\ ~({"HUP", "IN"} \subseteq revents'[c])
              /\ \/ Ready(conn[c])
                 \/ /\ conn[c].state = kDisconnected
                    /\ "HUP" \notin revents'[c] /\ "IN" \notin revents'[c]
              /\ c \in connections_ \/ c \in guard \/ In(Waits[m], Functor("destroyed", c))
  <2>1. CASE m = l
    <3>1. c \in R /\ ioloop[c] = l
      BY <1>5, <1>6, <1>7, <1>10, <1>17, <2>1
    <3>2. revents'[c] # {} /\ Ready(conn[c]) /\ ~({"HUP", "IN"} \subseteq revents'[c])
      BY <1>12, <3>1
    <3>3. c \in connections_ \/ In(Waits[ioloop[c]], Functor("destroyed", c))
      BY <1>11, <3>2, Zenon DEF Watched, Ready
    <3> QED
      BY <2>1, <3>1, <3>2, <3>3, Zenon
  <2>2. CASE m # l
    <3>1. c \in Range(active[m])
      BY <1>5, <1>6, <1>17, <2>2
    <3>2. ioloop[c] = m
      BY <1>11, <3>1, Zenon DEF Active
    <3>3. revents'[c] = revents[c]
      BY <1>7, <1>13, <2>2, <3>2
    <3> QED
      BY <1>11, <3>1, <3>3, Zenon DEF Active
  <2> QED
    BY <2>1, <2>2
<1>18. ASSUME NEW c \in Conns PROVE Active(c)'
  BY <1>2, <1>15, <1>17, Zenon DEF Active, Loops
<1>19. ServerPhase'
  <2>1. server # "new"
    BY <1>1, <1>2 DEF ServerPhase
  <2>2. Base # l => lpc'[Base] = lpc[Base]
    BY <1>1, <1>2, <1>6, Types
  <2>3. Base = l => server = "up"
    BY <1>1, <1>2 DEF ServerPhase
  <2>4. server = "up" => server \notin {"closing", "gone"}
    OBVIOUS
  <2> QED
    BY <1>1, <1>2, <2>1, <2>2, <2>3, <2>4, Zenon DEF ServerPhase
<1>20. ASSUME NEW m \in Loops PROVE LoopPhase(m)'
  <2>1. LoopPhase(m)
    BY <1>1
  <2>2. CASE m = l
    <3>1. functors'[m] = <<>> /\ pos'[m] = 0 /\ lpc'[m] = "dispatch" /\ active'[m] = order
      BY <1>2, <1>5, <1>6, <2>1, <2>2 DEF LoopPhase
    <3> QED
      BY <1>10, <3>1 DEF LoopPhase
  <2>3. CASE m # l
    <3>1. lpc'[m] = lpc[m] /\ active'[m] = active[m]
      BY <1>2, <1>5, <1>6, <2>3
    <3> QED
      BY <1>2, <2>1, <3>1, Zenon DEF LoopPhase
  <2> QED
    BY <2>2, <2>3
<1> QED
  BY <1>1, <1>2, <1>14, <1>16, <1>18, <1>19, <1>20, Zenon DEF ServerInv, Loops

\* Queues hold functors.
LEMMA QueuedType ==
    ASSUME NEW m \in Loops, NEW x \in FunctorType, NEW P \in [Loops -> Seq(FunctorType)]
    PROVE  Queued(P, m, <<x>>) \in [Loops -> Seq(FunctorType)]
<1>1. P[m] \o <<x>> \in Seq(FunctorType)
  OBVIOUS
<1> QED
  BY <1>1 DEF Queued

\* A queued functor, and a called one, concern only their connection.
LEMMA QuietQueued ==
    ASSUME TypeOK, \A l \in Loops : LoopPhase(l),
           NEW m \in Loops, NEW x \in FunctorType,
           pending' = Queued(pending, m, <<x>>), UNCHANGED <<functors, pos>>,
           NEW d, x.c # d \/ x.op \notin LifeOps
    PROVE  \A l \in Loops : Quiet(d, Waits[l], Waits'[l])
<1> TAKE l \in Loops
<1>1. Waits'[l] = IF l = m THEN Append(Waits[l], x) ELSE Waits[l]
  BY WaitsPush
<1>2. Waits[l] \in Seq(FunctorType)
  BY WaitsType
<1>3. Quiet(d, Waits[l], Append(Waits[l], x)) /\ Quiet(d, Waits[l], Waits[l])
  BY <1>2, QuietPush, QuietSame
<1> QED
  BY <1>1, <1>3, Zenon

\* A call of a functor of another connection, which may queue one more.
LEMMA QuietCalled ==
    ASSUME TypeOK, \A l \in Loops : LoopPhase(l), NEW l \in Loops, NEW op, Calling(l, op),
           NEW d, Current(l).c # d \/ op \notin LifeOps,
           \/ pending' = pending
           \/ \E m \in Loops, x \in FunctorType : /\ pending' = Queued(pending, m, <<x>>)
                                                  /\ x.c # d \/ x.op \notin LifeOps
    PROVE  \A k \in Loops : Quiet(d, Waits[k], Waits'[k])
<1> TAKE k \in Loops
<1> DEFINE w == IF k = l THEN Tail(Waits[k]) ELSE Waits[k]
<1>1. Waits[k] \in Seq(FunctorType)
  BY WaitsType
<1>2. w \in Seq(FunctorType) /\ Quiet(d, Waits[k], w)
  <2>1. CASE k = l
    <3>1. /\ Waits[l] # <<>> /\ Head(Waits[l]) = Current(l)
          /\ Current(l) = Functor(op, Current(l).c)
      BY WaitsPop
    <3>2. Current(l).op = op
      BY <3>1, FunctorsDiffer
    <3>3. Head(Waits[k]).c # d \/ Head(Waits[k]).op \notin LifeOps
      BY <2>1, <3>1, <3>2, Zenon
    <3>4. Quiet(d, Waits[k], Tail(Waits[k]))
      BY <1>1, <2>1, <3>1, <3>3, QuietPop
    <3> QED
      BY <1>1, <2>1, <3>1, <3>4
  <2>2. CASE k # l
    BY <1>1, <2>2, QuietSame
  <2> QED
    BY <2>1, <2>2
<1>3. CASE pending' = pending
  BY <1>2, <1>3, WaitsPop
<1>4. ASSUME NEW m \in Loops, NEW x \in FunctorType, pending' = Queued(pending, m, <<x>>),
             x.c # d \/ x.op \notin LifeOps
      PROVE  Quiet(d, Waits[k], Waits'[k])
  <2>1. Waits'[k] = IF k = m THEN Append(w, x) ELSE w
    BY <1>4, WaitsPop
  <2> HIDE DEF w
  <2>2. Quiet(d, w, Append(w, x))
    BY <1>2, <1>4, QuietPush
  <2>3. Quiet(d, Waits[k], Append(w, x))
    BY <1>2, <2>2, QuietTrans
  <2> QED
    BY <1>2, <2>1, <2>3, Zenon
<1> QED
  BY <1>3, <1>4

\* What calling a functor leaves as it is.
LEMMA CallingFrame ==
    ASSUME ServerInv, NEW l \in Loops, NEW op, Calling(l, op),
           conn' \in [Conns -> ConnectionType], connections_' \subseteq connections_,
           pending' \in [Loops -> Seq(FunctorType)], faults' = {}
    PROVE  /\ TypeOK' /\ ChannelOK(acceptChannel_)' /\ ServerPhase' /\ \A m \in Loops : LoopPhase(m)'
           /\ UNCHANGED <<server, socket, ioloop, active, revents, guard, functors, lpc>>
           /\ lpc[l] = "functors" /\ active[l] = <<>>
<1>1. /\ TypeOK /\ ServerPhase /\ ChannelOK(acceptChannel_) /\ faults = {}
      /\ \A m \in Loops : LoopPhase(m)
  BY Zenon DEF ServerInv
<1>2. /\ UNCHANGED <<server, acceptChannel_, numThread_, loops_, next_, socket, ioloop, active,
                     revents, guard, functors, lpc, quit>>
      /\ lpc[l] = "functors" /\ pos[l] < Len(functors[l])
      /\ pos' = [pos EXCEPT ![l] = pos[l] + 1]
  BY Zenon DEF Calling, serverVars
<1>3. pos \in [Loops -> Nat] /\ functors \in [Loops -> Seq(FunctorType)] /\ connections_ \subseteq Conns
  BY <1>1, Types
<1>4. TypeOK'
  <2>1. pos' \in [Loops -> Nat] /\ connections_' \subseteq Conns
    BY <1>2, <1>3
  <2>2. faults' \subseteq {"n==1", "dangling"}
    OBVIOUS
  <2> QED
    BY <1>1, <1>2, <2>1, <2>2, Zenon DEF TypeOK, Loops
<1>5. ServerPhase'
  <2>1. connections_ = {} => connections_' = {}
    OBVIOUS
  <2> QED
    BY <1>1, <1>2, <2>1, Zenon DEF ServerPhase, Loops
<1>6. ASSUME NEW m \in Loops PROVE LoopPhase(m)'
  <2>1. LoopPhase(m)
    BY <1>1
  <2>2. CASE m = l
    <3>1. pos'[m] <= Len(functors[m]) /\ lpc[m] = "functors"
      BY <1>2, <1>3, <2>2
    <3> QED
      BY <1>2, <2>1, <3>1, Zenon DEF LoopPhase
  <2>3. CASE m # l
    <3>1. pos'[m] = pos[m]
      BY <1>2, <1>3, <2>3
    <3> QED
      BY <1>2, <2>1, <3>1, Zenon DEF LoopPhase
  <2> QED
    BY <2>2, <2>3
<1>7. active[l] = <<>>
  BY <1>1, <1>2 DEF LoopPhase
<1> QED
  BY <1>1, <1>2, <1>4, <1>5, <1>6, <1>7, Zenon

\* A connection whose loop calls functors is not active.
LEMMA NotActive ==
    ASSUME NEW c \in Conns, Active(c), active[ioloop[c]] = <<>>
    PROVE  \A m \in Loops : c \notin Range(active[m])
<1> SUFFICES ASSUME NEW m \in Loops, c \in Range(active[m]) PROVE FALSE
  BY Zenon
<1>1. ioloop[c] = m
  BY Zenon DEF Active
<1> QED
  BY <1>1 DEF Range

\* writeCompleteCallback_.
LEMMA RunWriteCompleteStep ==
    ASSUME ServerInv, NEW l \in Loops, RunWriteComplete(l)
    PROVE  ServerInv'
<1>1. TypeOK /\ faults = {} /\ \A m \in Loops : LoopPhase(m)
  BY Zenon DEF ServerInv
<1>2. PICK c : c = Current(l).c
  OBVIOUS
<1>3. Calling(l, "complete") /\ c \in Conns
  BY <1>1, <1>2, WaitsPop DEF RunWriteComplete
<1>4. PICK r \in UserCode(conn[c]) : Handled(l, c, r)
  BY <1>2 DEF RunWriteComplete
<1>5. Life(c) /\ Active(c)
  BY <1>3 DEF ServerInv
<1>6. ConnOK(r.k) /\ Keeps(conn[c], r.k) /\ r.call \in {"none", "complete"}
  BY <1>4, <1>5, UserCodeOK DEF Life
<1> DEFINE x == Functor("complete", c)
<1>7. /\ conn' = [conn EXCEPT ![c] = r.k] /\ UNCHANGED <<connections_, faults>>
      /\ pending' = pending \/ pending' = Queued(pending, l, <<x>>)
  BY <1>4, <1>6 DEF Handled
<1>8. /\ x \in FunctorType /\ x.op = "complete" /\ x.op \notin LifeOps
  BY <1>3 DEF Functor, FunctorType, OwningOps, LifeOps
<1> HIDE DEF x
<1>9. conn \in [Conns -> ConnectionType] /\ pending \in [Loops -> Seq(FunctorType)] /\ ioloop[c] \in Loops
  BY <1>1, <1>3, Types
<1>10. conn' \in [Conns -> ConnectionType] /\ pending' \in [Loops -> Seq(FunctorType)]
  <2>1. conn' \in [Conns -> ConnectionType]
    BY <1>6, <1>7, <1>9 DEF ConnOK
  <2>2. Queued(pending, l, <<x>>) \in [Loops -> Seq(FunctorType)]
    BY <1>8, <1>9, QueuedType
  <2> QED
    BY <1>7, <1>9, <2>1, <2>2, Zenon
<1>11. /\ TypeOK' /\ ChannelOK(acceptChannel_)' /\ ServerPhase' /\ \A m \in Loops : LoopPhase(m)'
       /\ UNCHANGED <<server, socket, ioloop, active, revents, guard>>
  BY <1>1, <1>3, <1>7, <1>10, CallingFrame
<1>12. \A d : \A m \in Loops : Quiet(d, Waits[m], Waits'[m])
  <2>1. "complete" \notin LifeOps
    BY DEF LifeOps
  <2> QED
    BY <1>1, <1>3, <1>7, <1>8, <2>1, QuietCalled
<1>13. conn'[c] = r.k /\ \A d \in Conns : d # c => conn'[d] = conn[d]
  BY <1>3, <1>7, <1>9
<1>14. Life(c)'
  <2>1. Heard(r.k)
    BY <1>5, <1>6, KeepsHeard DEF Life
  <2> QED
    BY <1>3, <1>5, <1>6, <1>7, <1>9, <1>11, <1>12, <1>13, <2>1, LifeFrame, Zenon
<1>15. Active(c)'
  <2>1. \A m \in Loops : c \in Range(active'[m]) =>
           c \in Range(active[m]) /\ revents'[c] # {} /\ (c \in guard => c \in guard')
    BY <1>5, <1>11, Zenon DEF Active
  <2>2. revents'[c] \subseteq revents[c]
    BY <1>11, Zenon
  <2> QED
    BY <1>3, <1>5, <1>6, <1>7, <1>11, <1>12, <1>13, <2>1, <2>2, ActiveFrame, Zenon
<1>16. ASSUME NEW d \in Conns, d # c PROVE Life(d)' /\ Active(d)'
  <2>1. \A m \in Loops : Range(active'[m]) \subseteq Range(active[m])
    BY <1>11, Zenon
  <2> QED
    BY <1>3, <1>7, <1>11, <1>12, <1>13, <1>16, <2>1, OthersFrame, Zenon
<1> QED
  BY <1>1, <1>7, <1>11, <1>14, <1>15, <1>16, Zenon DEF ServerInv, Loops

\* connectEstablished of a connection that still waits for it.
LEMMA RunEstablishedStep ==
    ASSUME ServerInv, NEW l \in Loops, RunEstablished(l)
    PROVE  ServerInv'
<1>1. TypeOK /\ faults = {} /\ \A m \in Loops : LoopPhase(m)
  BY Zenon DEF ServerInv
<1>2. PICK c : c = Current(l).c
  OBVIOUS
<1> DEFINE e == Functor("established", c)
           g == Functor("destroyed", c)
<1>3. /\ Calling(l, "established") /\ c \in Conns
      /\ Waits[l] # <<>> /\ Head(Waits[l]) = e
  BY <1>1, <1>2, WaitsPop DEF RunEstablished
<1>4. PICK r \in ConnectEstablished(conn[c]) : Handled(l, c, r)
  BY <1>2 DEF RunEstablished
<1>5. Life(c) /\ Active(c)
  BY <1>3 DEF ServerInv
<1> HIDE DEF e, g
<1> DEFINE t == Tail(Waits[l])
<1>6. /\ \A f : In(Waits[l], f) <=> In(t, f) \/ e = f
      /\ \A f : Once(Waits[l], f) => Once(t, f) /\ (e = f => ~In(t, f))
      /\ \A f, h : Before(Waits[l], f, h) => Before(t, f, h)
  <2>1. Waits[l] \in Seq(FunctorType)
    BY <1>1, WaitsType
  <2> QED
    BY <1>3, <2>1, Popped
<1>7. In(Waits[l], e)
  BY <1>6
<1>8. /\ l = ioloop[c] /\ l # Base /\ conn[c].state = kConnecting /\ ~In(t, e)
      /\ conn[c].heard = <<>> /\ ConnOK(conn[c])
  BY <1>5, <1>6, <1>7, Zenon DEF Life, Established, Heard, e
<1>9. ConnOK(r.k) /\ Ready(r.k) /\ r.k.heard = <<"up">> /\ r.call \in {"none", "complete"}
  BY <1>4, <1>8, ConnectEstablishedOK
<1> DEFINE x == Functor("complete", c)
<1>10. /\ conn' = [conn EXCEPT ![c] = r.k] /\ UNCHANGED <<connections_, faults>>
       /\ pending' = pending \/ pending' = Queued(pending, l, <<x>>)
  BY <1>4, <1>9 DEF Handled
<1>11. x \in FunctorType /\ x.op \notin LifeOps /\ x.c = c
  BY <1>3 DEF Functor, FunctorType, OwningOps, LifeOps
<1> HIDE DEF x
<1>12. conn \in [Conns -> ConnectionType] /\ pending \in [Loops -> Seq(FunctorType)] /\ ioloop[c] \in Loops
  BY <1>1, <1>3, Types
<1>13. conn' \in [Conns -> ConnectionType] /\ pending' \in [Loops -> Seq(FunctorType)]
  <2>1. conn' \in [Conns -> ConnectionType]
    BY <1>9, <1>10, <1>12 DEF ConnOK
  <2>2. Queued(pending, l, <<x>>) \in [Loops -> Seq(FunctorType)]
    BY <1>11, <1>12, QueuedType
  <2> QED
    BY <1>10, <1>12, <2>1, <2>2, Zenon
<1>14. /\ TypeOK' /\ ChannelOK(acceptChannel_)' /\ ServerPhase' /\ \A m \in Loops : LoopPhase(m)'
       /\ UNCHANGED <<server, socket, ioloop, active, revents, guard>> /\ active[l] = <<>>
  BY <1>1, <1>3, <1>10, <1>13, CallingFrame
<1>15. conn'[c] = r.k /\ \A d \in Conns : d # c => conn'[d] = conn[d]
  BY <1>3, <1>10, <1>12
<1>16. ASSUME NEW d \in Conns, d # c PROVE Life(d)' /\ Active(d)'
  <2>1. \A m \in Loops : Range(active'[m]) \subseteq Range(active[m])
    BY <1>14, Zenon
  <2>2. \A m \in Loops : Quiet(d, Waits[m], Waits'[m])
    BY <1>1, <1>2, <1>3, <1>10, <1>11, <1>16, QuietCalled
  <2> QED
    BY <1>3, <1>10, <1>14, <1>15, <1>16, <2>1, <2>2, OthersFrame, Zenon
<1>17. /\ Quiet(c, t, Waits'[l])
       /\ \A m \in Loops : m # l => Quiet(c, Waits[m], Waits'[m])
  <2>1. t \in Seq(FunctorType)
    BY <1>1, <1>3, WaitsType
  <2>2. Quiet(c, t, t) /\ Quiet(c, t, Append(t, x))
    BY <1>11, <2>1, QuietSame, QuietPush
  <2>3. Waits'[l] = t \/ Waits'[l] = Append(t, x)
    BY <1>1, <1>3, <1>10, <1>11, WaitsPop
  <2>4. \A m \in Loops : m # l => Waits'[m] = Waits[m]
    BY <1>1, <1>3, <1>10, <1>11, WaitsPop
  <2> QED
    BY <2>2, <2>3, <2>4, QuietSame, Zenon
<1> HIDE DEF t
<1>18. /\ "established" \in LifeOps /\ "remove" \in LifeOps /\ "destroyed" \in LifeOps
       /\ Loops = Loops' /\ e # g /\ e # Functor("remove", c)
  BY FunctorsDiffer DEF LifeOps, Loops, e, g
<1>19. \A m \in Loops :
          /\ ~In(Waits'[m], e) /\ Once(Waits'[m], e) /\ Before(Waits'[m], e, g)
          /\ In(Waits'[m], g) <=> In(Waits[m], g)
          /\ Once(Waits'[m], Functor("remove", c))
          /\ In(Waits'[m], Functor("remove", c)) <=> In(Waits[m], Functor("remove", c))
  <2> TAKE m \in Loops
  <2>1. /\ Once(Waits[m], e) /\ Before(Waits[m], e, g) /\ Once(Waits[m], Functor("remove", c))
        /\ m # l => ~In(Waits[m], e)
    BY <1>5, <1>8, Zenon DEF Life, Established, Removed, Destroyed, e, g
  <2>2. CASE m = l
    BY <1>6, <1>8, <1>17, <1>18, <2>1, <2>2, Zenon DEF Quiet, e, g
  <2>3. CASE m # l
    BY <1>17, <1>18, <2>1, <2>3, Zenon DEF Quiet, e, g
  <2> QED
    BY <2>2, <2>3
<1>20. /\ r.k.state # kConnecting /\ r.k.state # kDisconnected /\ Heard(r.k)
  BY <1>9, StatesDiffer, Zenon DEF Ready, Live, Heard
<1>21. Life(c)'
  <2>1. socket[c] = "accepted"
    BY <1>5, <1>7, <1>18, Zenon DEF Life, NotAccepted, e
  <2>2. NotAccepted(c)' /\ InMap(c)'
    <3>1. conn[c].state # kDisconnected
      BY <1>8, StatesDiffer
    <3> QED
      BY <1>5, <1>10, <1>14, <2>1, <3>1, Zenon DEF Life, NotAccepted, InMap
  <2>3. Established(c)'
    BY <1>18, <1>19, Zenon DEF Established, e
  <2>4. \A m \in Loops : ~In(Waits[m], Functor("remove", c))
    BY <1>5, <1>8, StatesDiffer, Zenon DEF Life, Removed
  <2>5. Removed(c)'
    BY <1>18, <1>19, <2>4, Zenon DEF Removed
  <2>6. Destroyed(c)'
    BY <1>5, <1>14, <1>18, <1>19, Zenon DEF Life, Destroyed, e, g
  <2>7. c \in connections_ \/ In(Waits[l], g)
    BY <1>5, <1>7, Zenon DEF Life, Destroyed, e, g
  <2>8. Watched(c)'
    BY <1>8, <1>10, <1>14, <1>19, <2>7, Zenon DEF Watched, g
  <2>9. Kept(c)'
    BY <1>4, <1>5, <1>9, <1>10, <1>15, <1>18, <1>19, Zenon DEF Life, Kept, Ready, g
  <2> QED
    BY <1>9, <1>15, <1>20, <2>2, <2>3, <2>5, <2>6, <2>8, <2>9, Zenon DEF Life
<1>22. Active(c)'
  <2>1. \A m \in Loops : c \notin Range(active[m])
    BY <1>3, <1>5, <1>8, <1>14, NotActive
  <2> QED
    BY <1>14, <1>18, <2>1, Zenon DEF Active
<1> QED
  BY <1>1, <1>10, <1>14, <1>16, <1>21, <1>22, Zenon DEF ServerInv, Loops

\* connectDestoryed in the loop of the connection.
LEMMA RunDestoryedStep ==
    ASSUME ServerInv, NEW l \in Loops, RunDestoryed(l)
    PROVE  ServerInv'
<1>1. TypeOK /\ faults = {} /\ \A m \in Loops : LoopPhase(m)
  BY Zenon DEF ServerInv
<1>2. PICK c : c = Current(l).c
  OBVIOUS
<1> DEFINE e == Functor("established", c)
           g == Functor("destroyed", c)
<1>3. /\ Calling(l, "destroyed") /\ c \in Conns
      /\ Waits[l] # <<>> /\ Head(Waits[l]) = g
      /\ conn' = [conn EXCEPT ![c] = ConnectDestoryed(conn[c])]
      /\ UNCHANGED <<connections_, pending, faults>>
  BY <1>1, <1>2, WaitsPop DEF RunDestoryed
<1>4. Life(c) /\ Active(c)
  BY <1>3 DEF ServerInv
<1> HIDE DEF e, g
<1> DEFINE t == Tail(Waits[l])
<1>5. /\ \A f : In(Waits[l], f) <=> In(t, f) \/ g = f
      /\ \A f : Once(Waits[l], f) => Once(t, f)
      /\ \A f, h : Before(Waits[l], f, h) => Before(t, f, h) /\ (g = h => ~In(t, f))
  <2>1. Waits[l] \in Seq(FunctorType)
    BY <1>1, WaitsType
  <2> QED
    BY <1>3, <2>1, Popped
<1>6. In(Waits[l], g)
  BY <1>5
<1>7. l = ioloop[c] /\ ConnOK(conn[c]) /\ Heard(conn[c])
  BY <1>4, <1>6, Zenon DEF Life, Destroyed, g
<1>8. PICK k : k = ConnectDestoryed(conn[c])
  OBVIOUS
<1>9. /\ ConnOK(k) /\ k.ch.index = KNew
      /\ \/ conn[c].state = kConnected /\ k.state = kDisconnected /\ k.heard = Append(conn[c].heard, "down")
         \/ conn[c].state # kConnected /\ k.state = conn[c].state /\ k.heard = conn[c].heard
  BY <1>7, <1>8, ConnectDestoryedOK
<1>10. conn \in [Conns -> ConnectionType] /\ pending \in [Loops -> Seq(FunctorType)] /\ ioloop[c] \in Loops
  BY <1>1, <1>3, Types
<1>11. /\ conn' \in [Conns -> ConnectionType] /\ conn'[c] = k
       /\ \A d \in Conns : d # c => conn'[d] = conn[d]
  BY <1>3, <1>8, <1>9, <1>10 DEF ConnOK
<1>12. /\ TypeOK' /\ ChannelOK(acceptChannel_)' /\ ServerPhase' /\ \A m \in Loops : LoopPhase(m)'
       /\ UNCHANGED <<server, socket, ioloop, active, revents, guard>> /\ active[l] = <<>>
  BY <1>1, <1>3, <1>10, <1>11, CallingFrame
<1>13. ASSUME NEW d \in Conns, d # c PROVE Life(d)' /\ Active(d)'
  <2>1. \A m \in Loops : Range(active'[m]) \subseteq Range(active[m])
    BY <1>12, Zenon
  <2>2. \A m \in Loops : Quiet(d, Waits[m], Waits'[m])
    BY <1>1, <1>2, <1>3, <1>13, QuietCalled
  <2> QED
    BY <1>3, <1>11, <1>12, <1>13, <2>1, <2>2, OthersFrame, Zenon
<1>14. Waits'[l] = t /\ \A m \in Loops : m # l => Waits'[m] = Waits[m]
  BY <1>1, <1>3, WaitsPop
<1> HIDE DEF t
<1>15. /\ "established" \in LifeOps /\ "remove" \in LifeOps /\ "destroyed" \in LifeOps
       /\ Loops = Loops' /\ e # g /\ g # Functor("remove", c)
  BY FunctorsDiffer DEF LifeOps, Loops, e, g
<1>16. \A m \in Loops :
          /\ ~In(Waits'[m], e) /\ Once(Waits'[m], e) /\ Before(Waits'[m], e, g)
          /\ In(Waits'[m], g) => In(Waits[m], g)
          /\ Once(Waits'[m], Functor("remove", c))
          /\ In(Waits'[m], Functor("remove", c)) <=> In(Waits[m], Functor("remove", c))
  <2> TAKE m \in Loops
  <2>1. /\ Once(Waits[m], e) /\ Before(Waits[m], e, g) /\ Once(Waits[m], Functor("remove", c))
        /\ m # l => ~In(Waits[m], e)
    BY <1>4, <1>7, Zenon DEF Life, Established, Removed, Destroyed, e, g
  <2>2. CASE m = l
    BY <1>5, <1>14, <1>15, <2>1, <2>2, Zenon
  <2>3. CASE m # l
    BY <1>14, <2>1, <2>3, Zenon
  <2> QED
    BY <2>2, <2>3
<1>17. Heard(k)
  <2>1. CASE conn[c].state = kConnected
    <3>1. conn[c].heard = <<"up">>
      BY <1>7, <2>1, Zenon DEF Heard, Live
    <3>2. k.heard = <<"up", "down">> /\ k.state = kDisconnected
      BY <1>9, <2>1, <3>1, UpThenDown
    <3> QED
      BY <3>2, StatesDiffer, Zenon DEF Heard, Live
  <2>2. CASE conn[c].state # kConnected
    BY <1>7, <1>9, <2>2, Zenon DEF Heard, Live
  <2> QED
    BY <2>1, <2>2
<1>18. /\ k.state = kDisconnected \/ k.state = conn[c].state
       /\ conn[c].state = kDisconnected => k.state = kDisconnected
       /\ conn[c].state = kConnecting => k.state = kConnecting
  BY <1>9, StatesDiffer, Zenon
<1>19. Life(c)'
  <2>1. socket[c] = "accepted"
    BY <1>4, <1>6, <1>15, Zenon DEF Life, NotAccepted, g
  <2>2. NotAccepted(c)' /\ InMap(c)'
    BY <1>3, <1>4, <1>11, <1>12, <1>18, <2>1, Zenon DEF Life, NotAccepted, InMap
  <2>3. Established(c)'
    BY <1>15, <1>16, Zenon DEF Established, e
  <2>4. Removed(c)'
    BY <1>3, <1>4, <1>11, <1>12, <1>15, <1>16, <1>18, Zenon DEF Life, Removed
  <2>5. Destroyed(c)'
    BY <1>4, <1>12, <1>15, <1>16, Zenon DEF Life, Destroyed, e, g
  <2>6. Watched(c)'
    BY <1>9, <1>11, StatesDiffer, Zenon DEF Watched
  <2>7. Kept(c)'
    BY <1>3, <1>4, <1>6, Zenon DEF Life, Kept, g
  <2> QED
    BY <1>9, <1>11, <1>17, <2>2, <2>3, <2>4, <2>5, <2>6, <2>7, Zenon DEF Life
<1>20. Active(c)'
  <2>1. \A m \in Loops : c \notin Range(active[m])
    BY <1>3, <1>4, <1>7, <1>12, NotActive
  <2> QED
    BY <1>12, <1>15, <2>1, Zenon DEF Active
<1> QED
  BY <1>1, <1>3, <1>12, <1>13, <1>19, <1>20, Zenon DEF ServerInv, Loops

\* A functor that does not wait.
LEMMA NotWaiting ==
    ASSUME NEW s, NEW f, ~In(s, f)
    PROVE  Once(s, f) /\ \A g : Before(s, f, g)
BY Zenon DEF In, Once, Before

\* removeConnectionInLoop: the connection is in the map, and it alone is
\* taken out.
LEMMA RunRemoveConnectionStep ==
    ASSUME ServerInv, NEW l \in Loops, RunRemoveConnection(l)
    PROVE  ServerInv'
<1>1. TypeOK /\ ServerPhase /\ faults = {} /\ \A m \in Loops : LoopPhase(m)
  BY Zenon DEF ServerInv
<1>2. PICK c : c = Current(l).c
  OBVIOUS
<1> DEFINE e == Functor("established", c)
           g == Functor("destroyed", c)
           q == Functor("remove", c)
<1>3. /\ Calling(l, "remove") /\ c \in Conns
      /\ Waits[l] # <<>> /\ Head(Waits[l]) = q
      /\ connections_' = connections_ \ {c}
      /\ faults' = IF c \in connections_ THEN faults ELSE faults \cup {"n==1"}
      /\ pending' = Queued(pending, ioloop[c], <<g>>)
      /\ conn' = conn
  BY <1>1, <1>2, WaitsPop DEF RunRemoveConnection, Erase
<1>4. Life(c) /\ Active(c)
  BY <1>3 DEF ServerInv
<1>5. /\ "established" \in LifeOps /\ "remove" \in LifeOps /\ "destroyed" \in LifeOps
      /\ Loops = Loops' /\ e # g /\ e # q /\ g # q
      /\ g \in FunctorType /\ g.c = c /\ q.c = c
  BY <1>3, FunctorsDiffer DEF LifeOps, Loops, Functor, FunctorType, OwningOps
<1> HIDE DEF e, g, q
<1>6. /\ conn \in [Conns -> ConnectionType] /\ pending \in [Loops -> Seq(FunctorType)]
      /\ ioloop[c] \in Loops
  BY <1>1, <1>3, Types
<1> DEFINE w(m) == IF m = l THEN Tail(Waits[m]) ELSE Waits[m]
<1>7. \A m \in Loops : Waits'[m] = IF m = ioloop[c] THEN Append(w(m), g) ELSE w(m)
  BY <1>1, <1>3, <1>5, <1>6, WaitsPop
<1>8. \A m \in Loops : /\ w(m) \in Seq(FunctorType)
                       /\ \A f : In(w(m), f) => In(Waits[m], f)
                       /\ \A f : f # q => (In(Waits[m], f) => In(w(m), f))
                       /\ m = l /\ Once(Waits[m], q) => ~In(w(m), q)
  <2> TAKE m \in Loops
  <2>1. Waits[m] \in Seq(FunctorType)
    BY <1>1, WaitsType
  <2>2. CASE m = l
    BY <1>3, <2>1, <2>2, Popped
  <2>3. CASE m # l
    BY <2>1, <2>3
  <2> QED
    BY <2>2, <2>3
<1>9. In(Waits[l], q)
  <2>1. Waits[l] \in Seq(FunctorType)
    BY <1>1, WaitsType
  <2> QED
    BY <1>3, <2>1, Popped
<1> HIDE DEF w
<1>10. /\ l = Base /\ conn[c].state = kDisconnected /\ Once(Waits[l], q)
       /\ server = "up" => c \in connections_
       /\ \A m \in Loops : m # l => ~In(Waits[m], q)
  BY <1>4, <1>9, Zenon DEF Life, Removed, q
<1>11. server = "up" /\ c \in connections_
  <2>1. lpc[l] = "functors"
    BY <1>3 DEF Calling
  <2> QED
    BY <1>1, <1>10, <2>1 DEF ServerPhase
<1>12. faults' = {}
  BY <1>1, <1>3, <1>11
<1>13. /\ TypeOK' /\ ChannelOK(acceptChannel_)' /\ ServerPhase' /\ \A m \in Loops : LoopPhase(m)'
       /\ UNCHANGED <<server, socket, ioloop, active, revents, guard>>
  <2>1. pending' \in [Loops -> Seq(FunctorType)]
    BY <1>3, <1>5, <1>6, QueuedType
  <2>2. conn' \in [Conns -> ConnectionType] /\ connections_' \subseteq connections_
    BY <1>3, <1>6
  <2> QED
    BY <1>3, <1>12, <2>1, <2>2, CallingFrame
<1>14. ASSUME NEW d \in Conns, d # c PROVE Life(d)' /\ Active(d)'
  <2>1. \A m \in Loops : Range(active'[m]) \subseteq Range(active[m])
    BY <1>13, Zenon
  <2>2. \A m \in Loops : Quiet(d, Waits[m], Waits'[m])
    BY <1>1, <1>2, <1>3, <1>5, <1>6, <1>14, QuietCalled
  <2>3. d \in connections_' <=> d \in connections_
    BY <1>3, <1>14
  <2> QED
    BY <1>3, <1>13, <1>14, <2>1, <2>2, <2>3, OthersFrame, Zenon
<1>15. \A m \in Loops :
          /\ ~In(Waits'[m], e) /\ ~In(Waits'[m], q)
          /\ In(Waits'[m], g) <=> In(Waits[m], g) \/ m = ioloop[c]
  <2> TAKE m \in Loops
  <2>1. ~In(Waits[m], e)
    BY <1>4, <1>10, StatesDiffer, Zenon DEF Life, Established, e
  <2>2. ~In(w(m), q) /\ ~In(w(m), e) /\ (In(w(m), g) <=> In(Waits[m], g))
    BY <1>5, <1>8, <1>10, <2>1, Zenon
  <2>3. CASE m = ioloop[c]
    <3>1. Waits'[m] = Append(w(m), g) /\ w(m) \in Seq(FunctorType)
      BY <1>7, <1>8, <2>3
    <3>2. \A f : In(Append(w(m), g), f) <=> In(w(m), f) \/ g = f
      BY <1>5, <3>1, Pushed
    <3> QED
      BY <1>5, <2>2, <2>3, <3>1, <3>2, Zenon
  <2>4. CASE m # ioloop[c]
    BY <1>7, <2>2, <2>4, Zenon
  <2> QED
    BY <2>3, <2>4
<1>16. Life(c)'
  <2>1. socket[c] = "accepted"
    BY <1>4, <1>9, <1>5, Zenon DEF Life, NotAccepted, q
  <2>2. NotAccepted(c)' /\ InMap(c)'
    BY <1>3, <1>10, <1>13, <2>1, Zenon DEF NotAccepted, InMap
  <2>3. Established(c)' /\ Removed(c)'
    BY <1>5, <1>15, NotWaiting, Zenon DEF Established, Removed, e, q
  <2>4. Destroyed(c)'
    <3>1. \A m \in Loops : In(Waits'[m], g) => m = ioloop'[c]
      BY <1>4, <1>13, <1>15, Zenon DEF Life, Destroyed, g
    <3>2. \A m \in Loops : Before(Waits'[m], e, g)
      BY <1>15, NotWaiting, Zenon
    <3> QED
      BY <1>5, <1>15, <3>1, <3>2, Zenon DEF Destroyed, e, g
  <2>5. Watched(c)'
    BY <1>6, <1>13, <1>15, Zenon DEF Watched, g
  <2>6. Kept(c)'
    BY <1>3 DEF Kept
  <2> QED
    BY <1>3, <1>4, <2>2, <2>3, <2>4, <2>5, <2>6, Zenon DEF Life
<1>17. Active(c)'
  <2>1. ASSUME NEW m \in Loops, c \in Range(active[m])
        PROVE  In(Waits'[m], g)
    <3>1. ioloop[c] = m
      BY <1>4, <2>1, Zenon DEF Active
    <3> QED
      BY <1>15, <3>1
  <2> QED
    BY <1>3, <1>4, <1>5, <1>13, <2>1, Zenon DEF Active, g
<1> QED
  BY <1>12, <1>13, <1>14, <1>16, <1>17, Zenon DEF ServerInv, Loops

\* The destructor lets go of a connection.
LEMMA DestroyConnectionStep ==
    ASSUME ServerInv, NEW c \in Conns, DestroyConnection(c)
    PROVE  ServerInv'
<1> DEFINE e == Functor("established", c)
           g == Functor("destroyed", c)
           q == Functor("remove", c)
<1>1. /\ TypeOK /\ ServerPhase /\ faults = {} /\ ChannelOK(acceptChannel_)
      /\ \A m \in Loops : LoopPhase(m)
  BY Zenon DEF ServerInv
<1>2. /\ server = "closing" /\ c \in connections_ /\ connections_' = connections_ \ {c}
      /\ UNCHANGED <<server, acceptChannel_, numThread_, loops_, next_, socket, ioloop, active,
                     revents, guard, functors, pos, lpc, quit, faults>>
      /\ \/ /\ ioloop[c] = Base /\ pending' = pending
            /\ conn' = [conn EXCEPT ![c] = ConnectDestoryed(conn[c])]
         \/ ioloop[c] # Base /\ pending' = Queued(pending, ioloop[c], <<g>>) /\ conn' = conn
  BY Zenon DEF DestroyConnection, serverVars
<1>3. Life(c) /\ Active(c) /\ ConnOK(conn[c]) /\ Heard(conn[c])
  BY Zenon DEF ServerInv, Life
<1>4. /\ "established" \in LifeOps /\ "remove" \in LifeOps /\ "destroyed" \in LifeOps
      /\ Loops = Loops' /\ e # g /\ e # q /\ g # q
      /\ g \in FunctorType /\ g.c = c
  BY FunctorsDiffer DEF LifeOps, Loops, Functor, FunctorType, OwningOps
<1> HIDE DEF e, g, q
<1>5. /\ conn \in [Conns -> ConnectionType] /\ pending \in [Loops -> Seq(FunctorType)]
      /\ ioloop[c] \in Loops /\ connections_ \subseteq Conns
  BY <1>1, Types
<1>6. lpc[Base] = "exited" /\ active[Base] = <<>> /\ socket[c] = "accepted"
  <2>1. lpc[Base] = "exited"
    BY <1>1, <1>2 DEF ServerPhase
  <2>2. active[Base] = <<>>
    BY <1>1, <2>1, Types DEF LoopPhase
  <2>3. socket[c] = "accepted"
    BY <1>2, <1>3, Zenon DEF Life, NotAccepted
  <2> QED
    BY <2>1, <2>2, <2>3
<1>7. /\ conn' \in [Conns -> ConnectionType] /\ pending' \in [Loops -> Seq(FunctorType)]
      /\ \A d \in Conns : d # c => conn'[d] = conn[d]
  <2>1. ConnectDestoryed(conn[c]) \in ConnectionType
    BY <1>3, ConnectDestoryedOK DEF ConnOK
  <2>2. Queued(pending, ioloop[c], <<g>>) \in [Loops -> Seq(FunctorType)]
    BY <1>4, <1>5, QueuedType
  <2> QED
    BY <1>2, <1>5, <2>1, <2>2
<1>8. TypeOK' /\ ServerPhase' /\ \A m \in Loops : LoopPhase(m)'
  <2>1. connections_' \subseteq Conns
    BY <1>2, <1>5
  <2>2. TypeOK'
    BY <1>1, <1>2, <1>7, <2>1, Zenon DEF TypeOK, Loops
  <2>3. ServerPhase'
    BY <1>2, <1>6 DEF ServerPhase
  <2> QED
    BY <1>1, <1>2, <2>2, <2>3, PhaseFrame
<1>9. ASSUME NEW d \in Conns, d # c PROVE Life(d)' /\ Active(d)'
  <2>1. \A m \in Loops : Range(active'[m]) \subseteq Range(active[m])
    BY <1>2, Zenon
  <2>2. \A m \in Loops : Quiet(d, Waits[m], Waits'[m])
    <3>1. CASE pending' = pending
      BY <1>2, <3>1, WaitsSame, QuietSame
    <3>2. CASE pending' = Queued(pending, ioloop[c], <<g>>)
      BY <1>1, <1>2, <1>4, <1>5, <1>9, <3>2, QuietQueued
    <3> QED
      BY <1>2, <3>1, <3>2
  <2>3. d \in connections_' <=> d \in connections_
    BY <1>2, <1>9
  <2> QED
    BY <1>2, <1>7, <1>9, <2>1, <2>2, <2>3, OthersFrame, Zenon
<1>10. CASE ioloop[c] = Base
  <2>1. PICK k : k = ConnectDestoryed(conn[c])
    OBVIOUS
  <2>2. conn'[c] = k /\ pending' = pending
    BY <1>2, <1>5, <1>10, <2>1
  <2>3. /\ ConnOK(k) /\ k.ch.index = KNew
        /\ \/ conn[c].state = kConnected /\ k.state = kDisconnected /\ k.heard = Append(conn[c].heard, "down")
           \/ conn[c].state # kConnected /\ k.state = conn[c].state /\ k.heard = conn[c].heard
    BY <1>3, <2>1, ConnectDestoryedOK
  <2>4. Heard(k)
    <3>1. CASE conn[c].state = kConnected
      <4>1. conn[c].heard = <<"up">>
        BY <1>3, <3>1, Zenon DEF Heard, Live
      <4>2. k.heard = <<"up", "down">> /\ k.state = kDisconnected
        BY <2>3, <3>1, <4>1, UpThenDown
      <4> QED
        BY <4>2, StatesDiffer, Zenon DEF Heard, Live
    <3>2. CASE conn[c].state # kConnected
      BY <1>3, <2>3, <3>2, Zenon DEF Heard, Live
    <3> QED
      BY <3>1, <3>2
  <2>5. conn[c].state = kDisconnected => k.state = kDisconnected
    BY <2>3, StatesDiffer, Zenon
  <2>6. Waits' = Waits
    BY <1>2, <2>2, WaitsSame
  <2>7. \A m \in Loops : ~In(Waits[m], e)
    BY <1>3, <1>10, Zenon DEF Life, Established, e
  <2>8. Life(c)'
    <3>1. NotAccepted(c)' /\ InMap(c)'
      <4>1. server' # "up"
        BY <1>2
      <4> QED
        BY <1>2, <1>6, <4>1, Zenon DEF NotAccepted, InMap
    <3>2. Established(c)'
      BY <1>4, <2>6, <2>7, NotWaiting, Zenon DEF Established, e
    <3>3. Removed(c)'
      <4>1. server' # "up"
        BY <1>2
      <4> QED
        BY <1>3, <1>4, <2>2, <2>5, <2>6, <4>1, Zenon DEF Life, Removed
    <3>4. Destroyed(c)'
      BY <1>2, <1>3, <1>4, <2>6, <2>7, Zenon DEF Life, Destroyed, e, g
    <3>5. Watched(c)'
      BY <2>2, <2>3, StatesDiffer, Zenon DEF Watched
    <3>6. Kept(c)'
      BY <1>2 DEF Kept
    <3> QED
      BY <2>2, <2>3, <2>4, <3>1, <3>2, <3>3, <3>4, <3>5, <3>6, Zenon DEF Life
  <2>9. Active(c)'
    <3>1. \A m \in Loops : c \notin Range(active[m])
      BY <1>3, <1>6, <1>10, NotActive
    <3> QED
      BY <1>2, <1>4, <3>1, Zenon DEF Active
  <2> QED
    BY <1>1, <1>2, <1>8, <1>9, <2>8, <2>9, Zenon DEF ServerInv, Loops
<1>11. CASE ioloop[c] # Base
  <2>1. pending' = Queued(pending, ioloop[c], <<g>>) /\ conn' = conn
    BY <1>2, <1>11
  <2>2. \A m \in Loops : Waits'[m] = IF m = ioloop[c] THEN Append(Waits[m], g) ELSE Waits[m]
    BY <1>1, <1>2, <1>4, <1>5, <2>1, WaitsPush
  <2>3. \A m \in Loops :
           /\ \A f : In(Waits'[m], f) <=> In(Waits[m], f) \/ (m = ioloop[c] /\ g = f)
           /\ \A f : Once(Waits[m], f) /\ g # f => Once(Waits'[m], f)
           /\ Before(Waits[m], e, g) => Before(Waits'[m], e, g)
    <3> TAKE m \in Loops
    <3>1. Waits[m] \in Seq(FunctorType)
      BY <1>1, WaitsType
    <3>2. CASE m = ioloop[c]
      <4>1. Waits'[m] = Append(Waits[m], g)
        BY <2>2, <3>2
      <4> QED
        BY <1>4, <3>1, <3>2, <4>1, Pushed
    <3>3. CASE m # ioloop[c]
      BY <2>2, <3>3, Zenon
    <3> QED
      BY <3>2, <3>3
  <2>4. Life(c)'
    <3>1. NotAccepted(c)' /\ InMap(c)'
      <4>1. server' # "up"
        BY <1>2
      <4> QED
        BY <1>2, <1>6, <4>1, Zenon DEF NotAccepted, InMap
    <3>2. Established(c)'
      BY <1>2, <1>3, <1>4, <2>1, <2>3, Zenon DEF Life, Established, e
    <3>3. Removed(c)'
      <4>1. server' # "up"
        BY <1>2
      <4> QED
        BY <1>3, <1>4, <2>1, <2>3, <4>1, Zenon DEF Life, Removed, q
    <3>4. Destroyed(c)'
      <4>1. \A m \in Loops : Before(Waits'[m], e, g)
        BY <1>3, <2>3, Zenon DEF Life, Destroyed, e, g
      <4>2. \A m \in Loops : In(Waits'[m], g) => m = ioloop'[c]
        BY <1>2, <1>3, <2>3, Zenon DEF Life, Destroyed, g
      <4>3. \A m \in Loops : In(Waits'[m], e) => In(Waits'[m], g)
        BY <1>3, <1>4, <2>3, Zenon DEF Life, Established, e
      <4> QED
        BY <1>4, <4>1, <4>2, <4>3, Zenon DEF Destroyed, e, g
    <3>5. Watched(c)'
      BY <1>2, <1>5, <2>3, Zenon DEF Watched, g
    <3>6. Kept(c)'
      BY <1>2 DEF Kept
    <3> QED
      BY <1>3, <2>1, <3>1, <3>2, <3>3, <3>4, <3>5, <3>6, Zenon DEF Life
  <2>5. Active(c)'
    <3>1. ASSUME NEW m \in Loops, c \in Range(active[m])
          PROVE  In(Waits'[m], g)
      <4>1. ioloop[c] = m
        BY <1>3, <3>1, Zenon DEF Active
      <4> QED
        BY <2>3, <4>1, Zenon
    <3> QED
      BY <1>2, <1>3, <1>4, <2>1, <3>1, Zenon DEF Active, g
  <2> QED
    BY <1>1, <1>2, <1>8, <1>9, <2>4, <2>5, Zenon DEF ServerInv, Loops
<1> QED
  BY <1>10, <1>11

\* The next loop of the pool is a loop, and next_ stays inside the pool.
LEMMA NextLoopOK ==
    ASSUME TypeOK
    PROVE  /\ NextLoop \in Loops
           /\ NextIndex \in Nat /\ (NextIndex = 0 \/ NextIndex < Len(loops_))
<1>1. loops_ \in Seq(Range(IoLoops)) /\ next_ \in Nat /\ (next_ = 0 \/ next_ < Len(loops_))
  BY DEF TypeOK
<1>2. CASE loops_ = <<>>
  BY <1>1, <1>2 DEF NextLoop, NextIndex, Loops
<1>3. CASE loops_ # <<>>
  <2>1. next_ + 1 \in 1..Len(loops_)
    BY <1>1, <1>3
  <2>2. loops_[next_ + 1] \in Loops
    BY <1>1, <2>1 DEF Loops
  <2> QED
    BY <1>1, <1>3, <2>1, <2>2 DEF NextLoop, NextIndex
<1> QED
  BY <1>2, <1>3

\* The acceptor is called: a new connection gets its loop, or none comes.
LEMMA AcceptStep ==
    ASSUME ServerInv, Accept
    PROVE  ServerInv'
<1>1. /\ TypeOK /\ ServerPhase /\ faults = {} /\ ChannelOK(acceptChannel_)
      /\ \A m \in Loops : LoopPhase(m)
  BY Zenon DEF ServerInv
<1>2. /\ active[Base] # <<>> /\ active' = [active EXCEPT ![Base] = Tail(active[Base])]
      /\ UNCHANGED <<server, acceptChannel_, numThread_, loops_, revents, guard,
                     functors, pos, lpc, quit, faults>>
  BY Zenon DEF Accept
<1>3. /\ active \in [Loops -> Seq(Conns \cup {Acceptor})] /\ Base \in Loops
      /\ conn \in [Conns -> ConnectionType] /\ pending \in [Loops -> Seq(FunctorType)]
      /\ ioloop \in [Conns -> Loops] /\ connections_ \subseteq Conns
      /\ socket \in [Conns -> {"none", "backlog", "accepted"}]
  BY <1>1, Types DEF TypeOK
<1>4. /\ Tail(active[Base]) \in Seq(Conns \cup {Acceptor})
      /\ Range(Tail(active[Base])) \subseteq Range(active[Base])
      /\ IsInjective(Tail(active[Base]))
  BY <1>1, <1>2, <1>3, TailOfActive DEF LoopPhase
<1>5. /\ active' \in [Loops -> Seq(Conns \cup {Acceptor})]
      /\ \A m \in Loops : Range(active'[m]) \subseteq Range(active[m])
      /\ \A m \in Loops : IsInjective(active'[m]) /\ (active[m] = <<>> => active'[m] = <<>>)
  BY <1>1, <1>2, <1>3, <1>4 DEF LoopPhase
<1>6. lpc[Base] = "dispatch" /\ server = "up"
  BY <1>1, <1>2, <1>3 DEF LoopPhase, ServerPhase
<1>7. ServerPhase'
  BY <1>2, <1>6 DEF ServerPhase
<1>8. ASSUME NEW m \in Loops PROVE LoopPhase(m)'
  <2>1. LoopPhase(m)
    BY <1>1
  <2> QED
    BY <1>2, <1>5, <2>1, Zenon DEF LoopPhase
<1>9. CASE UNCHANGED <<connVars, next_, pending>>
  <2>1. UNCHANGED <<socket, connections_, ioloop, conn, next_, pending>>
    BY <1>9 DEF connVars
  <2>2. TypeOK'
    BY <1>1, <1>2, <1>5, <2>1, Zenon DEF TypeOK, Loops
  <2>3. Waits' = Waits
    BY <1>2, <2>1, WaitsSame
  <2>4. ASSUME NEW d \in Conns PROVE Life(d)' /\ Active(d)'
    <3>1. Life(d) /\ Active(d)
      BY DEF ServerInv
    <3>2. Life(d)'
      BY <1>2, <2>1, <2>3, <3>1, Zenon
      DEF Life, NotAccepted, InMap, Established, Removed, Destroyed, Watched, Kept, Loops
    <3>3. \A m \in Loops : d \in Range(active'[m]) => d \in Range(active[m])
      BY <1>5
    <3>4. Active(d)'
      BY <1>2, <2>1, <2>3, <3>1, <3>3, Zenon DEF Active, Loops
    <3> QED
      BY <3>2, <3>4
  <2> QED
    BY <1>1, <1>2, <1>7, <1>8, <2>2, <2>4, Zenon DEF ServerInv, Loops
<1>10. ASSUME NEW c \in Conns, socket[c] = "backlog",
              socket' = [socket EXCEPT ![c] = "accepted"], NewConnectionFrom(c)
       PROVE  ServerInv'
  <2> DEFINE e == Functor("established", c)
             g == Functor("destroyed", c)
             q == Functor("remove", c)
             x == Functor("complete", c)
  <2>1. PICK n : n = NextLoop
    OBVIOUS
  <2>2. n \in Loops /\ NextIndex \in Nat /\ (NextIndex = 0 \/ NextIndex < Len(loops_))
    BY <1>1, <2>1, NextLoopOK
  <2>3. /\ ioloop' = [ioloop EXCEPT ![c] = n] /\ next_' = NextIndex
        /\ connections_' = connections_ \cup {c}
    BY <1>10, <2>1 DEF NewConnectionFrom
  <2>4. Life(c) /\ Active(c) /\ ConnOK(conn[c]) /\ Heard(conn[c])
    BY Zenon DEF ServerInv, Life
  <2>5. /\ conn[c].state = kConnecting /\ conn[c].heard = <<>> /\ c \notin connections_
        /\ \A m \in Loops, op \in LifeOps : ~In(Waits[m], Functor(op, c))
    <3>1. socket[c] # "accepted"
      BY <1>10
    <3> QED
      BY <2>4, <3>1, Zenon DEF Life, NotAccepted, Heard
  <2>6. \A m \in Loops : c \notin Range(active[m])
    <3>1. ~Ready(conn[c]) /\ conn[c].state # kDisconnected
      BY <2>5, StatesDiffer DEF Ready, Live
    <3> QED
      BY <2>4, <3>1, Zenon DEF Active
  <2>7. /\ "established" \in LifeOps /\ "remove" \in LifeOps /\ "destroyed" \in LifeOps
        /\ Loops = Loops' /\ e # g /\ e # q /\ g # q
        /\ e \in FunctorType /\ e.c = c /\ x \in FunctorType /\ x.c = c /\ x.op \notin LifeOps
    BY FunctorsDiffer DEF LifeOps, Loops, Functor, FunctorType, OwningOps
  <2>8. /\ \A m \in Loops : ~In(Waits[m], e) /\ ~In(Waits[m], g) /\ ~In(Waits[m], q)
    BY <2>5, <2>7
  <2>9. /\ socket'[c] = "accepted" /\ socket' \in [Conns -> {"none", "backlog", "accepted"}]
        /\ ioloop'[c] = n /\ ioloop' \in [Conns -> Loops] /\ c \in connections_'
        /\ connections_' \subseteq Conns
        /\ \A d \in Conns : d # c => /\ socket'[d] = socket[d] /\ ioloop'[d] = ioloop[d]
                                     /\ d \in connections_' <=> d \in connections_
    BY <1>3, <1>10, <2>2, <2>3
  <2>10. \/ /\ n = Base
            /\ \E r \in ConnectEstablished(conn[c]) :
                  /\ conn' = [conn EXCEPT ![c] = r.k]
                  /\ pending' = pending \/ pending' = Queued(pending, Base, <<x>>)
         \/ n # Base /\ conn' = conn /\ pending' = Queued(pending, n, <<e>>)
    <3>1. CASE n = Base
      BY <1>10, <2>1, <3>1 DEF NewConnectionFrom
    <3>2. CASE n # Base
      BY <1>10, <2>1, <3>2 DEF NewConnectionFrom
    <3> QED
      BY <3>1, <3>2
  <2> HIDE DEF e, g, q, x
  <2>11. ASSUME conn' \in [Conns -> ConnectionType], \A d \in Conns : d # c => conn'[d] = conn[d],
                pending' = pending \/ \E m \in Loops, f \in FunctorType :
                                         f.c = c /\ pending' = Queued(pending, m, <<f>>),
                Life(c)'
         PROVE  ServerInv'
    <3>1. pending' \in [Loops -> Seq(FunctorType)]
      <4>1. CASE pending' = pending
        BY <1>3, <4>1
      <4>2. ASSUME NEW m \in Loops, NEW f \in FunctorType, pending' = Queued(pending, m, <<f>>)
            PROVE  pending' \in [Loops -> Seq(FunctorType)]
        BY <1>3, <4>2, QueuedType
      <4> QED
        BY <2>11, <4>1, <4>2
    <3>2. TypeOK'
      <4>1. next_' \in Nat /\ (next_' = 0 \/ next_' < Len(loops_'))
        BY <1>2, <2>2, <2>3
      <4> QED
        BY <1>1, <1>2, <1>5, <2>9, <2>11, <3>1, <4>1, Zenon DEF TypeOK, Loops
    <3>3. Active(c)'
      <4>1. \A m \in Loops : c \notin Range(active'[m])
        BY <1>5, <2>6
      <4> QED
        BY <2>7, <4>1, Zenon DEF Active
    <3>4. ASSUME NEW d \in Conns, d # c PROVE Life(d)' /\ Active(d)'
      <4>1. \A m \in Loops : Quiet(d, Waits[m], Waits'[m])
        <5>1. CASE pending' = pending
          BY <1>2, <5>1, WaitsSame, QuietSame
        <5>2. ASSUME NEW m \in Loops, NEW f \in FunctorType, f.c = c,
                     pending' = Queued(pending, m, <<f>>)
              PROVE  \A i \in Loops : Quiet(d, Waits[i], Waits'[i])
          BY <1>1, <1>2, <3>4, <5>2, QuietQueued
        <5> QED
          BY <2>11, <5>1, <5>2
      <4> QED
        BY <1>2, <1>5, <2>9, <2>11, <3>4, <4>1, OthersFrame, Zenon
    <3> QED
      BY <1>1, <1>2, <1>7, <1>8, <2>11, <3>2, <3>3, <3>4, Zenon DEF ServerInv, Loops
  <2>12. CASE n = Base
    <3>1. PICK r \in ConnectEstablished(conn[c]) :
             /\ conn' = [conn EXCEPT ![c] = r.k]
             /\ pending' = pending \/ pending' = Queued(pending, Base, <<x>>)
      BY <2>10, <2>12
    <3>2. ConnOK(r.k) /\ Ready(r.k) /\ r.k.heard = <<"up">>
      BY <2>4, <2>5, ConnectEstablishedOK
    <3>3. /\ conn' \in [Conns -> ConnectionType] /\ conn'[c] = r.k
          /\ \A d \in Conns : d # c => conn'[d] = conn[d]
      BY <1>3, <3>1, <3>2 DEF ConnOK
    <3>4. \A m \in Loops : Quiet(c, Waits[m], Waits'[m])
      <4>1. CASE pending' = pending
        BY <1>2, <4>1, WaitsSame, QuietSame
      <4>2. CASE pending' = Queued(pending, Base, <<x>>)
        BY <1>1, <1>2, <1>3, <2>7, <4>2, QuietQueued
      <4> QED
        BY <3>1, <4>1, <4>2
    <3>5. \A m \in Loops : ~In(Waits'[m], e) /\ ~In(Waits'[m], g) /\ ~In(Waits'[m], q)
      BY <2>7, <2>8, <3>4, Zenon DEF Quiet, e, g, q
    <3>6. Heard(r.k)
      BY <3>2, StatesDiffer, Zenon DEF Heard, Ready, Live
    <3>7. Life(c)'
      <4>1. NotAccepted(c)' /\ InMap(c)' /\ Watched(c)'
        BY <2>9, Zenon DEF NotAccepted, InMap, Watched
      <4>2. Established(c)' /\ Removed(c)' /\ Destroyed(c)'
        BY <2>7, <3>5, NotWaiting, Zenon DEF Established, Removed, Destroyed, e, g, q
      <4>3. Kept(c)'
        BY <2>7, <3>2, <3>3, <3>5, Zenon DEF Kept, Ready, g
      <4> QED
        BY <3>2, <3>3, <3>6, <4>1, <4>2, <4>3, Zenon DEF Life
    <3> QED
      BY <1>3, <2>7, <2>11, <3>1, <3>3, <3>7
  <2>13. CASE n # Base
    <3>1. conn' = conn /\ pending' = Queued(pending, n, <<e>>)
      BY <2>10, <2>13
    <3>2. \A m \in Loops : Waits'[m] = IF m = n THEN Append(Waits[m], e) ELSE Waits[m]
      BY <1>1, <1>2, <2>2, <2>7, <3>1, WaitsPush
    <3>3. \A m \in Loops :
             /\ ~In(Waits'[m], g) /\ ~In(Waits'[m], q)
             /\ In(Waits'[m], e) => m = n
             /\ Once(Waits'[m], e) /\ Before(Waits'[m], e, g)
      <4> TAKE m \in Loops
      <4>1. Waits[m] \in Seq(FunctorType)
        BY <1>1, WaitsType
      <4>2. Once(Waits[m], e) /\ Before(Waits[m], e, g)
        BY <2>8, NotWaiting, Zenon
      <4>3. CASE m = n
        <5>1. Waits'[m] = Append(Waits[m], e)
          BY <3>2, <4>3
        <5> QED
          BY <2>7, <2>8, <4>1, <4>2, <4>3, <5>1, Pushed
      <4>4. CASE m # n
        BY <2>8, <3>2, <4>2, <4>4, Zenon
      <4> QED
        BY <4>3, <4>4
    <3>4. Life(c)'
      <4>1. NotAccepted(c)' /\ InMap(c)' /\ Watched(c)'
        BY <2>9, Zenon DEF NotAccepted, InMap, Watched
      <4>2. Established(c)'
        BY <2>5, <2>7, <2>9, <2>13, <3>1, <3>3, Zenon DEF Established, e
      <4>3. Removed(c)'
        BY <2>7, <3>3, NotWaiting, Zenon DEF Removed, q
      <4>4. Destroyed(c)'
        BY <2>7, <2>9, <3>3, Zenon DEF Destroyed, e, g
      <4>5. Kept(c)'
        <5>1. ~Live(conn[c])
          BY <2>5, StatesDiffer DEF Live
        <5> QED
          BY <2>7, <3>1, <3>3, <5>1, Zenon DEF Kept, g
      <4> QED
        BY <2>4, <3>1, <4>1, <4>2, <4>3, <4>4, <4>5, Zenon DEF Life
    <3> QED
      BY <1>3, <2>2, <2>7, <2>11, <3>1, <3>4
  <2> QED
    BY <2>12, <2>13
<1> QED
  BY <1>9, <1>10 DEF Accept

\* The next callback of a channel: what is left for it of revents_.
LEMMA FirstEventOK ==
    ASSUME NEW E \in SUBSET {"HUP", "ERR", "IN", "OUT"}, E # {}
    PROVE  /\ FirstEvent(E) \in E
           /\ FirstEvent(E) \in {"ERR", "IN", "OUT"} => "HUP" \notin E
BY DEF FirstEvent

\* The callback of a channel: the connection stays as it is, or it is closed,
\* after which neither EPOLLHUP nor EPOLLIN is left.
LEMMA CallbackOK ==
    ASSUME NEW k, ConnOK(k), Heard(k),
           NEW E \in SUBSET {"HUP", "ERR", "IN", "OUT"}, E # {}, ~({"HUP", "IN"} \subseteq E),
           Ready(k) \/ (k.state = kDisconnected /\ "HUP" \notin E /\ "IN" \notin E),
           NEW v, v = FirstEvent(E),
           NEW r \in CASE v = "HUP" -> {HandleClose(k)}
                       [] v = "ERR" -> {Result(HandleError(k), "none")}
                       [] v = "IN"  -> HandleRead(k)
                       [] v = "OUT" -> HandleWrite(k)
    PROVE  /\ ConnOK(r.k) /\ Heard(r.k)
           /\ \/ Keeps(k, r.k) /\ r.call \in {"none", "complete"}
              \/ /\ r.call = "close" /\ Ready(k) /\ r.k.state = kDisconnected
                 /\ "HUP" \notin E \ {v} /\ "IN" \notin E \ {v}
<1>1. v \in E /\ (v \in {"ERR", "IN", "OUT"} => "HUP" \notin E)
  BY FirstEventOK
<1>2. Ready(k) => k.heard = <<"up">>
  BY Zenon DEF Heard, Ready
<1>3. \A m : m.state = kDisconnected /\ m.heard = <<"up", "down">> => Heard(m)
  BY StatesDiffer DEF Heard, Live
<1>4. CASE v = "HUP"
  <2>1. Ready(k) /\ "IN" \notin E
    BY <1>1, <1>4
  <2>2. r = HandleClose(k)
    BY <1>4
  <2>3. /\ ConnOK(r.k) /\ r.k.state = kDisconnected /\ r.call = "close"
        /\ r.k.heard = Append(k.heard, "down")
    BY <2>1, <2>2, HandleCloseOK
  <2>4. r.k.heard = <<"up", "down">>
    BY <1>2, <2>1, <2>3, UpThenDown
  <2>5. Heard(r.k)
    BY <1>3, <2>3, <2>4, Zenon
  <2> QED
    BY <1>4, <2>1, <2>3, <2>5
<1>5. CASE v = "ERR"
  <2>1. r = Result(HandleError(k), "none")
    BY <1>5
  <2>2. r.k = HandleError(k) /\ r.call = "none"
    BY <2>1 DEF Result
  <2>3. ConnOK(r.k) /\ Keeps(k, r.k)
    BY <2>2, HandleErrorOK
  <2> QED
    BY <2>2, <2>3, KeepsHeard
<1>6. CASE v = "IN"
  <2>1. Ready(k) /\ "HUP" \notin E
    BY <1>1, <1>6
  <2>2. r \in HandleRead(k)
    BY <1>6
  <2>3. /\ ConnOK(r.k)
        /\ \/ Keeps(k, r.k) /\ r.call \in {"none", "complete"}
           \/ r.call = "close" /\ r.k.state = kDisconnected /\ r.k.heard = <<"up", "down">>
    BY <1>2, <2>1, <2>2, HandleReadOK
  <2>4. Heard(r.k)
    BY <1>3, <2>3, KeepsHeard
  <2> QED
    BY <1>6, <2>1, <2>3, <2>4
<1>7. CASE v = "OUT"
  <2>1. r \in HandleWrite(k)
    BY <1>7
  <2>2. ConnOK(r.k) /\ Keeps(k, r.k) /\ r.call \in {"none", "complete"}
    BY <2>1, HandleWriteOK
  <2> QED
    BY <2>2, KeepsHeard
<1> QED
  BY <1>1, <1>4, <1>5, <1>6, <1>7

\* One callback of an active channel, its close included.
LEMMA HandleEventStep ==
    ASSUME ServerInv, NEW l \in Loops, HandleEvent(l)
    PROVE  ServerInv'
<1>1. /\ TypeOK /\ ServerPhase /\ faults = {} /\ ChannelOK(acceptChannel_)
      /\ \A m \in Loops : LoopPhase(m)
  BY Zenon DEF ServerInv
<1>2. PICK c : c = Head(active[l])
  OBVIOUS
<1>3. PICK v : v = FirstEvent(revents[c])
  OBVIOUS
<1>4. /\ active[l] # <<>> /\ c # Acceptor
      /\ \E r \in CASE v = "HUP" -> {HandleClose(conn[c])}
                    [] v = "ERR" -> {Result(HandleError(conn[c]), "none")}
                    [] v = "IN"  -> HandleRead(conn[c])
                    [] v = "OUT" -> HandleWrite(conn[c]) : Handled(l, c, r)
      /\ revents' = [revents EXCEPT ![c] = revents[c] \ {v}]
      /\ \/ /\ revents[c] = {v}
            /\ active' = [active EXCEPT ![l] = Tail(active[l])] /\ guard' = guard \ {c}
         \/ revents[c] # {v} /\ guard' = guard \cup {c} /\ active' = active
      /\ UNCHANGED <<server, acceptChannel_, numThread_, loops_, next_, socket, ioloop,
                     functors, pos, lpc, quit>>
  BY <1>2, <1>3, Zenon DEF HandleEvent, serverVars
<1>5. /\ active \in [Loops -> Seq(Conns \cup {Acceptor})] /\ Base \in Loops
      /\ conn \in [Conns -> ConnectionType] /\ pending \in [Loops -> Seq(FunctorType)]
      /\ ioloop \in [Conns -> Loops] /\ connections_ \subseteq Conns /\ guard \subseteq Conns
      /\ revents \in [Conns -> SUBSET {"HUP", "ERR", "IN", "OUT"}]
  BY <1>1, Types
<1>6. /\ Tail(active[l]) \in Seq(Conns \cup {Acceptor}) /\ c \in Conns /\ c \in Range(active[l])
      /\ Range(Tail(active[l])) \subseteq Range(active[l]) /\ c \notin Range(Tail(active[l]))
      /\ IsInjective(Tail(active[l]))
  <2>1. IsInjective(active[l]) /\ active[l] \in Seq(Conns \cup {Acceptor})
    BY <1>1, <1>5 DEF LoopPhase
  <2> QED
    BY <1>2, <1>4, <2>1, TailOfActive
<1>7. Life(c) /\ Active(c) /\ ConnOK(conn[c]) /\ Heard(conn[c])
  BY <1>6, Zenon DEF ServerInv, Life
<1>8. /\ ioloop[c] = l /\ revents[c] # {} /\ ~({"HUP", "IN"} \subseteq revents[c])
      /\ \/ Ready(conn[c])
         \/ conn[c].state = kDisconnected /\ "HUP" \notin revents[c] /\ "IN" \notin revents[c]
  BY <1>6, <1>7, Zenon DEF Active
<1>9. revents[c] \in SUBSET {"HUP", "ERR", "IN", "OUT"} /\ v \in revents[c]
  BY <1>3, <1>5, <1>6, <1>8, FirstEventOK
<1>10. PICK r \in CASE v = "HUP" -> {HandleClose(conn[c])}
                    [] v = "ERR" -> {Result(HandleError(conn[c]), "none")}
                    [] v = "IN"  -> HandleRead(conn[c])
                    [] v = "OUT" -> HandleWrite(conn[c]) : Handled(l, c, r)
  BY <1>4, Zenon
<1>11. /\ ConnOK(r.k) /\ Heard(r.k)
       /\ \/ Keeps(conn[c], r.k) /\ r.call \in {"none", "complete"}
          \/ /\ r.call = "close" /\ Ready(conn[c]) /\ r.k.state = kDisconnected
             /\ "HUP" \notin revents[c] \ {v} /\ "IN" \notin revents[c] \ {v}
  BY <1>3, <1>7, <1>8, <1>9, CallbackOK
<1>12. /\ revents'[c] = revents[c] \ {v} /\ revents' \in [Conns -> SUBSET {"HUP", "ERR", "IN", "OUT"}]
       /\ \A d \in Conns : d # c => revents'[d] = revents[d]
  BY <1>4, <1>5, <1>6, <1>9
<1>13. /\ active' \in [Loops -> Seq(Conns \cup {Acceptor})]
       /\ \A m \in Loops : Range(active'[m]) \subseteq Range(active[m])
       /\ \A m \in Loops : IsInjective(active'[m]) /\ (active[m] = <<>> => active'[m] = <<>>)
  <2>1. CASE active' = [active EXCEPT ![l] = Tail(active[l])]
    BY <1>1, <1>4, <1>5, <1>6, <2>1 DEF LoopPhase
  <2>2. CASE active' = active
    BY <1>1, <1>5, <2>2 DEF LoopPhase
  <2> QED
    BY <1>4, <2>1, <2>2
<1>14. \A m \in Loops : c \in Range(active'[m]) =>
          c \in Range(active[m]) /\ m = l /\ revents'[c] # {} /\ c \in guard'
  <2> SUFFICES ASSUME NEW m \in Loops, c \in Range(active'[m])
               PROVE  m = l /\ revents'[c] # {} /\ c \in guard'
    BY <1>13
  <2>1. m = l
    <3>1. c \in Range(active[m])
      BY <1>13
    <3> QED
      BY <1>7, <1>8, <3>1, Zenon DEF Active
  <2>2. revents[c] # {v}
    <3>1. CASE revents[c] = {v}
      <4>1. active'[l] = Tail(active[l])
        BY <1>4, <1>5, <3>1
      <4> QED
        BY <1>6, <2>1, <4>1
    <3> QED
      BY <3>1
  <2> QED
    BY <1>4, <1>9, <1>12, <2>1, <2>2
<1>15. guard' \subseteq Conns /\ \A d \in Conns : d # c => (d \in guard' <=> d \in guard)
  BY <1>4, <1>5, <1>6
<1>16. lpc[l] = "dispatch"
  BY <1>1, <1>4 DEF LoopPhase
<1>17. ASSUME NEW m \in Loops PROVE LoopPhase(m)'
  <2>1. LoopPhase(m)
    BY <1>1
  <2> QED
    BY <1>4, <1>13, <2>1, Zenon DEF LoopPhase
<1>18. ASSUME conn' \in [Conns -> ConnectionType], \A d \in Conns : d # c => conn'[d] = conn[d],
              connections_' = connections_ \/ connections_' = connections_ \ {c}, faults' = {},
              pending' = pending \/ \E m \in Loops, f \in FunctorType :
                                       f.c = c /\ pending' = Queued(pending, m, <<f>>),
              Life(c)', Active(c)'
       PROVE  ServerInv'
  <2>1. pending' \in [Loops -> Seq(FunctorType)]
    <3>1. CASE pending' = pending
      BY <1>5, <3>1
    <3>2. ASSUME NEW m \in Loops, NEW f \in FunctorType, pending' = Queued(pending, m, <<f>>)
          PROVE  pending' \in [Loops -> Seq(FunctorType)]
      BY <1>5, <3>2, QueuedType
    <3> QED
      BY <1>18, <3>1, <3>2
  <2>2. /\ connections_' \subseteq Conns /\ (connections_ = {} => connections_' = {})
        /\ \A d \in Conns : d # c => (d \in connections_' <=> d \in connections_)
    BY <1>5, <1>18
  <2>3. TypeOK'
    BY <1>1, <1>4, <1>12, <1>13, <1>15, <1>18, <2>1, <2>2, Zenon DEF TypeOK, Loops
  <2>4. ServerPhase'
    BY <1>1, <1>4, <2>2, Zenon DEF ServerPhase, Loops
  <2>5. ASSUME NEW d \in Conns, d # c PROVE Life(d)' /\ Active(d)'
    <3>1. \A m \in Loops : Quiet(d, Waits[m], Waits'[m])
      <4>1. CASE pending' = pending
        BY <1>4, <4>1, WaitsSame, QuietSame
      <4>2. ASSUME NEW m \in Loops, NEW f \in FunctorType, f.c = c,
                   pending' = Queued(pending, m, <<f>>)
            PROVE  \A i \in Loops : Quiet(d, Waits[i], Waits'[i])
        BY <1>1, <1>4, <2>5, <4>2, QuietQueued
      <4> QED
        BY <1>18, <4>1, <4>2
    <3> QED
      BY <1>4, <1>6, <1>12, <1>13, <1>15, <1>18, <2>2, <2>5, <3>1, OthersFrame, Zenon
  <2> QED
    BY <1>1, <1>4, <1>17, <1>18, <2>3, <2>4, <2>5, Zenon DEF ServerInv, Loops
<1> DEFINE e == Functor("established", c)
           g == Functor("destroyed", c)
           q == Functor("remove", c)
           x == Functor("complete", c)
<1>19. /\ "established" \in LifeOps /\ "remove" \in LifeOps /\ "destroyed" \in LifeOps
       /\ Loops = Loops' /\ e # g /\ e # q /\ g # q
       /\ q \in FunctorType /\ q.c = c /\ x \in FunctorType /\ x.c = c /\ x.op \notin LifeOps
  BY <1>6, FunctorsDiffer DEF LifeOps, Loops, Functor, FunctorType, OwningOps
<1>20. CASE Keeps(conn[c], r.k) /\ r.call \in {"none", "complete"}
  <2>1. /\ conn' = [conn EXCEPT ![c] = r.k] /\ UNCHANGED <<connections_, faults>>
        /\ pending' = pending \/ pending' = Queued(pending, l, <<x>>)
    BY <1>10, <1>20 DEF Handled
  <2> HIDE DEF e, g, q, x
  <2>2. /\ conn' \in [Conns -> ConnectionType] /\ conn'[c] = r.k
        /\ \A d \in Conns : d # c => conn'[d] = conn[d]
    BY <1>5, <1>6, <1>11, <2>1 DEF ConnOK
  <2>3. \A m \in Loops : Quiet(c, Waits[m], Waits'[m])
    <3>1. CASE pending' = pending
      BY <1>4, <3>1, WaitsSame, QuietSame
    <3>2. CASE pending' = Queued(pending, l, <<x>>)
      BY <1>1, <1>4, <1>19, <3>2, QuietQueued
    <3> QED
      BY <2>1, <3>1, <3>2
  <2>4. Life(c)'
    <3>1. ioloop[c] \in Loops
      BY <1>8
    <3> QED
      BY <1>4, <1>6, <1>7, <1>11, <1>20, <2>1, <2>2, <2>3, <3>1, LifeFrame, Zenon
  <2>5. Active(c)'
    <3>1. revents'[c] \subseteq revents[c]
      BY <1>12
    <3> QED
      BY <1>4, <1>6, <1>7, <1>14, <1>20, <2>1, <2>2, <2>3, <3>1, ActiveFrame, Zenon
  <2> QED
    BY <1>1, <1>18, <1>19, <2>1, <2>2, <2>4, <2>5
<1>21. CASE /\ r.call = "close" /\ Ready(conn[c]) /\ r.k.state = kDisconnected
            /\ "HUP" \notin revents[c] \ {v} /\ "IN" \notin revents[c] \ {v}
  <2>1. /\ conn[c].state # kConnecting /\ conn[c].state # kDisconnected
        /\ r.k.state # kConnecting /\ r.k.state # kConnected
    BY <1>21, StatesDiffer DEF Ready, Live
  <2>2. /\ socket[c] = "accepted" /\ socket'[c] = "accepted"
        /\ \A m \in Loops : ~In(Waits[m], e) /\ ~In(Waits[m], q)
    BY <1>4, <1>7, <2>1, Zenon DEF Life, NotAccepted, Established, Removed
  <2>3. server = "up" => c \in connections_
    BY <1>7, <2>1, <2>2, Zenon DEF Life, InMap
  <2>4. \/ /\ l # Base /\ conn' = [conn EXCEPT ![c] = r.k]
           /\ pending' = Queued(pending, Base, <<q>>) /\ UNCHANGED <<connections_, faults>>
        \/ /\ l = Base /\ conn' = [conn EXCEPT ![c] = ConnectDestoryed(r.k)]
           /\ connections_' = connections_ \ {c} /\ pending' = pending
           /\ faults' = IF c \in connections_ THEN faults ELSE faults \cup {"n==1"}
    BY <1>10, <1>21 DEF Handled, Erase
  <2> HIDE DEF e, g, q, x
  <2>5. ASSUME NEW k, ConnOK(k), Heard(k), k.state = kDisconnected, conn' = [conn EXCEPT ![c] = k]
        PROVE  /\ conn' \in [Conns -> ConnectionType] /\ conn'[c] = k
               /\ \A d \in Conns : d # c => conn'[d] = conn[d]
               /\ NotAccepted(c)' /\ InMap(c)' /\ Watched(c)'
    <3>1. /\ conn' \in [Conns -> ConnectionType] /\ conn'[c] = k
          /\ \A d \in Conns : d # c => conn'[d] = conn[d]
      BY <1>5, <1>6, <2>5 DEF ConnOK
    <3>2. k.ch.index # KAdded
      BY <2>5 DEF ConnOK, Listens
    <3>3. NotAccepted(c)' /\ InMap(c)' /\ Watched(c)'
      BY <2>2, <2>5, <3>1, <3>2, Zenon DEF NotAccepted, InMap, Watched
    <3> QED
      BY <3>1, <3>3
  <2>6. ASSUME NEW k, k.state = kDisconnected, conn'[c] = k
        PROVE  Active(c)'
    <3>1. \A m \in Loops : c \in Range(active'[m]) =>
             /\ ioloop'[c] = m /\ revents'[c] # {} /\ ~({"HUP", "IN"} \subseteq revents'[c])
             /\ "HUP" \notin revents'[c] /\ "IN" \notin revents'[c] /\ c \in guard'
      BY <1>4, <1>8, <1>12, <1>14, <1>21
    <3> QED
      BY <1>19, <2>6, <3>1, Zenon DEF Active
  <2>7. CASE l # Base
    <3>1. /\ conn' = [conn EXCEPT ![c] = r.k]
          /\ pending' = Queued(pending, Base, <<q>>) /\ UNCHANGED <<connections_, faults>>
      BY <2>4, <2>7
    <3>2. /\ conn' \in [Conns -> ConnectionType] /\ conn'[c] = r.k
          /\ \A d \in Conns : d # c => conn'[d] = conn[d]
          /\ NotAccepted(c)' /\ InMap(c)' /\ Watched(c)'
      BY <1>11, <1>21, <2>5, <3>1
    <3>3. \A m \in Loops : Waits'[m] = IF m = Base THEN Append(Waits[m], q) ELSE Waits[m]
      BY <1>1, <1>4, <1>5, <1>19, <3>1, WaitsPush
    <3>4. \A m \in Loops :
             /\ ~In(Waits'[m], e) /\ (In(Waits'[m], g) <=> In(Waits[m], g))
             /\ In(Waits'[m], q) => m = Base
             /\ Once(Waits'[m], q)
      <4> TAKE m \in Loops
      <4>1. Waits[m] \in Seq(FunctorType)
        BY <1>1, WaitsType
      <4>2. Once(Waits[m], q)
        BY <2>2, NotWaiting, Zenon
      <4>3. CASE m = Base
        <5>1. Waits'[m] = Append(Waits[m], q)
          BY <3>3, <4>3
        <5> QED
          BY <1>19, <2>2, <4>1, <4>2, <4>3, <5>1, Pushed
      <4>4. CASE m # Base
        BY <2>2, <3>3, <4>2, <4>4, Zenon
      <4> QED
        BY <4>3, <4>4
    <3>5. Life(c)'
      <4>1. Established(c)'
        BY <1>19, <3>4, NotWaiting, Zenon DEF Established, e
      <4>2. Removed(c)'
        BY <1>4, <1>19, <1>21, <2>3, <3>1, <3>2, <3>4, Zenon DEF Removed, q
      <4>3. Destroyed(c)'
        <5>1. \A m \in Loops : Before(Waits'[m], e, g)
          BY <3>4, NotWaiting, Zenon
        <5> QED
          BY <1>4, <1>7, <1>19, <3>4, <5>1, Zenon DEF Life, Destroyed, e, g
      <4>4. Kept(c)'
        <5>1. ~Live(r.k)
          BY <1>21, StatesDiffer DEF Live
        <5> QED
          BY <1>7, <1>19, <3>1, <3>2, <3>4, <5>1, Zenon DEF Life, Kept, g
      <4> QED
        BY <1>11, <3>2, <4>1, <4>2, <4>3, <4>4, Zenon DEF Life
    <3>6. Active(c)'
      BY <1>21, <2>6, <3>2
    <3> QED
      BY <1>1, <1>5, <1>18, <1>19, <3>1, <3>2, <3>5, <3>6
  <2>8. CASE l = Base
    <3>1. /\ conn' = [conn EXCEPT ![c] = ConnectDestoryed(r.k)]
          /\ connections_' = connections_ \ {c} /\ pending' = pending
          /\ faults' = IF c \in connections_ THEN faults ELSE faults \cup {"n==1"}
      BY <2>4, <2>8
    <3>2. faults' = {}
      <4>1. server = "up"
        BY <1>1, <1>16, <2>8 DEF ServerPhase
      <4> QED
        BY <1>1, <2>3, <3>1, <4>1
    <3>3. PICK k : k = ConnectDestoryed(r.k)
      OBVIOUS
    <3>4. ConnOK(k) /\ k.state = kDisconnected /\ k.heard = r.k.heard
      BY <1>11, <1>21, <2>1, <3>3, ConnectDestoryedOK
    <3>5. Heard(k)
      BY <1>11, <1>21, <3>4, StatesDiffer, Zenon DEF Heard, Live
    <3>6. /\ conn' \in [Conns -> ConnectionType] /\ conn'[c] = k
          /\ \A d \in Conns : d # c => conn'[d] = conn[d]
          /\ NotAccepted(c)' /\ InMap(c)' /\ Watched(c)'
      BY <2>5, <3>1, <3>3, <3>4, <3>5
    <3>7. Waits' = Waits
      BY <1>4, <3>1, WaitsSame
    <3>8. Life(c)'
      <4>1. Established(c)' /\ Removed(c)'
        BY <1>19, <2>2, <3>7, NotWaiting, Zenon DEF Established, Removed, e, q
      <4>2. Destroyed(c)'
        <5>1. \A m \in Loops : Before(Waits'[m], e, g)
          BY <2>2, <3>7, NotWaiting, Zenon
        <5> QED
          BY <1>4, <1>7, <1>19, <2>2, <3>7, <5>1, Zenon DEF Life, Destroyed, e, g
      <4>3. Kept(c)'
        BY <3>1 DEF Kept
      <4> QED
        BY <3>4, <3>5, <3>6, <4>1, <4>2, <4>3, Zenon DEF Life
    <3>9. Active(c)'
      BY <2>6, <3>4, <3>6
    <3> QED
      BY <1>18, <3>1, <3>2, <3>6, <3>8, <3>9
  <2> QED
    BY <2>7, <2>8
<1> QED
  BY <1>11, <1>20, <1>21

-----------------------------------------------------------------------------
(* The theorems.                                                           *)

\* A server that was constructed and not yet started.
LEMMA InitOK ==
    ASSUME Init
    PROVE  ServerInv
<1>1. /\ server = "new" /\ acceptChannel_ = NewChannel /\ numThread_ \in ThreadNums
      /\ loops_ = <<>> /\ next_ = 0 /\ socket = [c \in Conns |-> "none"]
      /\ connections_ = {} /\ ioloop = [c \in Conns |-> Base]
      /\ conn = [c \in Conns |-> NewConnection] /\ revents = [c \in Conns |-> {}]
      /\ active = [l \in Loops |-> <<>>] /\ guard = {} /\ pending = [l \in Loops |-> <<>>]
      /\ functors = [l \in Loops |-> <<>>] /\ pos = [l \in Loops |-> 0]
      /\ lpc = [l \in Loops |-> "none"] /\ quit = [l \in Loops |-> "no"] /\ faults = {}
  BY Zenon DEF Init
<1>2. Base \in Loops
  BY DEF Loops
<1>3. TypeOK
  <2>1. conn \in [Conns -> ConnectionType]
    <3>1. NewConnection \in ConnectionType
      BY NewConnectionOK DEF ConnOK
    <3> QED
      BY <1>1, <3>1
  <2>2. acceptChannel_ \in ChannelType
    BY <1>1, NewChannelOK
  <2>3. /\ loops_ \in Seq(Range(IoLoops))
        /\ socket \in [Conns -> {"none", "backlog", "accepted"}]
        /\ ioloop \in [Conns -> Loops]
    BY <1>1, <1>2
  <2>4. /\ revents \in [Conns -> SUBSET {"HUP", "ERR", "IN", "OUT"}]
        /\ lpc \in [Loops -> {"none", "starting", "poll", "dispatch", "functors", "exited"}]
        /\ active \in [Loops -> Seq(Conns \cup {Acceptor})]
    BY <1>1
  <2>5. /\ pending \in [Loops -> Seq(FunctorType)] /\ functors \in [Loops -> Seq(FunctorType)]
        /\ pos \in [Loops -> Nat]
    BY <1>1
  <2>6. next_ \in Nat /\ server \in {"new", "up", "closing", "gone"}
    BY <1>1
  <2>7. connections_ \subseteq Conns /\ guard \subseteq Conns
        /\ quit \in [Loops -> {"no", "set", "lost"}] /\ faults \subseteq {"n==1", "dangling"}
    BY <1>1
  <2> QED
    BY <1>1, <2>1, <2>2, <2>3, <2>4, <2>5, <2>6, <2>7, Zenon DEF TypeOK
<1>4. ChannelOK(acceptChannel_)
  BY <1>1, NewChannelOK
<1>5. ServerPhase
  BY <1>1, <1>2 DEF ServerPhase
<1>6. ASSUME NEW l \in Loops PROVE LoopPhase(l)
  <2>1. /\ active[l] = <<>> /\ functors[l] = <<>> /\ pos[l] = 0 /\ lpc[l] = "none"
    BY <1>1
  <2> QED
    BY <2>1 DEF LoopPhase, IsInjective
<1>7. ASSUME NEW l \in Loops, NEW f, NEW g
      PROVE  ~In(Waits[l], f) /\ Once(Waits[l], f) /\ Before(Waits[l], f, g)
  <2>1. Rest(<<>>, 0, <<>>) = <<>>
    <3>1. \A q \in Seq(FunctorType) : Rest(<<>>, 0, q) = q
      BY RestSwap
    <3>2. <<>> \in Seq(FunctorType)
      OBVIOUS
    <3> QED
      BY <3>1, <3>2, Zenon
  <2>2. Waits[l] = <<>>
    BY <1>1, <2>1 DEF Waits
  <2> QED
    BY <2>2 DEF In, Once, Before
<1>8. ASSUME NEW c \in Conns PROVE Life(c) /\ Active(c)
  <2>1. /\ conn[c] = NewConnection /\ socket[c] = "none" /\ c \notin connections_
        /\ server = "new" /\ ioloop[c] \in Loops
    BY <1>1, <1>2
  <2>2. ConnOK(conn[c]) /\ conn[c].state = kConnecting /\ conn[c].heard = <<>>
    BY <2>1, NewConnectionOK
  <2>3. Heard(conn[c])
    BY <2>2, StatesDiffer, Zenon DEF Heard, Live
  <2>4. conn[c].ch.index # KAdded
    <3>1. conn[c].ch = NewChannel
      BY <2>2, Zenon DEF ConnOK, Listens
    <3> QED
      BY <3>1, StatesDiffer DEF NewChannel
  <2>5. NotAccepted(c) /\ InMap(c) /\ Watched(c)
    BY <1>7, <2>1, <2>2, <2>4, Zenon DEF NotAccepted, InMap, Watched
  <2>6. Established(c) /\ Removed(c) /\ Destroyed(c) /\ Kept(c)
    BY <1>7, <2>1, Zenon DEF Established, Removed, Destroyed, Kept
  <2>7. Active(c)
    <3>1. \A l \in Loops : Range(active[l]) = {}
      BY <1>1 DEF Range
    <3> QED
      BY <3>1, Zenon DEF Active
  <2> QED
    BY <2>2, <2>3, <2>5, <2>6, <2>7, Zenon DEF Life
<1> QED
  BY <1>1, <1>3, <1>4, <1>5, <1>6, <1>8, Zenon DEF ServerInv

\* Every step of the loops, the peers and the destructor keeps the invariant.
LEMMA NextStep ==
    ASSUME ServerInv, [Next]_vars
    PROVE  ServerInv'
<1>1. CASE Start
  BY <1>1, StartStep
<1>2. ASSUME NEW c \in Conns, PeerConnect(c) \/ PeerSend(c) \/ PeerClose(c) \/ PeerReset(c)
      PROVE  ServerInv'
  BY <1>2, PeerConnectStep, PeerStep
<1>3. ASSUME NEW l \in Loops, LoopStep(l)
      PROVE  ServerInv'
  <2>1. CASE Poll(l)
    BY <2>1, PollStep
  <2>2. CASE HandleEvent(l)
    BY <2>2, HandleEventStep
  <2>3. CASE DoPendingFunctors(l)
    BY <2>3, DoPendingFunctorsStep
  <2>4. CASE RunEstablished(l)
    BY <2>4, RunEstablishedStep
  <2>5. CASE RunWriteComplete(l)
    BY <2>5, RunWriteCompleteStep
  <2>6. CASE RunDestoryed(l)
    BY <2>6, RunDestoryedStep
  <2>7. CASE RunRemoveConnection(l)
    BY <2>7, RunRemoveConnectionStep
  <2>8. CASE EndPendingFunctors(l)
    BY <2>8, EndPendingFunctorsStep
  <2>9. CASE Accept
    BY <2>9, AcceptStep
  <2>10. CASE EnterLoop(l)
    BY <2>10, EnterLoopStep
  <2> QED
    BY <1>3, <2>1, <2>2, <2>3, <2>4, <2>5, <2>6, <2>7, <2>8, <2>9, <2>10, Zenon DEF LoopStep
<1>4. CASE QuitBase
  BY <1>4, QuitStep
<1>5. CASE DestroyStep
  <2>1. ASSUME NEW c \in Conns, DestroyConnection(c) PROVE ServerInv'
    BY <2>1, DestroyConnectionStep
  <2>2. CASE BeginDestroy \/ \E i \in 1..Len(loops_) : QuitLoop(i)
    BY <2>2, QuitStep
  <2>3. CASE EndDestroy
    BY <2>3, EndDestroyStep
  <2> QED
    BY <1>5, <2>1, <2>2, <2>3, Zenon DEF DestroyStep
<1>6. CASE UNCHANGED vars
  <2>1. /\ UNCHANGED <<server, acceptChannel_, numThread_, loops_, next_, socket, connections_>>
        /\ UNCHANGED <<ioloop, conn, revents, active, guard>>
        /\ UNCHANGED <<pending, functors, pos, lpc, quit, faults>>
    BY <1>6 DEF vars
  <2>2. TypeOK' /\ ServerPhase' /\ \A l \in Loops : LoopPhase(l)'
    BY <2>1, Zenon DEF ServerInv, TypeOK, ServerPhase, LoopPhase, Loops
  <2>3. Waits' = Waits
    BY <2>1, WaitsSame
  <2>4. ASSUME NEW c \in Conns PROVE Life(c)' /\ Active(c)'
    BY <2>1, <2>3, Zenon DEF ServerInv, Life, Active, NotAccepted, InMap, Established, Removed,
       Destroyed, Watched, Kept, Loops
  <2> QED
    BY <2>1, <2>2, <2>4, Zenon DEF ServerInv, Loops
<1> QED
  BY <1>1, <1>2, <1>3, <1>4, <1>5, <1>6, Zenon DEF Next

(* Every state the server, its loops and its peers reach together          *)
(* satisfies the inductive invariant.                                      *)
THEOREM ServerInvariant == Spec => []ServerInv
<1>1. Init => ServerInv
  BY InitOK
<1>2. ServerInv /\ [Next]_vars => ServerInv'
  BY NextStep
<1> QED
  BY <1>1, <1>2, PTL DEF Spec

(* Every variable keeps its type: next_ is an index of loops_ whenever     *)
(* getNextLoop reads it, and no queue holds anything but functors.         *)
THEOREM ServerTypes == Spec => []TypeOK
<1>1. ServerInv => TypeOK
  BY Zenon DEF ServerInv
<1> QED
  BY <1>1, ServerInvariant, PTL

(* The assertion n==1 of removeConnectionInLoop never fails: a connection  *)
(* is closed once, and is in the map when its close reaches the base loop. *)
THEOREM ServerErasedOnce == Spec => []ErasedOnce
<1>1. ServerInv => ErasedOnce
  BY DEF ServerInv, ErasedOnce
<1> QED
  BY <1>1, ServerInvariant, PTL

(* No epoll_ctl of the acceptor's or a connection's channel is refused, so *)
(* the LOG_FATAL of EPollPoller::update is not reached.                    *)
THEOREM ServerCtlNeverRefused == Spec => []CtlNeverRefused
<1>1. ServerInv => CtlNeverRefused
  BY Zenon DEF ServerInv, Life, ConnOK, Listens, ChannelOK, Registered, CtlNeverRefused
<1> QED
  BY <1>1, ServerInvariant, PTL

(* A channel that epoll watches, or that waits among the active channels   *)
(* of a loop, belongs to a connection that something still owns.           *)
THEOREM ServerWatchedIsAlive == Spec => []WatchedIsAlive
<1>1. ASSUME ServerInv PROVE WatchedIsAlive
  <2>1. TypeOK /\ \A l \in Loops : LoopPhase(l)
    BY <1>1, Zenon DEF ServerInv
  <2>2. ASSUME NEW c \in Conns, NEW l \in Loops, In(Waits[l], Functor("destroyed", c))
        PROVE  Alive(c)
    <3>1. /\ functors[l] \in Seq(FunctorType) /\ pending[l] \in Seq(FunctorType)
          /\ pos[l] \in Nat /\ pos[l] <= Len(functors[l])
      BY <2>1, Types DEF LoopPhase
    <3>2. In(Rest(functors[l], pos[l], pending[l]), Functor("destroyed", c))
      BY <2>1, <2>2, WaitsType
    <3>3. Functor("destroyed", c) \in Range(pending[l]) \cup Range(functors[l])
      BY <3>1, <3>2, RestFrom
    <3>4. Functor("destroyed", c).c = c /\ Functor("destroyed", c).op \in OwningOps
      BY FunctorsDiffer DEF OwningOps
    <3> QED
      BY <3>3, <3>4, Zenon DEF Alive
  <2>3. ASSUME NEW c \in Conns, conn[c].ch.epoll.watched PROVE Alive(c)
    <3>1. c \in connections_ \/ In(Waits[ioloop[c]], Functor("destroyed", c))
      BY <1>1, <2>3, Zenon DEF ServerInv, Life, ConnOK, Listens, ChannelOK, Registered, Watched
    <3>2. ioloop[c] \in Loops
      BY <2>1, Types
    <3> QED
      BY <2>2, <3>1, <3>2, Zenon DEF Alive
  <2>4. ASSUME NEW c \in Conns, NEW l \in Loops, c \in Range(active[l]) PROVE Alive(c)
    <3>1. c \in connections_ \/ c \in guard \/ In(Waits[l], Functor("destroyed", c))
      BY <1>1, <2>4, Zenon DEF ServerInv, Active
    <3> QED
      BY <2>2, <3>1, Zenon DEF Alive
  <2> QED
    BY <2>3, <2>4, Zenon DEF WatchedIsAlive
<1> QED
  BY <1>1, ServerInvariant, PTL

(* The user hears of each connection nothing, that it is up, or that it is *)
(* up and then, once, that it is down.                                     *)
THEOREM ServerCallbackOrder == Spec => []CallbackOrder
<1>1. ASSUME ServerInv PROVE CallbackOrder
  <2> SUFFICES ASSUME NEW c \in Conns
               PROVE  conn[c].heard \in {<<>>, <<"up">>, <<"up", "down">>}
    BY DEF CallbackOrder
  <2>1. Heard(conn[c]) /\ conn[c] \in ConnectionType
    BY <1>1, Zenon DEF ServerInv, Life, ConnOK
  <2>2. conn[c].state \in {kConnecting, kConnected, kDisconnecting, kDisconnected}
    BY <2>1, ConnectionFields
  <2> QED
    BY <2>1, <2>2 DEF Heard, Live
<1> QED
  BY <1>1, ServerInvariant, PTL

(* shutdown() sends the FIN when outputBuffer_ has drained, not earlier    *)
(* and not later, as long as no append has written beyond its capacity.    *)
THEOREM ServerFinWhenDrained == Spec => []FinWhenDrained
<1>1. ASSUME ServerInv PROVE FinWhenDrained
  <2>1. \A c \in Conns : Drains(conn[c])
    BY <1>1, Zenon DEF ServerInv, Life, ConnOK
  <2> QED
    BY <2>1, Zenon DEF Drains, FinWhenDrained
<1> QED
  BY <1>1, ServerInvariant, PTL

(* While a connection is up, in the map, and its outputBuffer_ was not      *)
(* written beyond its capacity: every message that send() accepted is with *)
(* the kernel or in outputBuffer_, until the peer resets the connection,   *)
(* and epoll watches for EPOLLOUT while one is in outputBuffer_.           *)
THEOREM ServerNothingLost == Spec => []NothingLost
<1>1. ASSUME ServerInv PROVE NothingLost
  <2> SUFFICES ASSUME NEW c \in connections_, conn[c].state \in {kConnected, kDisconnecting}
               PROVE  /\ conn[c].peer # "rst" => conn[c].sent = conn[c].wire + conn[c].out
                      /\ conn[c].out > 0 => Writing \in conn[c].ch.epoll.events
    BY DEF NothingLost
  <2>1. c \in Conns /\ Live(conn[c])
    BY <1>1 DEF ServerInv, TypeOK, Live
  <2>2. ConnOK(conn[c]) /\ Kept(c)
    BY <1>1, <2>1, Zenon DEF ServerInv, Life
  <2>3. conn[c].peer # "rst" => conn[c].sent = conn[c].wire + conn[c].out
    BY <2>2, Zenon DEF ConnOK, Counts
  <2>4. conn[c].ch.epoll.watched /\ conn[c].ch.epoll.events = conn[c].ch.events
    BY <2>1, <2>2, Zenon DEF Kept, ConnOK, Listens, ChannelOK, Registered
  <2>5. conn[c].out > 0 => Writing \in conn[c].ch.events
    BY <2>1, <2>2, Zenon DEF ConnOK, Listens
  <2> QED
    BY <2>3, <2>4, <2>5
<1> QED
  BY <1>1, ServerInvariant, PTL
=============================================================================
