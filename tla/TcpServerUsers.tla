--------------------------- MODULE TcpServerUsers ---------------------------
(***************************************************************************)
(* TcpServer with application threads outside the loops, each of which was *)
(* given a TcpConnectionPtr in a callback and calls send() and shutdown()  *)
(* on it: the branches of TcpConnection::send and TcpConnection::shutdown  *)
(* for another thread, which read state_, and later push a functor bound   *)
(* to the bare this.                                                       *)
(***************************************************************************)
EXTENDS TcpServer

CONSTANT Users

VARIABLE user    \* of each user: where it is, and the connection it keeps

allVars == <<vars, user>>

\* idle: has no connection   hold: keeps c   send: in send(), before the push
\* set: in shutdown(), before setState       push: before the push
\* done: has dropped its pointer
UserPc == {"idle", "hold", "send", "set", "push", "done"}

UsersInit == Init /\ user = [u \in Users |-> [pc |-> "idle", c |-> {}]]

At(u, c, from, to) ==
    /\ user[u] = [pc |-> from, c |-> {c}]
    /\ user' = [user EXCEPT ![u].pc = to]

\* A callback of c, which is connected, stores the pointer for u.
Take(u, c) ==
    /\ user[u].pc = "idle"
    /\ conn[c].state = kConnected
    /\ user' = [user EXCEPT ![u] = [pc |-> "hold", c |-> {c}]]
    /\ UNCHANGED vars

Drop(u, c) ==
    /\ user[u] = [pc |-> "hold", c |-> {c}]
    /\ user' = [user EXCEPT ![u] = [pc |-> "done", c |-> {}]]
    /\ UNCHANGED vars

\* send(): the test of state_; the bound MaxSends counts here.
SendTest(u, c) ==
    /\ At(u, c, "hold", "send")
    /\ conn[c].state = kConnected
    /\ conn[c].sent < MaxSends
    /\ conn' = [conn EXCEPT ![c].sent = @ + 1]
    /\ UNCHANGED <<server, serverVars, socket, connections_, ioloop, loopVars, faults>>

Push(c, op) ==
    /\ pending' = Queued(pending, ioloop[c], <<Functor(op, c)>>)
    /\ UNCHANGED <<server, serverVars, connVars, active, revents, guard, functors,
                   pos, lpc, quit, faults>>

\* send(): runInLoop with this.
SendPush(u, c) == At(u, c, "send", "hold") /\ Push(c, "sendInLoop")

\* shutdown(): the test of state_, the store to it, runInLoop with this.
ShutdownTest(u, c) ==
    /\ At(u, c, "hold", "set")
    /\ conn[c].state = kConnected
    /\ UNCHANGED vars
ShutdownSet(u, c) ==
    /\ At(u, c, "set", "push")
    /\ conn' = [conn EXCEPT ![c].state = kDisconnecting]
    /\ UNCHANGED <<server, serverVars, socket, connections_, ioloop, loopVars, faults>>
ShutdownPush(u, c) == At(u, c, "push", "hold") /\ Push(c, "shutdownInLoop")

UserStep(u, c) ==
    \/ Take(u, c) \/ Drop(u, c)
    \/ SendTest(u, c) \/ SendPush(u, c)
    \/ ShutdownTest(u, c) \/ ShutdownSet(u, c) \/ ShutdownPush(u, c)

\* Loop l calls a functor of a user; the connection may be gone.
RunBare(l, op, results) ==
    /\ Calling(l, op)
    /\ LET c == Current(l).c
       IN  IF Alive(c) \/ \E u \in Users : user[u].c = {c}
           THEN \E r \in results : Handled(l, c, r)
           ELSE /\ faults' = faults \cup {"dangling"}
                /\ UNCHANGED <<connections_, conn, pending>>
    /\ UNCHANGED user

RunSendInLoop(l) ==
    RunBare(l, "sendInLoop", SendInLoop(conn[Current(l).c]))
RunShutdownInLoop(l) ==
    RunBare(l, "shutdownInLoop",
            {Result(ShutdownInLoop(conn[Current(l).c]), "none")})

UsersNext ==
    \/ Next /\ UNCHANGED user
    \/ /\ faults = {}
       /\ \/ \E u \in Users, c \in Conns : UserStep(u, c)
          \/ \E l \in Loops : RunSendInLoop(l) \/ RunShutdownInLoop(l)

UsersSpec == UsersInit /\ [][UsersNext]_allVars
=============================================================================
