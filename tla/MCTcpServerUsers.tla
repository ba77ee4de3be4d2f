-------------------------- MODULE MCTcpServerUsers --------------------------
(* One connection in the one loop of the pool, and one user.               *)
EXTENDS TcpServerUsers
CONSTANTS c1, u1
MCConns == {c1}
MCUsers == {u1}
MCIoLoops == <<"io1">>
=============================================================================
