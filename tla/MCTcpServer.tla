----------------------------- MODULE MCTcpServer -----------------------------
(* Without a pool and with a pool of one loop.  One connection for the     *)
(* liveness properties; two for the safety properties, so that handlers    *)
(* and functors of both share a loop, an iteration and the map.            *)
EXTENDS TcpServer
CONSTANTS c1, c2
MCOne == {c1}
MCTwo == {c1, c2}
MCIoLoops == <<"io1">>

\* Connections are interchangeable.
Symmetry == Permutations(MCTwo)
=============================================================================
