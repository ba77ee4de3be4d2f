-------------------------- MODULE MCEventLoopThread --------------------------
(* Two functors, so that one can be queued while the batch of the other    *)
(* runs; the owner is the only other thread.                               *)
EXTENDS EventLoopThread
CONSTANTS f1, f2
MCTasks == {f1, f2}
=============================================================================
