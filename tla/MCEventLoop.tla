----------------------------- MODULE MCEventLoop -----------------------------
(* Two other threads and three functors: two callers can be between push   *)
(* and wakeup at once, and a batch can hold functors of both and one that  *)
(* is queued while the batch runs.                                         *)
EXTENDS EventLoop
CONSTANTS th1, th2, f1, f2, f3
MCThreads == {th1, th2}
MCTasks == {f1, f2, f3}
=============================================================================
