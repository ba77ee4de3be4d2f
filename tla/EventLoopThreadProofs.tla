------------------------ MODULE EventLoopThreadProofs ------------------------
(***************************************************************************)
(* Proofs about EventLoopThread, for any set of functors: the pointer it   *)
(* publishes does not dangle, and the thread ends before the object does.  *)
(***************************************************************************)
EXTENDS EventLoopThread, TLAPS

\* What the loop does by itself: it sets quit_ never, and returns from
\* loop() only when quit_ is set.
LEMMA LoopReturnsOnQuit ==
    L!LoopStep => (quit_' => quit_) /\ (pc' = "done" => quit_)
BY DEF L!LoopStep, L!Loop, L!CheckQuit, L!Poll, L!HandleRead, L!HandleIO,
       L!DoPendingFunctors, L!RunFunctor, L!EndPendingFunctors, L!UserReturns

\* The invariant holds before the thread is started.
LEMMA OwnerInit == Init => OwnerInv
BY DEF Init, L!Init, OwnerInv, ThreadPc, OwnerPc

\* The invariant is inductive.
LEMMA OwnerStepInv == OwnerInv /\ [Next]_vars => OwnerInv'
<1> SUFFICES ASSUME OwnerInv, [Next]_vars PROVE OwnerInv'
  OBVIOUS
<1> USE DEF OwnerInv, ThreadPc, OwnerPc, loopVars
<1>1. CASE SemPost
  BY <1>1 DEF SemPost
<1>2. CASE Construct
  BY <1>2 DEF Construct
<1>3. CASE InitCallback
  BY <1>3 DEF InitCallback, L!OwnerQueueInLoop, L!OwnerRunInLoop, L!state
<1>4. CASE Publish
  BY <1>4 DEF Publish
<1>5. CASE RunLoop
  BY <1>5, LoopReturnsOnQuit DEF RunLoop
<1>6. CASE LoopEnvironment
  BY <1>6 DEF LoopEnvironment, L!Poll, L!OwnerQueueInLoop, L!OwnerRunInLoop,
              L!state
<1>7. CASE Clear
  BY <1>7 DEF Clear
<1>8. CASE DestroyLoop
  BY <1>8 DEF DestroyLoop
<1>9. CASE StartThread
  BY <1>9 DEF StartThread
<1>10. CASE SemWait \/ WaitForLoop \/ SpuriousWakeup
  BY <1>10 DEF SemWait, WaitForLoop, SpuriousWakeup
<1>11. CASE UseLoop
  BY <1>11 DEF UseLoop, L!QueueInLoop
<1>12. CASE UseWakeup
  BY <1>12 DEF UseWakeup, L!Wakeup
<1>13. CASE Destroy
  BY <1>13 DEF Destroy
<1>14. CASE QuitStore
  BY <1>14 DEF QuitStore, L!Quit
<1>15. CASE QuitWakeup
  BY <1>15 DEF QuitWakeup, L!Wakeup
<1>16. CASE Join
  BY <1>16 DEF Join
<1>17. CASE UNCHANGED vars
  BY <1>17 DEF vars
<1> QED
  BY <1>1, <1>2, <1>3, <1>4, <1>5, <1>6, <1>7, <1>8, <1>9, <1>10, <1>11,
     <1>12, <1>13, <1>14, <1>15, <1>16, <1>17 DEF Next, ThreadStep, OwnerStep

\* OwnerInv holds in every reachable state.
THEOREM OwnerInvariant == Spec => []OwnerInv
BY OwnerInit, OwnerStepInv, PTL DEF Spec

\* What startloop handed out and what ~EventLoopThread reads is a loop that
\* exists.
THEOREM PublishedNeverDangles == Spec => []PublishedLoopExists
<1>1. OwnerInv => PublishedLoopExists
  BY DEF OwnerInv, PublishedLoopExists
<1> QED
  BY <1>1, OwnerInvariant, PTL

\* ~EventLoopThread never leaves a running threadFunc behind.
THEOREM ThreadNeverOutlivesObject == Spec => []ThreadEndsBeforeObject
<1>1. OwnerInv => ThreadEndsBeforeObject
  BY DEF OwnerInv, ThreadEndsBeforeObject
<1> QED
  BY <1>1, OwnerInvariant, PTL
=============================================================================
