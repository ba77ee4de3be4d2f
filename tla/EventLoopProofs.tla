--------------------------- MODULE EventLoopProofs ---------------------------
(***************************************************************************)
(* Proofs about the event loop, for any number of threads and functors:    *)
(* LoopInv is inductive, so the loop never sleeps on work and never reads  *)
(* an empty eventfd; and the loop implements the serial executor.          *)
(***************************************************************************)
EXTENDS EventLoop, SequenceTheorems, TLAPS

\* Appending to a sequence adds one value to its range.
LEMMA RangeAppend ==
    ASSUME NEW S, NEW s \in Seq(S), NEW e \in S
    PROVE  Range(Append(s, e)) = Range(s) \cup {e}
BY AppendProperties DEF Range

\* The empty sequence has no values.
LEMMA RangeEmpty == Range(<<>>) = {}
BY EmptySeq DEF Range

\* The constructor establishes the invariant.
LEMMA InitInv == Init => LoopInv
BY EmptySeq, RangeEmpty
   DEF Init, LoopInv, TypeOK, LoopPc, Channels, LateWork, NoEmptyRead

\* A step of the loop thread or of a caller keeps the variables in their types.
LEMMA TypeStep == LoopInv /\ [Next]_vars => TypeOK'
<1> SUFFICES ASSUME LoopInv, [Next]_vars PROVE TypeOK'
  OBVIOUS
<1> USE DEF LoopInv, TypeOK, LoopPc, Channels, history, state
<1>1. CASE LoopStep
  <2>1. CASE RunFunctor
    BY <2>1, HeadTailProperties, AppendProperties DEF RunFunctor
  <2>2. CASE DoPendingFunctors
    BY <2>2, EmptySeq DEF DoPendingFunctors
  <2>3. CASE wakeupfd_ /\ \E ready \in SUBSET Channels : Poll(ready)
    BY <2>3 DEF Poll
  <2>4. CASE \/ Loop \/ CheckQuit \/ HandleRead \/ HandleIO
             \/ EndPendingFunctors \/ UserReturns
    BY <2>4 DEF Loop, CheckQuit, HandleRead, HandleIO, EndPendingFunctors,
                UserReturns
  <2> QED
    BY <1>1, <2>1, <2>2, <2>3, <2>4 DEF LoopStep
<1>2. ASSUME NEW ready \in SUBSET Channels, Poll(ready) PROVE TypeOK'
  BY <1>2 DEF Poll
<1>3. ASSUME NEW t \in Tasks, OwnerQueueInLoop(t) \/ OwnerRunInLoop(t)
      PROVE  TypeOK'
  <2>1. CASE OwnerQueueInLoop(t)
    <3>1. wakeupfd_' \in BOOLEAN
      BY <2>1, Zenon DEF OwnerQueueInLoop
    <3> QED
      BY <2>1, <3>1, AppendProperties DEF OwnerQueueInLoop
  <2>2. CASE OwnerRunInLoop(t)
    BY <2>2 DEF OwnerRunInLoop
  <2> QED
    BY <1>3, <2>1, <2>2
<1>4. CASE OwnerQuit
  BY <1>4 DEF OwnerQuit
<1>5. ASSUME NEW th \in Threads, NEW t \in Tasks, QueueInLoop(th, t)
      PROVE  TypeOK'
  BY <1>5, AppendProperties DEF QueueInLoop
<1>6. ASSUME NEW th \in Threads, Quit(th) \/ Wakeup(th) PROVE TypeOK'
  BY <1>6 DEF Quit, Wakeup
<1>7. CASE UNCHANGED vars
  BY <1>7 DEF vars
<1> QED
  BY <1>1, <1>2, <1>3, <1>4, <1>5, <1>6, <1>7 DEF Next

\* The invariant is inductive.
LEMMA InvStep == LoopInv /\ [Next]_vars => LoopInv'
<1> SUFFICES ASSUME LoopInv, [Next]_vars PROVE LoopInv'
  OBVIOUS
<1>t. TypeOK'
  BY TypeStep
<1> USE <1>t DEF LoopInv, TypeOK, LoopPc, Channels, history, state, NoEmptyRead,
          LateWork, WakeupComing
<1>1. CASE Loop
  BY <1>1 DEF Loop
<1>2. CASE CheckQuit
  BY <1>2 DEF CheckQuit
<1>3. ASSUME NEW ready \in SUBSET Channels, Poll(ready) PROVE LoopInv'
  BY <1>3 DEF Poll
<1>4. CASE HandleRead
  BY <1>4 DEF HandleRead
<1>5. CASE HandleIO
  BY <1>5 DEF HandleIO
<1>6. CASE DoPendingFunctors
  <2>1. ~LateWork'
    BY <1>6, RangeEmpty DEF DoPendingFunctors
  <2> QED
    BY <1>6, <2>1 DEF DoPendingFunctors
<1>7. CASE RunFunctor
  BY <1>7 DEF RunFunctor
<1>8. CASE EndPendingFunctors
  BY <1>8 DEF EndPendingFunctors
<1>9. CASE UserReturns
  BY <1>9 DEF UserReturns
<1>10. ASSUME NEW t \in Tasks, OwnerQueueInLoop(t) PROVE LoopInv'
  \* Before loop() the functor counts as early; while functors run the
  \* push comes with a write to the eventfd; in a channel callback the
  \* swap is still to come.
  <2>1. Range(pendingFunctions_') = Range(pendingFunctions_) \cup {t}
    BY <1>10, RangeAppend DEF OwnerQueueInLoop
  <2>2. CASE pc = "init"
    <3>1. LateWork' => LateWork
      BY <1>10, <2>1, <2>2 DEF OwnerQueueInLoop
    <3> QED
      BY <1>10, <2>2, <3>1 DEF OwnerQueueInLoop
  <2>3. CASE pc = "io"
    BY <1>10, <2>3 DEF OwnerQueueInLoop
  <2>4. CASE pc = "functor"
    BY <1>10, <2>4 DEF OwnerQueueInLoop
  <2> QED
    BY <1>10, <2>2, <2>3, <2>4 DEF OwnerQueueInLoop, UserCode
<1>11. ASSUME NEW t \in Tasks, OwnerRunInLoop(t) PROVE LoopInv'
  BY <1>11 DEF OwnerRunInLoop
<1>12. CASE OwnerQuit
  BY <1>12 DEF OwnerQuit, UserCode
<1>13. ASSUME NEW th \in Threads, NEW t \in Tasks, QueueInLoop(th, t)
       PROVE  LoopInv'
  <2>1. WakeupComing'
    BY <1>13 DEF QueueInLoop
  <2> QED
    BY <1>13, <2>1 DEF QueueInLoop
<1>14. ASSUME NEW th \in Threads, Quit(th) PROVE LoopInv'
  <2>1. WakeupComing'
    BY <1>14 DEF Quit
  <2> QED
    BY <1>14, <2>1 DEF Quit
<1>15. ASSUME NEW th \in Threads, Wakeup(th) PROVE LoopInv'
  <2>1. WakeupComing'
    BY <1>15 DEF Wakeup
  <2> QED
    BY <1>15, <2>1 DEF Wakeup
<1>16. CASE UNCHANGED vars
  BY <1>16 DEF vars
<1> QED
  BY <1>1, <1>2, <1>3, <1>4, <1>5, <1>6, <1>7, <1>8, <1>9, <1>10, <1>11,
     <1>12, <1>13, <1>14, <1>15, <1>16 DEF Next, LoopStep

\* LoopInv holds in every reachable state.
THEOREM LoopInvariant == Spec => []LoopInv
BY InitInv, InvStep, PTL DEF Spec

\* The variables keep their types.
THEOREM TypeCorrect == Spec => []TypeOK
<1>1. LoopInv => TypeOK
  BY DEF LoopInv
<1> QED
  BY <1>1, LoopInvariant, PTL

\* With any number of callers, the loop never sleeps in epoll_wait on a
\* quit or a functor without a wakeup on its way (queueInLoop, quit).
THEOREM NeverSleepsOnWork == Spec => []NoSleepOnWork
<1>1. LoopInv => NoSleepOnWork
  BY DEF LoopInv, NoSleepOnWork
<1> QED
  BY <1>1, LoopInvariant, PTL

\* handleRead never reads an eventfd whose counter is zero.
THEOREM NeverReadsEmpty == Spec => []NoEmptyRead
<1>1. LoopInv => NoEmptyRead
  BY DEF LoopInv
<1> QED
  BY <1>1, LoopInvariant, PTL

\* A step of the loop is a step of the serial executor or leaves it alone.
LEMMA RefinementStep ==
    LoopInv /\ [Next]_vars => [Executor!Next]_(Executor!vars)
<1> SUFFICES ASSUME LoopInv, [Next]_vars
             PROVE  [Executor!Next]_(Executor!vars)
  OBVIOUS
<1> DEFINE backlog == functors \o pendingFunctions_
<1> USE DEF LoopInv, TypeOK, history, state
\* A push goes to the end of the backlog, whatever the batch holds.
<1>p. ASSUME NEW t \in Tasks, pendingFunctions_' = Append(pendingFunctions_, t),
             queued' = Append(queued, t), UNCHANGED <<functors, executed>>
      PROVE  Executor!Next
  <2>1. backlog' = Append(backlog, t)
    BY <1>p
  <2> QED
    BY <1>p, <2>1 DEF Executor!Next, Executor!Accept
\* A step that leaves both vectors and the histories alone is a stutter.
<1>s. ASSUME UNCHANGED <<pendingFunctions_, functors, queued, executed>>
      PROVE  UNCHANGED Executor!vars
  BY <1>s DEF Executor!vars
<1>1. CASE DoPendingFunctors
  <2>1. backlog' = backlog
    BY <1>1, EmptySeq, ConcatEmptySeq DEF DoPendingFunctors
  <2> QED
    BY <1>1, <2>1 DEF DoPendingFunctors, Executor!vars
<1>2. CASE RunFunctor
  <2>1. backlog # <<>> /\ Head(backlog) = Head(functors)
    BY <1>2 DEF RunFunctor
  <2>2. backlog' = Tail(backlog)
    BY <1>2 DEF RunFunctor
  <2> QED
    BY <1>2, <2>1, <2>2 DEF RunFunctor, Executor!Next, Executor!RunNext
<1>3. ASSUME NEW t \in Tasks, OwnerQueueInLoop(t) PROVE Executor!Next
  BY <1>3, <1>p DEF OwnerQueueInLoop
<1>4. ASSUME NEW th \in Threads, NEW t \in Tasks, QueueInLoop(th, t)
      PROVE  Executor!Next
  BY <1>4, <1>p DEF QueueInLoop
<1>5. CASE \/ Loop \/ CheckQuit \/ HandleRead \/ HandleIO
           \/ EndPendingFunctors \/ UserReturns \/ OwnerQuit
  BY <1>5, <1>s DEF Loop, CheckQuit, HandleRead, HandleIO,
                    EndPendingFunctors, UserReturns, OwnerQuit
<1>6. ASSUME NEW ready \in SUBSET Channels, Poll(ready)
      PROVE  UNCHANGED Executor!vars
  BY <1>6, <1>s DEF Poll
<1>7. ASSUME NEW t \in Tasks, OwnerRunInLoop(t)
      PROVE  UNCHANGED Executor!vars
  BY <1>7, <1>s DEF OwnerRunInLoop
<1>8. ASSUME NEW th \in Threads, Quit(th) \/ Wakeup(th)
      PROVE  UNCHANGED Executor!vars
  BY <1>8, <1>s DEF Quit, Wakeup
<1>9. CASE UNCHANGED vars
  BY <1>9, <1>s DEF vars
<1> QED
  BY <1>1, <1>2, <1>3, <1>4, <1>5, <1>6, <1>7, <1>8, <1>9 DEF Next, LoopStep

\* Functors handed to queueInLoop by any number of threads are run once and
\* in order: the loop implements the serial executor.
THEOREM LoopImplementsExecutor == Spec => ImplementsExecutor
<1>1. Init => Executor!Init
  BY EmptySeq, ConcatEmptySeq DEF Init, Executor!Init
<1> QED
  BY <1>1, RefinementStep, LoopInvariant, PTL
     DEF Spec, ImplementsExecutor, Executor!Spec

\* The serial executor keeps its line: moving the head of the backlog to the
\* end of what was run, or pushing, changes nothing of the order.
LEMMA FifoStep ==
    ASSUME NEW S, NEW r \in Seq(S), NEW b \in Seq(S)
    PROVE  /\ \A t \in S : Append(r \o b, t) = r \o Append(b, t)
           /\ b # <<>> => Append(r, Head(b)) \o Tail(b) = r \o b
<1>1. ASSUME NEW t \in S PROVE Append(r \o b, t) = r \o Append(b, t)
  OBVIOUS
<1>2. ASSUME b # <<>> PROVE Append(r, Head(b)) \o Tail(b) = r \o b
  <2>1. Head(b) \in S /\ Tail(b) \in Seq(S)
    BY <1>2
  <2>2. <<Head(b)>> \in Seq(S)
    BY <2>1
  <2>3. b = <<Head(b)>> \o Tail(b)
    BY <1>2
  <2>4. Append(r, Head(b)) = r \o <<Head(b)>>
    BY <2>1, AppendIsConcat
  <2> QED
    BY <2>1, <2>2, <2>3, <2>4, ConcatAssociative
<1> QED
  BY <1>1, <1>2

\* No functor is lost, run twice or overtaken by a later one.
THEOREM RunsInOrder == Spec => []RunInOrder
<1> DEFINE backlog == functors \o pendingFunctions_
<1>1. Init => RunInOrder
  BY EmptySeq, ConcatEmptySeq DEF Init, RunInOrder, Executor!Fifo
<1>2. ASSUME LoopInv, RunInOrder, [Next]_vars PROVE RunInOrder'
  <2> USE DEF RunInOrder, Executor!Fifo
  <2>1. executed \in Seq(Tasks) /\ backlog \in Seq(Tasks)
    BY <1>2, ConcatProperties DEF LoopInv, TypeOK
  <2>2. CASE Executor!RunNext
    <3>1. Append(executed, Head(backlog)) \o Tail(backlog) = executed \o backlog
      BY <2>1, <2>2, FifoStep DEF Executor!RunNext
    <3> QED
      BY <1>2, <2>2, <3>1 DEF Executor!RunNext
  <2>3. ASSUME NEW t \in Tasks, Executor!Accept(t) PROVE RunInOrder'
    <3>1. Append(executed \o backlog, t) = executed \o Append(backlog, t)
      BY <2>1, FifoStep, SMTT(30)
    <3> QED
      BY <1>2, <2>3, <3>1 DEF Executor!Accept
  <2>4. CASE UNCHANGED Executor!vars
    BY <1>2, <2>4 DEF Executor!vars
  <2> QED
    BY <1>2, <2>2, <2>3, <2>4, RefinementStep DEF Executor!Next
<1> QED
  BY <1>1, <1>2, LoopInvariant, PTL DEF Spec
=============================================================================
