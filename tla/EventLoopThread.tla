--------------------------- MODULE EventLoopThread ---------------------------
(***************************************************************************)
(* class EventLoopThread (resoure/EventLoopThread.cpp) with class Thread   *)
(* (resoure/Thread.cpp): an owner starts a thread, waits until that thread *)
(* has published its Eventloop, uses the loop, and later destroys the      *)
(* object, which must stop and join the thread.                            *)
(*                                                                         *)
(* The loop is the one of module EventLoop with the owner as its only      *)
(* other thread.  As in the repository, ~EventLoopThread is the only       *)
(* caller of quit() on a loop that lives in an EventLoopThread.            *)
(***************************************************************************)
EXTENDS Sequences

CONSTANT Tasks

VARIABLES
    looping_, quit_, callingPendingFunctors_, pendingFunctions_, functors,
    wakeupfd_, activechannels_, pc, caller, queued, executed, inlined, early,
    loop_,    \* EventLoopThread::loop_ is not nullptr
    alive,    \* the Eventloop on the thread's stack exists
    thr,      \* where the new thread is
    owner     \* where the thread that owns the EventLoopThread is

loopVars == <<looping_, quit_, callingPendingFunctors_, pendingFunctions_,
              functors, wakeupfd_, activechannels_, pc, caller, queued,
              executed, inlined, early>>
vars == <<looping_, quit_, callingPendingFunctors_, pendingFunctions_,
          functors, wakeupfd_, activechannels_, pc, caller, queued,
          executed, inlined, early, loop_, alive, thr, owner>>

L == INSTANCE EventLoop WITH Threads <- {"owner"}

\* none: not created    post: before sem_post   construct: before Eventloop loop;
\* cb: in callback_     loop: in loop.loop()    dtor: loop_ cleared, unlocked
\* exited: threadFunc has returned
ThreadPc == {"none", "post", "construct", "cb", "loop", "dtor", "exited"}

\* new: constructed     sem: in Thread::start    wait: at while(loop_==nullptr)
\* cond: in m_cond.wait started: startloop returned
\* quit, wake: in loop_->quit()                  join: in thread_.join()
\* gone: the EventLoopThread is destroyed
OwnerPc == {"new", "sem", "wait", "cond", "started", "quit", "wake", "join",
            "gone"}

Init ==
    /\ L!Init
    /\ loop_ = FALSE
    /\ alive = FALSE
    /\ thr = "none"
    /\ owner = "new"

-----------------------------------------------------------------------------
(* The new thread: the lambda of Thread::start, then threadFunc.           *)

SemPost ==
    /\ thr = "post"
    /\ thr' = "construct"
    /\ UNCHANGED <<loopVars, loop_, alive, owner>>

\* Eventloop loop; and the start of callback_(&loop).
Construct ==
    /\ thr = "construct"
    /\ thr' = "cb"
    /\ alive' = TRUE
    /\ UNCHANGED <<loopVars, loop_, owner>>

\* The init callback is user code: it may hand functors to the loop.
InitCallback ==
    /\ thr = "cb"
    /\ \E t \in Tasks : L!OwnerQueueInLoop(t) \/ L!OwnerRunInLoop(t)
    /\ UNCHANGED <<loop_, alive, thr, owner>>

\* Mutant: no m_cond.notify_one().
Publish_NoNotify ==
    /\ thr = "cb"
    /\ thr' = "loop"
    /\ loop_' = TRUE
    /\ UNCHANGED <<loopVars, alive, owner>>

\* The critical section that publishes the loop and notifies the owner.
Publish ==
    /\ thr = "cb"
    /\ thr' = "loop"
    /\ loop_' = TRUE
    /\ owner' = IF owner = "cond" THEN "wait" ELSE owner
    /\ UNCHANGED <<loopVars, alive>>

\* loop.loop(), without the help of anyone else.
RunLoop ==
    /\ thr = "loop"
    /\ L!LoopStep
    /\ UNCHANGED <<loop_, alive, thr, owner>>

\* loop.loop(): traffic, time out, and what the callbacks hand over.
LoopEnvironment ==
    /\ thr = "loop"
    /\ \/ ~wakeupfd_ /\ \E ready \in SUBSET L!Channels : L!Poll(ready)
       \/ /\ pc # "init"
          /\ \E t \in Tasks : L!OwnerQueueInLoop(t) \/ L!OwnerRunInLoop(t)
    /\ UNCHANGED <<loop_, alive, thr, owner>>

\* Mutant: the pointer stays.
Clear_Forgotten ==
    /\ thr = "loop"
    /\ pc = "done"
    /\ thr' = "dtor"
    /\ UNCHANGED <<loopVars, loop_, alive, owner>>

\* loop() has returned: the second critical section clears the pointer.
Clear ==
    /\ thr = "loop"
    /\ pc = "done"
    /\ thr' = "dtor"
    /\ loop_' = FALSE
    /\ UNCHANGED <<loopVars, alive, owner>>

\* threadFunc returns: ~Eventloop, after the lock is released.
DestroyLoop ==
    /\ thr = "dtor"
    /\ thr' = "exited"
    /\ alive' = FALSE
    /\ UNCHANGED <<loopVars, loop_, owner>>

-----------------------------------------------------------------------------
(* The owner.                                                              *)

\* startloop, up to the sem_wait of Thread::start.
StartThread ==
    /\ owner = "new"
    /\ owner' = "sem"
    /\ thr' = "post"
    /\ UNCHANGED <<loopVars, loop_, alive>>

SemWait ==
    /\ owner = "sem"
    /\ thr # "post"
    /\ owner' = "wait"
    /\ UNCHANGED <<loopVars, loop_, alive, thr>>

\* while(loop_==nullptr) m_cond.wait(locker)
WaitForLoop ==
    /\ owner = "wait"
    /\ owner' = IF loop_ THEN "started" ELSE "cond"
    /\ UNCHANGED <<loopVars, loop_, alive, thr>>

SpuriousWakeup ==
    /\ owner = "cond"
    /\ owner' = "wait"
    /\ UNCHANGED <<loopVars, loop_, alive, thr>>

\* The owner hands a functor to the loop that startloop returned ...
UseLoop ==
    /\ owner = "started"
    /\ \E t \in Tasks : L!QueueInLoop("owner", t)
    /\ UNCHANGED <<loop_, alive, thr, owner>>

\* ... and gets to the wakeup() of queueInLoop.
UseWakeup ==
    /\ owner = "started"
    /\ L!Wakeup("owner")
    /\ UNCHANGED <<loop_, alive, thr, owner>>

\* ~EventLoopThread: loop_ is read without the lock.  With nullptr the
\* thread, if there is one, is detached by ~Thread.
Destroy ==
    /\ owner \in {"new", "started"}
    /\ caller["owner"] = "idle"
    /\ owner' = IF loop_ THEN "quit" ELSE "gone"
    /\ UNCHANGED <<loopVars, loop_, alive, thr>>

\* loop_->quit(), the store to quit_.
QuitStore ==
    /\ owner = "quit"
    /\ owner' = "wake"
    /\ L!Quit("owner")
    /\ UNCHANGED <<loop_, alive, thr>>

\* Mutant: quit() only stores.
QuitWakeup_Forgotten ==
    /\ owner = "wake"
    /\ owner' = "join"
    /\ UNCHANGED <<loopVars, loop_, alive, thr>>

\* The wakeup() of quit().  On a loop that is already destroyed it writes
\* to a descriptor that is no longer the eventfd.
QuitWakeup ==
    /\ owner = "wake"
    /\ owner' = "join"
    /\ IF alive THEN L!Wakeup("owner") ELSE UNCHANGED loopVars
    /\ UNCHANGED <<loop_, alive, thr>>

\* Mutant: the destructor does not join.
Join_Forgotten ==
    /\ owner = "join"
    /\ owner' = "gone"
    /\ UNCHANGED <<loopVars, loop_, alive, thr>>

\* thread_.join()
Join ==
    /\ owner = "join"
    /\ thr = "exited"
    /\ owner' = "gone"
    /\ UNCHANGED <<loopVars, loop_, alive, thr>>

-----------------------------------------------------------------------------
\* What the two threads do by themselves.
ThreadStep ==
    SemPost \/ Construct \/ Publish \/ RunLoop \/ Clear \/ DestroyLoop
OwnerStep ==
    SemWait \/ WaitForLoop \/ UseWakeup \/ QuitStore \/ QuitWakeup \/ Join

Next ==
    \/ ThreadStep
    \/ OwnerStep
    \/ InitCallback \/ LoopEnvironment
    \/ StartThread \/ SpuriousWakeup \/ UseLoop \/ Destroy

Spec == Init /\ [][Next]_vars

\* Both threads are scheduled and the user's callbacks return.  Nobody is
\* made to start or to destroy the object, no traffic has to arrive, and a
\* condition variable need not wake up spuriously.
Fairness == WF_vars(ThreadStep) /\ WF_vars(OwnerStep)
FairSpec == Spec /\ Fairness

-----------------------------------------------------------------------------
TypeOK ==
    /\ L!TypeOK
    /\ loop_ \in BOOLEAN
    /\ alive \in BOOLEAN
    /\ thr \in ThreadPc
    /\ owner \in OwnerPc

(* startloop returns: the notification of threadFunc cannot fall between   *)
(* the owner's test of loop_ and its wait.                                 *)
StartloopReturns == owner = "sem" ~> owner = "started"

(* The pointer that startloop hands out and ~EventLoopThread reads never   *)
(* dangles, and the loop it hands out stays until the destructor quits it. *)
PublishedLoopExists == loop_ \/ owner = "started" => alive

(* ~EventLoopThread returns only when threadFunc, which locks m_mutex and  *)
(* writes loop_ of the object, has returned.                               *)
ThreadEndsBeforeObject == owner = "gone" => thr \in {"none", "exited"}

\* Why both hold: quit_ is set by the destructor only, so that a loop that
\* ends has been asked to by an owner which waits for its thread.
OwnerInv ==
    /\ loop_ \in BOOLEAN /\ alive \in BOOLEAN
    /\ thr \in ThreadPc /\ owner \in OwnerPc
    /\ loop_ <=> thr = "loop"
    /\ alive <=> thr \in {"cb", "loop", "dtor"}
    /\ quit_ => owner \in {"wake", "join", "gone"}
    /\ pc = "done" => owner \in {"wake", "join", "gone"}
    /\ owner = "new" => thr = "none"
    /\ thr = "none" => owner \in {"new", "gone"}
    /\ owner \in {"started", "quit"} => thr = "loop"
    /\ owner \in {"wake", "join"} => thr \in {"loop", "dtor", "exited"}
    /\ owner = "gone" => thr \in {"none", "exited"}
    /\ thr \in {"dtor", "exited"} => owner \in {"wake", "join", "gone"}

(* ~EventLoopThread of a thread that has entered loop() returns.           *)
RunningLoopIsJoined == (owner = "quit" /\ looping_) ~> owner = "gone"

(* ~EventLoopThread returns, as "the thread exits, the event loop of LOOP  *)
(* exits" (EventLoopThread.cpp:16) says of its quit().                     *)
DestructorReturns == owner = "quit" ~> owner = "gone"

(* quit() works on a loop that exists, as "cleared at the end, safe"       *)
(* (EventLoopThread.cpp:48) says of loop_.                                 *)
QuitTargetsLiveLoop == owner \in {"quit", "wake"} => alive
=============================================================================
