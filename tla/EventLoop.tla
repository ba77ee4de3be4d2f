------------------------------ MODULE EventLoop ------------------------------
(***************************************************************************)
(* class Eventloop (resoure/Eventloop.cpp): one loop thread that           *)
(* alternates between Poller::poll and the pending functors, and any       *)
(* number of other threads that hand it functors or ask it to quit.        *)
(*                                                                         *)
(* A step of the model is what one thread does between two points where    *)
(* the others can see its effect: a store to an atomic, a critical section *)
(* of m_mutex, a write to or a read from the eventfd.  isInLoopThread() is *)
(* the choice between the actions of the loop thread (OwnerXxx) and the    *)
(* ones of the other threads.                                              *)
(*                                                                         *)
(* The eventfd counter is kept as one bit, "non-zero": that is all that    *)
(* epoll and the reader, which resets it, can tell.                        *)
(***************************************************************************)
EXTENDS Naturals, Sequences, Functions

CONSTANTS Threads,    \* the threads other than the loop's own
          Tasks       \* functors; each is submitted at most once

VARIABLES
    looping_, quit_, callingPendingFunctors_,
    pendingFunctions_,  \* functors handed over, under m_mutex
    functors,           \* the local vector of doPendingFunctors
    wakeupfd_,          \* TRUE when the eventfd counter is not zero
    activechannels_,    \* channels of this iteration still to be dispatched
    pc,                 \* where the loop thread is
    caller,             \* where each other thread is
    queued,             \* history: functors pushed, in order
    executed,           \* history: functors run by doPendingFunctors, in order
    inlined,            \* history: functors run at once by runInLoop
    early               \* history: pushed by the loop thread before loop()

state == <<looping_, quit_, callingPendingFunctors_, pendingFunctions_,
           functors, wakeupfd_, activechannels_, pc, caller>>
history == <<queued, executed, inlined, early>>
vars == <<looping_, quit_, callingPendingFunctors_, pendingFunctions_,
          functors, wakeupfd_, activechannels_, pc, caller,
          queued, executed, inlined, early>>

\* What epoll can report: the eventfd, or any channel of the user.
Channels == {"wakeup", "io"}

\* init: constructed, loop() not called yet   check: at while(!quit_)
\* poll: in epoll_wait                        handle: dispatching channels
\* io: in a user's channel callback           run: between two functors
\* functor: in a functor                      done: loop() has returned
LoopPc == {"init", "check", "poll", "handle", "io", "run", "functor", "done"}

\* Where the loop thread runs code of the user, which may call the loop.
UserCode == {"init", "io", "functor"}

Submitted == Range(queued) \cup inlined

Init ==
    /\ looping_ = FALSE
    /\ quit_ = FALSE
    /\ callingPendingFunctors_ = FALSE
    /\ pendingFunctions_ = <<>>
    /\ functors = <<>>
    /\ wakeupfd_ = FALSE
    /\ activechannels_ = {}
    /\ pc = "init"
    /\ caller = [th \in Threads |-> "idle"]
    /\ queued = <<>>
    /\ executed = <<>>
    /\ inlined = {}
    /\ early = {}

-----------------------------------------------------------------------------
(* The loop thread.                                                        *)

\* loop() is entered: whatever quit_ was, it is cleared.
Loop ==
    /\ pc = "init"
    /\ looping_' = TRUE
    /\ quit_' = FALSE
    /\ pc' = "check"
    /\ UNCHANGED <<callingPendingFunctors_, pendingFunctions_, functors,
                   wakeupfd_, activechannels_, caller>>
    /\ UNCHANGED history

\* while(!quit_): go round once more, or leave loop().
CheckQuit ==
    /\ pc = "check"
    /\ \/ /\ ~quit_
          /\ pc' = "poll"
          /\ UNCHANGED looping_
       \/ /\ quit_
          /\ pc' = "done"
          /\ looping_' = FALSE
    /\ activechannels_' = {}
    /\ UNCHANGED <<quit_, callingPendingFunctors_, pendingFunctions_,
                   functors, wakeupfd_, caller>>
    /\ UNCHANGED history

\* epoll_wait reports the channels in ready: the eventfd only when its
\* counter is not zero, and no channel at all (time out, EINTR) only when
\* it is zero.  A full batch of other channels may leave the eventfd out.
Poll(ready) ==
    /\ pc = "poll"
    /\ "wakeup" \in ready => wakeupfd_
    /\ ready = {} => ~wakeupfd_
    /\ activechannels_' = ready
    /\ pc' = "handle"
    /\ UNCHANGED <<looping_, quit_, callingPendingFunctors_, pendingFunctions_,
                   functors, wakeupfd_, caller>>
    /\ UNCHANGED history

\* Mutant: the channel is not taken off the list of active channels.
HandleRead_StaysActive ==
    /\ pc = "handle"
    /\ "wakeup" \in activechannels_
    /\ wakeupfd_' = FALSE
    /\ UNCHANGED <<looping_, quit_, callingPendingFunctors_, pendingFunctions_,
                   functors, activechannels_, pc, caller>>
    /\ UNCHANGED history

\* The wakeup channel is dispatched: read() takes the counter back to zero.
HandleRead ==
    /\ pc = "handle"
    /\ "wakeup" \in activechannels_
    /\ wakeupfd_' = FALSE
    /\ activechannels_' = activechannels_ \ {"wakeup"}
    /\ UNCHANGED <<looping_, quit_, callingPendingFunctors_, pendingFunctions_,
                   functors, pc, caller>>
    /\ UNCHANGED history

\* A channel of the user is dispatched: its callback starts.
HandleIO ==
    /\ pc = "handle"
    /\ "io" \in activechannels_
    /\ activechannels_' = activechannels_ \ {"io"}
    /\ pc' = "io"
    /\ UNCHANGED <<looping_, quit_, callingPendingFunctors_, pendingFunctions_,
                   functors, wakeupfd_, caller>>
    /\ UNCHANGED history

\* Mutant: the whole vector is taken for one functor.
DoPendingFunctors_OneFunctor ==
    /\ pc = "handle"
    /\ activechannels_ = {}
    /\ callingPendingFunctors_' = TRUE
    /\ functors' = <<pendingFunctions_>>
    /\ pendingFunctions_' = <<>>
    /\ pc' = "run"
    /\ UNCHANGED <<looping_, quit_, wakeupfd_, activechannels_, caller>>
    /\ UNCHANGED history

\* Mutant: the functors are copied, not swapped.
DoPendingFunctors_Copy ==
    /\ pc = "handle"
    /\ activechannels_ = {}
    /\ callingPendingFunctors_' = TRUE
    /\ functors' = pendingFunctions_
    /\ pc' = "run"
    /\ UNCHANGED <<looping_, quit_, pendingFunctions_, wakeupfd_,
                   activechannels_, caller>>
    /\ UNCHANGED history

\* doPendingFunctors up to the swap, which is a critical section.  Only the
\* loop thread reads callingPendingFunctors_ (the test in queueInLoop is
\* short-circuited for every other thread).
DoPendingFunctors ==
    /\ pc = "handle"
    /\ activechannels_ = {}
    /\ callingPendingFunctors_' = TRUE
    /\ functors' = pendingFunctions_
    /\ pendingFunctions_' = <<>>
    /\ pc' = "run"
    /\ UNCHANGED <<looping_, quit_, wakeupfd_, activechannels_, caller>>
    /\ UNCHANGED history

\* Mutant: the newest functor of the batch is called first.
RunFunctor_Newest ==
    /\ pc = "run"
    /\ functors # <<>>
    /\ executed' = Append(executed, functors[Len(functors)])
    /\ functors' = SubSeq(functors, 1, Len(functors) - 1)
    /\ pc' = "functor"
    /\ UNCHANGED <<looping_, quit_, callingPendingFunctors_, pendingFunctions_,
                   wakeupfd_, activechannels_, caller, queued, inlined, early>>

\* The loop over functors calls the next one.
RunFunctor ==
    /\ pc = "run"
    /\ functors # <<>>
    /\ executed' = Append(executed, Head(functors))
    /\ functors' = Tail(functors)
    /\ pc' = "functor"
    /\ UNCHANGED <<looping_, quit_, callingPendingFunctors_, pendingFunctions_,
                   wakeupfd_, activechannels_, caller, queued, inlined, early>>

\* The end of doPendingFunctors.
EndPendingFunctors ==
    /\ pc = "run"
    /\ functors = <<>>
    /\ callingPendingFunctors_' = FALSE
    /\ pc' = "check"
    /\ UNCHANGED <<looping_, quit_, pendingFunctions_, functors, wakeupfd_,
                   activechannels_, caller>>
    /\ UNCHANGED history

\* A callback or a functor of the user returns.
UserReturns ==
    /\ \/ pc = "io" /\ pc' = "handle"
       \/ pc = "functor" /\ pc' = "run"
    /\ UNCHANGED <<looping_, quit_, callingPendingFunctors_, pendingFunctions_,
                   functors, wakeupfd_, activechannels_, caller>>
    /\ UNCHANGED history

-----------------------------------------------------------------------------
(* What user code in the loop thread may call.                             *)

\* Mutant: callingPendingFunctors_ is not looked at.
OwnerQueueInLoop_NoWakeup(t) ==
    /\ pc \in UserCode
    /\ t \notin Submitted
    /\ pendingFunctions_' = Append(pendingFunctions_, t)
    /\ queued' = Append(queued, t)
    /\ early' = IF pc = "init" THEN early \cup {t} ELSE early
    /\ UNCHANGED <<looping_, quit_, callingPendingFunctors_, functors, wakeupfd_,
                   activechannels_, pc, caller, executed, inlined>>

\* queueInLoop in the loop thread: a wakeup() only while functors run.
OwnerQueueInLoop(t) ==
    /\ pc \in UserCode
    /\ t \notin Submitted
    /\ pendingFunctions_' = Append(pendingFunctions_, t)
    /\ wakeupfd_' = (wakeupfd_ \/ callingPendingFunctors_)
    /\ queued' = Append(queued, t)
    /\ early' = IF pc = "init" THEN early \cup {t} ELSE early
    /\ UNCHANGED <<looping_, quit_, callingPendingFunctors_, functors,
                   activechannels_, pc, caller, executed, inlined>>

\* runInLoop in the loop thread calls the functor at once.
OwnerRunInLoop(t) ==
    /\ pc \in UserCode
    /\ t \notin Submitted
    /\ inlined' = inlined \cup {t}
    /\ UNCHANGED <<queued, executed, early>>
    /\ UNCHANGED state

\* quit() in the loop thread: no wakeup().
OwnerQuit ==
    /\ pc \in UserCode
    /\ quit_' = TRUE
    /\ UNCHANGED <<looping_, callingPendingFunctors_, pendingFunctions_,
                   functors, wakeupfd_, activechannels_, pc, caller>>
    /\ UNCHANGED history

-----------------------------------------------------------------------------
(* What the other threads may call.                                        *)

\* Mutant: no wakeup() after the push.
QueueInLoop_NoWakeup(th, t) ==
    /\ caller[th] = "idle"
    /\ t \notin Submitted
    /\ pendingFunctions_' = Append(pendingFunctions_, t)
    /\ queued' = Append(queued, t)
    /\ UNCHANGED <<looping_, quit_, callingPendingFunctors_, functors, caller,
                   wakeupfd_, activechannels_, pc, executed, inlined, early>>

\* runInLoop or queueInLoop in another thread, up to the end of the
\* critical section; the wakeup() is still to come.
QueueInLoop(th, t) ==
    /\ caller[th] = "idle"
    /\ t \notin Submitted
    /\ pendingFunctions_' = Append(pendingFunctions_, t)
    /\ caller' = [caller EXCEPT ![th] = "wake"]
    /\ queued' = Append(queued, t)
    /\ UNCHANGED <<looping_, quit_, callingPendingFunctors_, functors,
                   wakeupfd_, activechannels_, pc, executed, inlined, early>>

\* Mutant: no wakeup() after the store.
Quit_NoWakeup(th) ==
    /\ caller[th] = "idle"
    /\ quit_' = TRUE
    /\ UNCHANGED <<looping_, callingPendingFunctors_, pendingFunctions_,
                   functors, wakeupfd_, activechannels_, pc, caller>>
    /\ UNCHANGED history

\* quit() in another thread: the store; the wakeup() is still to come.
Quit(th) ==
    /\ caller[th] = "idle"
    /\ quit_' = TRUE
    /\ caller' = [caller EXCEPT ![th] = "wake"]
    /\ UNCHANGED <<looping_, callingPendingFunctors_, pendingFunctions_,
                   functors, wakeupfd_, activechannels_, pc>>
    /\ UNCHANGED history

\* wakeup(): the write to the eventfd.
Wakeup(th) ==
    /\ caller[th] = "wake"
    /\ wakeupfd_' = TRUE
    /\ caller' = [caller EXCEPT ![th] = "idle"]
    /\ UNCHANGED <<looping_, quit_, callingPendingFunctors_, pendingFunctions_,
                   functors, activechannels_, pc>>
    /\ UNCHANGED history

-----------------------------------------------------------------------------
\* What the loop thread does without the help of anyone else.
LoopStep ==
    \/ Loop
    \/ CheckQuit
    \/ wakeupfd_ /\ \E ready \in SUBSET Channels : Poll(ready)
    \/ HandleRead
    \/ HandleIO
    \/ DoPendingFunctors
    \/ RunFunctor
    \/ EndPendingFunctors
    \/ UserReturns

Next ==
    \/ LoopStep
    \/ ~wakeupfd_ /\ \E ready \in SUBSET Channels : Poll(ready)
    \/ \E t \in Tasks : OwnerQueueInLoop(t) \/ OwnerRunInLoop(t)
    \/ OwnerQuit
    \/ \E th \in Threads :
          \/ \E t \in Tasks : QueueInLoop(th, t)
          \/ Quit(th)
          \/ Wakeup(th)

Spec == Init /\ [][Next]_vars

\* The loop thread is scheduled, the user's callbacks return, and a thread
\* inside quit() or queueInLoop() gets to its wakeup().  Poll with a zero
\* counter is not in LoopStep: no liveness rests on traffic or on the ten
\* seconds of KPollTimeMs.
Fairness ==
    /\ WF_vars(LoopStep)
    /\ \A th \in Threads : WF_vars(Wakeup(th))

FairSpec == Spec /\ Fairness

-----------------------------------------------------------------------------
TypeOK ==
    /\ looping_ \in BOOLEAN
    /\ quit_ \in BOOLEAN
    /\ callingPendingFunctors_ \in BOOLEAN
    /\ pendingFunctions_ \in Seq(Tasks)
    /\ functors \in Seq(Tasks)
    /\ wakeupfd_ \in BOOLEAN
    /\ activechannels_ \in SUBSET Channels
    /\ pc \in LoopPc
    /\ caller \in [Threads -> {"idle", "wake"}]
    /\ queued \in Seq(Tasks)
    /\ executed \in Seq(Tasks)
    /\ inlined \in SUBSET Tasks
    /\ early \in SUBSET Tasks

\* A wakeup is pending: the eventfd is readable, or a caller is about to
\* write to it.
WakeupComing == wakeupfd_ \/ \E th \in Threads : caller[th] = "wake"

\* Functors wait that were handed over since loop() was called, or that
\* another thread handed over.
LateWork == \E t \in Range(pendingFunctions_) : t \notin early

(* The loop thread never sleeps on work: when it is in epoll_wait and      *)
(* somebody has asked for quit or handed over a functor, a wakeup is on    *)
(* its way.  Functors that the loop thread itself queued before loop() are *)
(* left out: queueInLoop (Eventloop.cpp:94) wakes nobody for them.         *)
NoSleepOnWork == pc = "poll" /\ (quit_ \/ LateWork) => WakeupComing

(* handleRead never finds the eventfd empty, so the LOG_ERROR after its    *)
(* read() (Eventloop.cpp:127) is for system errors only.                   *)
NoEmptyRead == "wakeup" \in activechannels_ => wakeupfd_

\* Why NoSleepOnWork holds: a functor pushed at any point but between the
\* return of poll and the swap comes with a wakeup that outlives the push.
LoopInv ==
    /\ TypeOK
    /\ looping_ <=> pc \notin {"init", "done"}
    /\ callingPendingFunctors_ <=> pc \in {"run", "functor"}
    /\ pc \notin {"run", "functor"} => functors = <<>>
    /\ pc \notin {"handle", "io"} => activechannels_ = {}
    /\ pc \notin {"handle", "io", "done"} /\ LateWork => WakeupComing
    /\ pc = "poll" /\ quit_ => WakeupComing
    /\ NoEmptyRead

\* The loop thread implements the serial executor.
Executor == INSTANCE SerialExecutor WITH accepted <- queued,
                backlog <- functors \o pendingFunctions_, ran <- executed

(* Every functor handed to queueInLoop is run once and in order: what the  *)
(* swap of doPendingFunctors must not break however pushes fall around it. *)
ImplementsExecutor == Executor!Spec

(* The state behind it: what was run, the rest of the batch, and what      *)
(* waits under m_mutex are together what was pushed, in the same order.    *)
RunInOrder == Executor!Fifo

(* A functor handed over by another thread, or by the loop thread once it  *)
(* loops, is run unless the loop ends first; nobody needs the poll to time *)
(* out or traffic to arrive.                                               *)
EventuallyRun ==
    \A t \in Tasks :
        t \in Range(queued) \ early ~> (t \in Range(executed) \/ pc = "done")

(* A quit() that finds the loop running ends it.                           *)
QuitEndsLoop == (quit_ /\ looping_) ~> pc = "done"
=============================================================================
