------------------------------ MODULE TimerQueue ------------------------------
(***************************************************************************)
(* class TimerQueue (resoure/TimerQueue.cpp) with Timer, TimerId and       *)
(* Timestamp: the timers of one loop, added and cancelled by the loop's    *)
(* own thread (between two events, or from a timer's callback) and by      *)
(* other threads, whose calls arrive as functors.                          *)
(*                                                                         *)
(* Time is counted in the microseconds of the timerfd.  Timestamp::now()   *)
(* is a number of seconds, to which addTime adds a number of microseconds; *)
(* the model keeps the two units apart and scales the second down.         *)
(* A Timer* is a number: std::set orders entries by time, then by address, *)
(* and the heap may hand out a freed address again.                        *)
(***************************************************************************)
EXTENDS Integers, FiniteSets, Sequences, FiniteSetsExt

CONSTANTS Threads,        \* the threads that add and cancel timers
          LoopThread,     \* the loop's own, one of them
          Addr,           \* addresses new Timer may return
          RunAtTimes,     \* arguments of runAt
          Delays,         \* arguments of runAfter, in microseconds
          Intervals,      \* arguments of runEvery, in microseconds
          MicroSecondsPerSecond,
          MinDelay,       \* the 100 microseconds of howMuchTimeFromNow
          Epoch,          \* the time, in seconds, when the loop starts
          MaxTimers,      \* bound: timers created
          MaxClock,       \* bound: microseconds that pass
          MaxFunctors     \* bound: functors that wait

ASSUME ThreadAssumption == LoopThread \in Threads
ASSUME AddrAssumption == Addr \subseteq Nat \ {0} /\ IsFiniteSet(Addr)
ASSUME TimeAssumption ==
    /\ RunAtTimes \cup Delays \cup Intervals \subseteq Nat
    /\ MicroSecondsPerSecond \in Nat \ {0}
    /\ MinDelay \in Nat \ {0}
ASSUME BoundAssumption ==
    {MaxTimers, MaxClock, MaxFunctors} \subseteq Nat /\ Epoch \in Nat \ {0}

VARIABLES
    clock,                \* the real time, in microseconds
    s_numCreated,         \* Timer::s_numCreated
    heap,                 \* the Timer at each address, or NoTimer
    timers_,              \* set of Entry: <<expiration, address>>
    activeTimers_,        \* set of ActiveTimer: <<address, sequence>>
    caneclingTimers_,     \* set of ActiveTimer
    callingExpiredTimers_,
    alarm,                \* when the timerfd becomes readable, 0: disarmed
    pc,                   \* idle; polled: handleRead is due in this iteration;
                          \* calling: in handleRead; aborted; gone
    readAt,               \* its now
    expired, torun,       \* its batch, and the entries not yet called
    functors,             \* calls of the other threads, pending in the loop
    adding,               \* how far each thread is in addTimer, with its timer
    armedAt,              \* history: when that alarm was set, 0: disarmed
    issued,               \* history: the TimerIds that addTimer returned
    dead                  \* history: the timers that a cancel() found

queueVars == <<timers_, activeTimers_, caneclingTimers_, callingExpiredTimers_>>
handlerVars == <<pc, readAt, expired, torun>>
timerfd == <<alarm, armedAt>>
vars == <<clock, s_numCreated, heap, timers_, activeTimers_, caneclingTimers_,
          callingExpiredTimers_, alarm, pc, readAt, expired, torun, functors, adding,
          armedAt, issued, dead>>

\* Timestamp::now, when the real time is t.
Now(t) == t \div MicroSecondsPerSecond

\* Timestamp::addTime
addTime(timestamp, delta) == timestamp + delta

\* uid identifies the timer for ever: it is history and no guard reads it.
Timer(uid, seq, when, interval) ==
    [uid |-> uid, sequence |-> seq, expiration |-> when, interval |-> interval]
NoTimer == Timer(0, 0, 0, 0)

\* The TimerId that addTimer returns for its timer u, when it reads the
\* number n at address a.  uid and late are history: late says that the timer
\* was deleted before its number was read.
TimerId(a, n, u) ==
    [timer_ |-> a, sequence_ |-> n, uid |-> u, late |-> heap[a].uid # u]

\* A thread in addTimer: the step it takes next, the Timer and its uid.
Adding(step, a, u) == [step |-> step, timer_ |-> a, uid |-> u]
NotAdding == Adding("none", 0, 0)

\* Timer::repeat_: set by the constructor from when, not from the interval.
Repeat(t) == t.expiration > 0

\* Timer::restart
Restart(t, now) == [t EXCEPT !.expiration = addTime(now, t.interval)]

\* std::pair's operator<
Less(e, f) == e[1] < f[1] \/ (e[1] = f[1] /\ e[2] < f[2])
Times(S) == {e[1] : e \in S}

Init ==
    /\ clock = Epoch * MicroSecondsPerSecond
    /\ s_numCreated = 0
    /\ heap = [a \in Addr |-> NoTimer]
    /\ timers_ = {}
    /\ activeTimers_ = {}
    /\ caneclingTimers_ = {}
    /\ callingExpiredTimers_ = FALSE
    /\ alarm = 0
    /\ pc = "idle"
    /\ readAt = 0
    /\ expired = {}
    /\ torun = {}
    /\ functors = <<>>
    /\ adding = [t \in Threads |-> NotAdding]
    /\ armedAt = 0
    /\ issued = {}
    /\ dead = {}

Running == pc \notin {"aborted", "gone"}

Tick ==
    /\ Running
    /\ clock < Epoch * MicroSecondsPerSecond + MaxClock
    /\ clock' = clock + 1
    /\ UNCHANGED <<s_numCreated, heap, queueVars, timerfd, handlerVars, functors, adding,
                   issued, dead>>

\* The loop's thread is not inside addTimer.
LoopIsFree == adding[LoopThread].step = "none"

\* It runs user code: between two events, or in a callback.
InUserCode ==
    LoopIsFree /\ (pc \in {"idle", "polled"} \/ (pc = "calling" /\ torun # expired))

-----------------------------------------------------------------------------
(* Adding a timer.                                                         *)

\* How long before the alarm, when the timerfd is armed at the real time t.
howMuchTimeFromNow(t, when) == Max({MinDelay, when - Now(t)})

resetTimerfd(when) ==
    /\ alarm' = clock + howMuchTimeFromNow(clock, when)
    /\ armedAt' = clock

\* Mutant: insert looks at the end of timers_ instead of its beginning.
IsEarliest_Last(when) == timers_ = {}
\* insert: ear
IsEarliest(when) == \A e \in timers_ : when < e[1]

\* Mutant: the timer is not entered into activeTimers_.
AddTimerInLoop_NotActive(a, t) ==
    /\ timers_' = timers_ \cup {<<t.expiration, a>>}
    /\ IF IsEarliest(t.expiration) THEN resetTimerfd(t.expiration) ELSE UNCHANGED timerfd
    /\ UNCHANGED activeTimers_

\* addTimerInLoop, insert
AddTimerInLoop(a, t) ==
    /\ timers_' = timers_ \cup {<<t.expiration, a>>}
    /\ activeTimers_' = activeTimers_ \cup {<<a, t.sequence>>}
    /\ IF IsEarliest(t.expiration) THEN resetTimerfd(t.expiration) ELSE UNCHANGED timerfd

\* What runAt and runAfter (interval 0) and runEvery pass to addTimer.
Requests ==
    [when : RunAtTimes \cup {addTime(Now(clock), d) : d \in Delays}, interval : {0}]
    \cup {[when |-> addTime(Now(clock), d), interval |-> d] : d \in Intervals}

\* new Timer may return any free address.  Bound: one address stays free,
\* for the Timer of getExpired.
Allocate(a) ==
    /\ s_numCreated < MaxTimers
    /\ heap[a] = NoTimer
    /\ \E b \in Addr \ {a} : heap[b] = NoTimer

\* addTimer: new Timer, up to the first of the two atomic operations of its
\* constructor on the counter.
ConstructTimer(t, a, r) ==
    /\ Running
    /\ adding[t].step = "none"
    /\ t = LoopThread => InUserCode
    /\ Allocate(a)
    /\ s_numCreated' = s_numCreated + 1
    /\ heap' = [heap EXCEPT ![a] = Timer(s_numCreated + 1, 0, r.when, r.interval)]
    /\ adding' = [adding EXCEPT ![t] = Adding("load", a, s_numCreated + 1)]
    /\ UNCHANGED <<clock, queueVars, timerfd, handlerVars, functors, issued, dead>>

\* Mutant: the constructor forgets the sequence number.
SequenceNumber_Zero(n) == 0
\* Mutant: the sequence number is taken from the next timer.
SequenceNumber_Next(n) == n + 1
\* What the constructor makes of the counter.
SequenceNumber(n) == n

\* The second operation, which other constructors may have overtaken.
LoadSequence(t) ==
    /\ Running
    /\ adding[t].step = "load"
    /\ heap' = [heap EXCEPT ![adding[t].timer_].sequence = SequenceNumber(s_numCreated)]
    /\ adding' = [adding EXCEPT ![t].step = "push"]
    /\ UNCHANGED <<clock, s_numCreated, queueVars, timerfd, handlerVars, functors, issued, dead>>

\* The rest of addTimer in the loop's thread: runInLoop calls addTimerInLoop
\* at once, and nothing comes between that and the return.
AddTimer ==
    LET a == adding[LoopThread].timer_ IN
    /\ Running
    /\ adding[LoopThread].step = "push"
    /\ AddTimerInLoop(a, heap[a])
    /\ issued' = issued \cup {TimerId(a, heap[a].sequence, adding[LoopThread].uid)}
    /\ adding' = [adding EXCEPT ![LoopThread] = NotAdding]
    /\ UNCHANGED <<clock, s_numCreated, heap, caneclingTimers_, callingExpiredTimers_,
                   handlerVars, functors, dead>>

\* The rest of it in another thread, up to the push of the functor.
QueueTimer(t) ==
    /\ Running
    /\ t # LoopThread
    /\ adding[t].step = "push"
    /\ Len(functors) < MaxFunctors
    /\ functors' = Append(functors, [op |-> "add", timer |-> adding[t].timer_])
    /\ adding' = [adding EXCEPT ![t].step = "return"]
    /\ UNCHANGED <<clock, s_numCreated, heap, queueVars, timerfd, handlerVars, issued, dead>>

\* What timer->sequence() reads when it is called after that: the loop's
\* thread may have inserted, run and deleted the Timer by then, so that any
\* number, or another Timer, may be found at the address.
SequenceAt(a) == IF heap[a] = NoTimer THEN 0 .. MaxTimers ELSE {heap[a].sequence}

\* And the return.
ReturnTimerId(t) ==
    LET a == adding[t].timer_ IN
    /\ Running
    /\ adding[t].step = "return"
    /\ \E n \in SequenceAt(a) : issued' = issued \cup {TimerId(a, n, adding[t].uid)}
    /\ adding' = [adding EXCEPT ![t] = NotAdding]
    /\ UNCHANGED <<clock, s_numCreated, heap, queueVars, timerfd, handlerVars, functors, dead>>

-----------------------------------------------------------------------------
(* Cancelling one.                                                         *)

\* cancelInLoop: activeTimers_.find(timer)
FoundActive(id) == <<id.timer_, id.sequence_>> \in activeTimers_

\* The timer of id is in the batch whose callbacks are being run.
InBatch(id) == heap[id.timer_].uid = id.uid /\ id.timer_ \in {e[2] : e \in expired}

\* cancelInLoop
CancelInLoop(id) ==
    LET a == id.timer_ IN
    /\ IF FoundActive(id)
       THEN /\ timers_' = timers_ \ {<<heap[a].expiration, a>>}
            /\ activeTimers_' = activeTimers_ \ {<<a, heap[a].sequence>>}
            /\ heap' = [heap EXCEPT ![a] = NoTimer]
            /\ UNCHANGED caneclingTimers_
       ELSE /\ caneclingTimers_' = IF callingExpiredTimers_
                                   THEN caneclingTimers_ \cup {<<a, id.sequence_>>}
                                   ELSE caneclingTimers_
            /\ UNCHANGED <<heap, timers_, activeTimers_>>
    /\ dead' = dead \cup (IF FoundActive(id) THEN {heap[a].uid} ELSE {})
                   \cup (IF InBatch(id) THEN {id.uid} ELSE {})
    /\ UNCHANGED callingExpiredTimers_

\* cancel in the loop's thread
Cancel(id) ==
    /\ InUserCode
    /\ CancelInLoop(id)
    /\ UNCHANGED <<clock, s_numCreated, timerfd, handlerVars, functors, adding, issued>>

\* cancel in another thread
QueueCancel(t, id) ==
    /\ Running
    /\ t # LoopThread
    /\ adding[t].step = "none"
    /\ Len(functors) < MaxFunctors
    /\ functors' = Append(functors, [op |-> "cancel", id |-> id])
    /\ UNCHANGED <<clock, s_numCreated, heap, queueVars, timerfd, handlerVars, adding, issued,
                   dead>>

\* The loop runs the first of its functors (Eventloop::doPendingFunctors).
RunFunctor ==
    /\ pc = "idle"
    /\ LoopIsFree
    /\ functors # <<>>
    /\ functors' = Tail(functors)
    /\ LET f == Head(functors) IN
       \/ /\ f.op = "add"
          /\ AddTimerInLoop(f.timer, heap[f.timer])
          /\ UNCHANGED <<heap, caneclingTimers_, callingExpiredTimers_, dead>>
       \/ /\ f.op = "cancel"
          /\ CancelInLoop(f.id)
          /\ UNCHANGED timerfd
    /\ UNCHANGED <<clock, s_numCreated, handlerVars, adding, issued>>

-----------------------------------------------------------------------------
(* The alarm.                                                              *)

AlarmFired == alarm # 0 /\ alarm <= clock

\* The poller reports the timerfd; the handlers of other channels may still
\* run before handleRead does.
Poll ==
    /\ pc = "idle"
    /\ LoopIsFree
    /\ AlarmFired
    /\ pc' = "polled"
    /\ UNCHANGED <<clock, s_numCreated, heap, queueVars, timerfd, readAt, expired, torun, functors,
                   adding, issued, dead>>

\* getExpired: the entries from lower_bound(Entry(now, newtimer)) on.
FromLowerBound(now, newtimer) == {e \in timers_ : ~Less(e, <<now, newtimer>>)}

\* getExpired: every entry up to the time of that bound.  end() has no time:
\* what the build reads there is the number of nodes of the set.
Expired(now, newtimer) ==
    LET rest == FromLowerBound(now, newtimer)
        last == IF rest = {} THEN Cardinality(timers_) ELSE Min(Times(rest))
    IN {e \in timers_ : e[1] <= last}

\* The assertion of getExpired: end == timers_.end() || now < end->first.
AssertBeforeEnd(now, newtimer) == \A e \in FromLowerBound(now, newtimer) : now < e[1]

\* readTimerfd: finds nothing to read when a handler of this iteration has
\* armed the timerfd anew, and only logs that.
readTimerfd == IF AlarmFired THEN alarm' = 0 /\ armedAt' = 0 ELSE UNCHANGED timerfd

\* handleRead up to the first callback.
HandleRead ==
    \E newtimer \in {a \in Addr : heap[a] = NoTimer} :
    LET now == Now(clock)
        batch == Expired(now, newtimer) IN
    /\ pc = "polled"
    /\ LoopIsFree
    /\ readTimerfd
    /\ readAt' = now
    /\ IF AssertBeforeEnd(now, newtimer)
       THEN /\ pc' = "calling"
            /\ expired' = batch
            /\ torun' = batch
            /\ timers_' = timers_ \ batch
            /\ activeTimers_' = activeTimers_ \ {<<e[2], heap[e[2]].sequence>> : e \in batch}
            /\ callingExpiredTimers_' = TRUE
            /\ caneclingTimers_' = {}
       ELSE pc' = "aborted" /\ UNCHANGED <<expired, torun, queueVars>>
    /\ UNCHANGED <<clock, s_numCreated, heap, functors, adding, issued, dead>>

\* handleRead: it.second->run(), in the order of the set.
RunCallback ==
    /\ pc = "calling"
    /\ LoopIsFree
    /\ \E e \in torun : /\ \A f \in torun : ~Less(f, e)
                        /\ torun' = torun \ {e}
    /\ UNCHANGED <<clock, s_numCreated, heap, queueVars, timerfd, pc, readAt, expired, functors,
                   adding, issued, dead>>

\* Mutant: reset does not look at the timers cancelled by the callbacks.
Restarted_Cancelled == {e \in expired : Repeat(heap[e[2]])}
\* reset: the entries that are inserted again; the other timers are deleted.
Restarted ==
    {e \in expired : /\ Repeat(heap[e[2]])
                     /\ <<e[2], heap[e[2]].sequence>> \notin caneclingTimers_}

\* handleRead after the last callback, with reset.
Reset ==
    LET again == {e[2] : e \in Restarted}
        batch == {e[2] : e \in expired} IN
    /\ pc = "calling"
    /\ LoopIsFree
    /\ torun = {}
    /\ heap' = [a \in Addr |-> IF a \in again THEN Restart(heap[a], readAt)
                               ELSE IF a \in batch THEN NoTimer ELSE heap[a]]
    /\ timers_' = timers_ \cup {<<heap'[a].expiration, a>> : a \in again}
    /\ activeTimers_' = activeTimers_ \cup {<<a, heap[a].sequence>> : a \in again}
    /\ callingExpiredTimers_' = FALSE
    /\ IF timers_' # {} /\ Min(Times(timers_')) > 0
       THEN resetTimerfd(Min(Times(timers_'))) ELSE UNCHANGED timerfd
    /\ expired' = {}
    /\ readAt' = 0
    /\ pc' = "idle"
    /\ UNCHANGED <<clock, s_numCreated, caneclingTimers_, torun, functors, adding,
                   issued, dead>>

\* ~TimerQueue: deletes the timers it holds; functors that wait are not run.
Destroy ==
    /\ pc = "idle"
    /\ LoopIsFree
    /\ pc' = "gone"
    /\ heap' = [a \in Addr |-> IF a \in {e[2] : e \in timers_} THEN NoTimer ELSE heap[a]]
    /\ timers_' = {}
    /\ activeTimers_' = {}
    /\ alarm' = 0
    /\ armedAt' = 0
    /\ UNCHANGED <<clock, s_numCreated, caneclingTimers_, callingExpiredTimers_, readAt, expired,
                   torun, functors, adding, issued, dead>>

Next ==
    \/ Tick
    \/ \E t \in Threads, a \in Addr, r \in Requests : ConstructTimer(t, a, r)
    \/ \E t \in Threads : LoadSequence(t)
    \/ AddTimer
    \/ \E t \in Threads : QueueTimer(t)
    \/ \E t \in Threads : ReturnTimerId(t)
    \/ \E id \in issued : Cancel(id)
    \/ \E t \in Threads, id \in issued : QueueCancel(t, id)
    \/ RunFunctor
    \/ Poll
    \/ HandleRead
    \/ RunCallback
    \/ Reset
    \/ Destroy

Spec == Init /\ [][Next]_vars

-----------------------------------------------------------------------------
(* Properties.                                                             *)

TimerType == [uid : 0..MaxTimers, sequence : 0..MaxTimers, expiration : Nat, interval : Nat]
IdType == [timer_ : Addr, sequence_ : Nat, uid : 1..MaxTimers, late : BOOLEAN]
EntryType == Nat \X Addr
ActiveType == Addr \X Nat
FunctorType == [op : {"add"}, timer : Addr] \cup [op : {"cancel"}, id : IdType]
AddingType == [step : {"none", "load", "push", "return"}, timer_ : Addr \cup {0},
               uid : 0..MaxTimers]

\* Every variable has its type; what waits in a loop's queue is the add of a
\* Timer or the cancel of a TimerId.
TypeOK ==
    /\ clock \in Nat
    /\ s_numCreated \in 0..MaxTimers
    /\ heap \in [Addr -> TimerType]
    /\ timers_ \subseteq EntryType
    /\ activeTimers_ \subseteq ActiveType
    /\ caneclingTimers_ \subseteq ActiveType
    /\ callingExpiredTimers_ \in BOOLEAN
    /\ alarm \in Nat
    /\ pc \in {"idle", "polled", "calling", "aborted", "gone"}
    /\ readAt \in Nat
    /\ expired \subseteq EntryType
    /\ torun \subseteq expired
    /\ functors \in Seq(FunctorType)
    /\ adding \in [Threads -> AddingType]
    /\ armedAt \in Nat
    /\ issued \subseteq IdType
    /\ dead \subseteq 1..MaxTimers

\* Timers that wait in a functor for their insertion.
Waiting == {functors[i].timer : i \in {j \in DOMAIN functors : functors[j].op = "add"}}

\* timers_ and activeTimers_ always hold the same timers, each one under the
\* expiration and the sequence number it has now, each one alive, and none
\* of them in the batch or in a functor as well: no assertion of insert,
\* getExpired and cancelInLoop on the two sets fails (TimerQueue.cpp:121,
\* 129, 134, 137, 144, 164, 213, 219, 228), the loop's thread uses no
\* deleted Timer and deletes none twice.  (Another thread may read one:
\* ReturnTimerId.)
SetsAgree ==
    LET active == {x[1] : x \in activeTimers_}
        batch == {e[2] : e \in expired} IN
    /\ timers_ = {<<heap[a].expiration, a>> : a \in active}
    /\ activeTimers_ = {<<a, heap[a].sequence>> : a \in active}
    /\ \A a \in active \cup batch \cup Waiting : heap[a] # NoTimer \/ pc = "gone"
    /\ active \cap batch = {} /\ (active \cup batch) \cap Waiting = {}

\* A TimerId whose number was read while its timer existed never takes effect
\* on another timer, although addresses are used again and two timers may
\* get the same sequence number (Timer.h:31, TimerQueue.cpp:215).  One that
\* addTimer read late (TimerQueue.cpp:101) may name any timer.
IdNamesItsTimer ==
    \A id \in issued : ~id.late /\ FoundActive(id) => heap[id.timer_].uid = id.uid

\* A timer that cancel() found, in the queue or in the batch being called,
\* is deleted when the batch is over at the latest: it is not restarted and
\* does not leak, and it is called at most once more, by that batch
\* (TimerQueue.cpp:175, 221, 226).
CancelledIsGone ==
    ~callingExpiredTimers_ => \A a \in Addr : heap[a].uid \notin dead

\* Outside of handleRead a queue with timers has an alarm, and it is no later
\* than the timer that is first now asked for when the timerfd was armed last:
\* no cancel, callback, or read of the timerfd in the iteration that armed it
\* leaves timers without an alarm, or with one set for a later timer
\* (TimerQueue.cpp:49, 111, 189).  It does not say that a timer is called
\* when its delay is over: each new arming counts from the clock of then.
AlarmForFirst ==
    pc \in {"idle", "polled"} /\ timers_ # {} =>
       /\ alarm # 0
       /\ alarm <= armedAt + howMuchTimeFromNow(armedAt, Min(Times(timers_)))

\* "assert(end == timers_.end() || now < end->first)" (TimerQueue.cpp:152):
\* getExpired never finds a timer whose time is the current second, on the
\* wrong side of the Timer it compares with.
BoundIsAfterNow == pc # "aborted"
=============================================================================
