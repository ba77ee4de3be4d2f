--------------------------- MODULE TimerQueueProofs ---------------------------
(***************************************************************************)
(* Proofs about TimerQueue, for any threads, addresses, times, delays and  *)
(* intervals, any number of timers and functors, and a second of any       *)
(* length: the types, that the two sets agree, that a TimerId whose number *)
(* was not read late reaches no other timer than its own, that a cancelled *)
(* timer is deleted, and that the alarm of a loop that may sleep was set   *)
(* for the timer that is first, or for one before it.                      *)
(***************************************************************************)
EXTENDS TimerQueue, FiniteSetTheorems, TLAPS

-----------------------------------------------------------------------------
(* The inductive invariant.                                                *)

\* The four places of a Timer: in the hands of the thread that adds it, a
\* functor, the queue, the batch of handleRead.
Loading(a) == \E t \in Threads : adding[t].step = "load" /\ adding[t].timer_ = a
Building(a) ==
    \E t \in Threads : adding[t].step \in {"load", "push"} /\ adding[t].timer_ = a
InQueue(a) == <<a, heap[a].sequence>> \in activeTimers_
Called(a) == \E e \in expired : e[2] = a
Inserts(i, a) == functors[i].op = "add" /\ functors[i].timer = a
Queued(a) == \E i \in DOMAIN functors : Inserts(i, a)

\* A batch exists while handleRead calls it, and its time is not 0.
Phases ==
    /\ callingExpiredTimers_ = (pc = "calling")
    /\ pc # "calling" => expired = {}
    /\ pc = "calling" => readAt > 0
    /\ clock >= MicroSecondsPerSecond

\* The two sets hold the same timers under their present keys.
Agree ==
    /\ \A e \in timers_ : e[1] = heap[e[2]].expiration
    /\ \A x \in activeTimers_ : x[2] = heap[x[1]].sequence
    /\ \A a \in Addr : <<heap[a].expiration, a>> \in timers_ <=> InQueue(a)

\* What is in a place, or under construction, is alive, and in no other.
OnePlace ==
    /\ \A a \in Addr :
         /\ InQueue(a) \/ Called(a) \/ Queued(a) => heap[a].uid # 0
         /\ ~(InQueue(a) /\ Called(a))
         /\ ~(InQueue(a) /\ Queued(a))
         /\ ~(Called(a) /\ Queued(a))
         /\ Building(a) => ~InQueue(a) /\ ~Called(a) /\ ~Queued(a)
    /\ \A i, j \in DOMAIN functors, a \in Addr : Inserts(i, a) /\ Inserts(j, a) => i = j

\* A thread in addTimer has a timer of its own, which exists at least until
\* it is in a functor.
Adds ==
    /\ \A t \in Threads :
          /\ adding[t].step # "none" =>
                adding[t].timer_ \in Addr /\ adding[t].uid # 0 /\ adding[t].uid <= s_numCreated
          /\ adding[t].step \in {"load", "push"} => heap[adding[t].timer_].uid = adding[t].uid
    /\ \A t, u \in Threads :
          adding[t].step # "none" /\ adding[u].step # "none" /\ adding[t].uid = adding[u].uid
             => t = u

\* The counter has passed every number in use; a sequence number is never
\* less than the number of the construction, though it may be greater.
Numbers ==
    /\ \A a \in Addr : /\ heap[a].uid <= s_numCreated
                       /\ heap[a].sequence <= s_numCreated
                       /\ heap[a].uid = 0 => heap[a] = NoTimer
                       /\ heap[a].uid # 0 /\ ~Loading(a) => heap[a].sequence >= heap[a].uid
    /\ \A a, b \in Addr : heap[a].uid = heap[b].uid /\ heap[a].uid # 0 => a = b

\* A TimerId that was not read late has the sequence number of its timer;
\* when its address is used again, the new timer was constructed after that
\* number was drawn.  The timer of one that was read late is gone.
Ids ==
    \A id \in issued :
        /\ id.uid <= s_numCreated
        /\ heap[id.timer_].uid = id.uid =>
              ~id.late /\ heap[id.timer_].sequence = id.sequence_ /\ ~Building(id.timer_)
        /\ ~id.late => id.sequence_ <= s_numCreated
        /\ ~id.late /\ heap[id.timer_].uid # 0 /\ heap[id.timer_].uid # id.uid =>
              id.sequence_ < heap[id.timer_].uid

\* A cancel that waits in a functor has a TimerId that was returned.
FunctorIds == \A i \in DOMAIN functors : functors[i].op = "cancel" => functors[i].id \in issued

\* A cancelled timer that is still there is in the batch, marked.
Dead ==
    /\ \A u \in dead : u <= s_numCreated
    /\ \A a \in Addr : heap[a].uid \in dead =>
          Called(a) /\ <<a, heap[a].sequence>> \in caneclingTimers_

\* The alarm is set, and no later than a timer due at w asked for when it
\* was.
ArmedFor(w) == alarm # 0 /\ alarm <= armedAt + howMuchTimeFromNow(armedAt, w)

\* Each timer has its alarm.  During the batch this holds of those due at 0,
\* after which reset arms nothing.
Armed ==
    /\ pc \in {"idle", "polled"} => \A e \in timers_ : ArmedFor(e[1])
    /\ pc = "calling" => \A e \in timers_ : e[1] = 0 => ArmedFor(0)

QueueInv ==
    /\ TypeOK
    /\ Phases
    /\ Agree
    /\ OnePlace
    /\ Adds
    /\ Numbers
    /\ Ids
    /\ FunctorIds
    /\ Dead
    /\ Armed

-----------------------------------------------------------------------------
(* Operators.                                                              *)

\* The natural numbers are well ordered: Min is a minimum.
LEMMA NatHasMin ==
    ASSUME NEW S \in SUBSET Nat, S # {}
    PROVE  Min(S) \in S /\ \A x \in S : Min(S) <= x
<1> DEFINE T == {0..n : n \in S}
           R == StrictSubsetOrdering(Nat)
           F == FiniteSubsetsOf(Nat)
<1>1. IsWellFoundedOn(R, F)
  BY FS_StrictSubsetOrderingWellFounded, Zenon
<1>2. T \subseteq F /\ T # {}
  <2>1. \A n \in S : IsFiniteSet(0..n) /\ 0..n \subseteq Nat
    BY FS_Interval
  <2> QED
    BY <2>1 DEF FiniteSubsetsOf
<1> HIDE DEF T, R, F
<1>3. PICK t \in T : \A u \in T : ~(<<u, t>> \in R)
  BY <1>1, <1>2, WFMin, Zenon
<1>4. PICK m \in S : t = 0..m
  BY DEF T
<1>5. \A x \in S : m <= x
  <2> SUFFICES ASSUME NEW x \in S, x < m PROVE FALSE
    OBVIOUS
  <2>1. 0..x \in T /\ 0..x \subseteq 0..m /\ 0..x # 0..m
    <3>1. m \in 0..m /\ m \notin 0..x
      OBVIOUS
    <3> QED
      BY <3>1 DEF T
  <2>2. <<0..x, 0..m>> \in R
    BY <2>1 DEF R, StrictSubsetOrdering
  <2> QED
    BY <2>1, <2>2, <1>3, <1>4
<1> QED
  BY <1>5 DEF Min

\* std::max of two numbers.
LEMMA MaxOfTwo ==
    ASSUME NEW x \in Int, NEW y \in Int
    PROVE  /\ Max({x, y}) \in {x, y}
           /\ Max({x, y}) >= x
           /\ Max({x, y}) >= y
BY DEF Max

\* Timestamp::now is a time, not 0 once a second has passed, and moves on by
\* at most one while the clock does.
LEMMA NowType ==
    ASSUME NEW t \in Nat
    PROVE  /\ Now(t) \in Nat
           /\ t >= MicroSecondsPerSecond => Now(t) > 0
           /\ Now(t) <= Now(t + 1)
           /\ Now(t + 1) <= Now(t) + 1
BY TimeAssumption DEF Now

\* The time to an alarm is not 0, and no shorter for a later timer.
LEMMA HowMuchFacts ==
    ASSUME NEW c \in Nat
    PROVE  /\ \A w \in Nat : howMuchTimeFromNow(c, w) \in Nat \ {0}
           /\ \A v, w \in Nat : v <= w => howMuchTimeFromNow(c, v) <= howMuchTimeFromNow(c, w)
<1> DEFINE n == Now(c)
           h(w) == howMuchTimeFromNow(c, w)
<1>1. MinDelay \in Nat /\ MinDelay > 0 /\ n \in Nat
  BY NowType, TimeAssumption
<1>2. ASSUME NEW w \in Nat
      PROVE  h(w) \in {MinDelay, w - n} /\ h(w) >= MinDelay /\ h(w) >= w - n
  <2>1. MinDelay \in Int /\ w - n \in Int
    BY <1>1
  <2> HIDE DEF n
  <2>2. Max({MinDelay, w - n}) \in {MinDelay, w - n} /\ Max({MinDelay, w - n}) >= MinDelay
        /\ Max({MinDelay, w - n}) >= w - n
    BY <2>1, MaxOfTwo, Zenon
  <2>3. h(w) = Max({MinDelay, w - n})
    BY DEF howMuchTimeFromNow, n
  <2> QED
    BY <2>2, <2>3
<1> HIDE DEF n, h
<1>3. \A w \in Nat : h(w) \in Nat \ {0}
  BY <1>1, <1>2
<1>4. \A v, w \in Nat : v <= w => h(v) <= h(w)
  BY <1>1, <1>2
<1> QED
  BY <1>3, <1>4 DEF h

\* What resetTimerfd leaves: an alarm for the timer it was called with, and
\* so for every later one.
LEMMA ResetTimerfdFacts ==
    ASSUME clock \in Nat, NEW w \in Nat, resetTimerfd(w)
    PROVE  /\ alarm' \in Nat /\ armedAt' \in Nat
           /\ \A v \in Nat : w <= v => ArmedFor(v)'
<1> DEFINE h(v) == howMuchTimeFromNow(clock, v)
<1>1. /\ \A v \in Nat : h(v) \in Nat \ {0}
      /\ \A v \in Nat : w <= v => h(w) <= h(v)
  BY HowMuchFacts
<1>2. alarm' = clock + h(w) /\ armedAt' = clock
  BY DEF resetTimerfd
<1>3. \A v : ArmedFor(v)' <=> alarm' # 0 /\ alarm' <= clock + h(v)
  BY <1>2 DEF ArmedFor, howMuchTimeFromNow
<1> HIDE DEF h
<1>4. alarm' \in Nat /\ alarm' # 0 /\ \A v \in Nat : w <= v => alarm' <= clock + h(v)
  BY <1>1, <1>2
<1> QED
  BY <1>2, <1>3, <1>4

\* An alarm for one timer is one for every later timer.
LEMMA ArmedForLater ==
    ASSUME alarm \in Nat, armedAt \in Nat, NEW v \in Nat, NEW w \in Nat, v <= w, ArmedFor(v)
    PROVE  ArmedFor(w)
<1> DEFINE h(x) == howMuchTimeFromNow(armedAt, x)
<1>1. h(v) \in Nat /\ h(w) \in Nat /\ h(v) <= h(w)
  BY HowMuchFacts
<1>2. alarm # 0 /\ alarm <= armedAt + h(v)
  BY DEF ArmedFor
<1> HIDE DEF h
<1>3. alarm # 0 /\ alarm <= armedAt + h(w)
  BY <1>1, <1>2
<1> QED
  BY <1>3 DEF ArmedFor, h

\* While the timerfd is not touched, neither are its alarms.
LEMMA SameAlarm ==
    ASSUME UNCHANGED timerfd
    PROVE  \A w : ArmedFor(w)' <=> ArmedFor(w)
BY DEF timerfd, ArmedFor, howMuchTimeFromNow

-----------------------------------------------------------------------------
(* The steps that move no timer.                                           *)

\* What does not depend on the clock, the alarm and the program counter.
LEMMA Unmoved ==
    ASSUME QueueInv,
           UNCHANGED <<s_numCreated, heap, timers_, activeTimers_, caneclingTimers_, expired,
                       functors, adding, issued, dead>>
    PROVE  Agree' /\ OnePlace' /\ Adds' /\ Numbers' /\ Ids' /\ FunctorIds' /\ Dead'
<1> USE DEF QueueInv
<1>1. Agree'
  BY DEF Agree, InQueue
<1>2. OnePlace'
  BY DEF OnePlace, InQueue, Called, Queued, Inserts, Building
<1>3. Adds' /\ FunctorIds'
  BY DEF Adds, FunctorIds
<1>4. Numbers' /\ Ids'
  BY DEF Numbers, Ids, Loading, Building
<1>5. Dead'
  BY DEF Dead, Called
<1> QED
  BY <1>1, <1>2, <1>3, <1>4, <1>5

\* The alarms of timers that stay where they are.
LEMMA UnmovedArmed ==
    ASSUME Armed, timers_' \subseteq timers_, UNCHANGED timerfd,
           pc' = pc \/ (pc = "idle" /\ pc' = "polled")
    PROVE  Armed'
<1>1. \A w : ArmedFor(w)' <=> ArmedFor(w)
  BY SameAlarm
<1> QED
  BY <1>1 DEF Armed

\* The clock moves on.
LEMMA TickStep ==
    ASSUME QueueInv, Tick PROVE QueueInv'
<1> USE DEF Tick, queueVars, handlerVars
<1>1. TypeOK'
  BY DEF QueueInv, TypeOK, timerfd
<1>2. Phases'
  BY TimeAssumption DEF QueueInv, TypeOK, Phases
<1>3. Agree' /\ OnePlace' /\ Adds' /\ Numbers' /\ Ids' /\ FunctorIds' /\ Dead'
  BY Unmoved
<1>4. Armed'
  BY UnmovedArmed DEF QueueInv
<1> QED
  BY <1>1, <1>2, <1>3, <1>4 DEF QueueInv

\* The poller reports the timerfd.
LEMMA PollStep ==
    ASSUME QueueInv, Poll PROVE QueueInv'
<1> USE DEF Poll, queueVars
<1>1. TypeOK'
  BY DEF QueueInv, TypeOK, timerfd
<1>2. Phases'
  BY DEF QueueInv, Phases
<1>3. Agree' /\ OnePlace' /\ Adds' /\ Numbers' /\ Ids' /\ FunctorIds' /\ Dead'
  BY Unmoved
<1>4. Armed'
  BY UnmovedArmed DEF QueueInv
<1> QED
  BY <1>1, <1>2, <1>3, <1>4 DEF QueueInv

\* A callback is run.
LEMMA RunCallbackStep ==
    ASSUME QueueInv, RunCallback PROVE QueueInv'
<1> USE DEF RunCallback, queueVars
<1>1. TypeOK'
  BY DEF QueueInv, TypeOK, timerfd
<1>2. Phases'
  BY DEF QueueInv, Phases
<1>3. Agree' /\ OnePlace' /\ Adds' /\ Numbers' /\ Ids' /\ FunctorIds' /\ Dead'
  BY Unmoved
<1>4. Armed'
  BY UnmovedArmed DEF QueueInv
<1> QED
  BY <1>1, <1>2, <1>3, <1>4 DEF QueueInv

\* Another thread queues a cancel.
LEMMA QueueCancelStep ==
    ASSUME QueueInv, NEW t \in Threads, NEW id \in issued, QueueCancel(t, id) PROVE QueueInv'
<1> DEFINE f == [op |-> "cancel", id |-> id]
<1> USE DEF QueueCancel, queueVars, handlerVars
<1>1. f \in FunctorType /\ f.op = "cancel" /\ f.id = id
  BY DEF QueueInv, TypeOK, FunctorType
<1>2. functors \in Seq(FunctorType) /\ functors' = Append(functors, f)
  BY DEF QueueInv, TypeOK
<1> HIDE DEF f
<1>3. TypeOK'
  BY <1>1, <1>2 DEF QueueInv, TypeOK, timerfd
<1>4. Phases'
  BY DEF QueueInv, Phases
<1>5. Agree' /\ Adds' /\ Numbers' /\ Ids' /\ Dead'
  BY DEF QueueInv, Agree, InQueue, Adds, Numbers, Ids, Dead, Called, Loading, Building
<1>6. /\ DOMAIN functors' = 1..(Len(functors) + 1)
      /\ DOMAIN functors = 1..Len(functors)
      /\ Len(functors) \in Nat
      /\ \A i \in DOMAIN functors : functors'[i] = functors[i]
      /\ functors'[Len(functors) + 1] = f
  BY <1>1, <1>2
<1>7. FunctorIds'
  BY <1>1, <1>6 DEF QueueInv, FunctorIds
<1>8. \A i \in DOMAIN functors', a \in Addr : Inserts(i, a)' =>
            i \in DOMAIN functors /\ Inserts(i, a)
  BY <1>1, <1>6 DEF Inserts
<1>9. OnePlace'
  BY <1>8 DEF QueueInv, OnePlace, Queued, InQueue, Called, Building
<1>10. Armed'
  BY UnmovedArmed DEF QueueInv
<1> QED
  BY <1>3, <1>4, <1>5, <1>7, <1>9, <1>10 DEF QueueInv

-----------------------------------------------------------------------------
(* Adding a timer.                                                         *)

\* What is asked of addTimer are times.
LEMMA RequestType ==
    ASSUME clock \in Nat, NEW r \in Requests
    PROVE  r.when \in Nat /\ r.interval \in Nat
<1>1. Now(clock) \in Nat
  BY NowType
<1>2. \A d \in Delays \cup Intervals : d \in Nat /\ addTime(Now(clock), d) \in Nat
  BY <1>1, TimeAssumption DEF addTime
<1> QED
  BY <1>2, TimeAssumption DEF Requests

\* addTimerInLoop keeps every timer armed: the alarm is moved exactly when
\* the new timer is the first.
LEMMA AddTimerArmed ==
    ASSUME TypeOK, Armed, NEW a, NEW t, t.expiration \in Nat, AddTimerInLoop(a, t),
           UNCHANGED <<clock, pc>>
    PROVE  Armed' /\ alarm' \in Nat /\ armedAt' \in Nat
<1> DEFINE w == t.expiration
<1>1. /\ w \in Nat /\ clock \in Nat /\ alarm \in Nat /\ armedAt \in Nat
      /\ \A e \in timers_ : e[1] \in Nat
  BY DEF TypeOK, EntryType
<1>2. /\ timers_' = timers_ \cup {<<w, a>>}
      /\ IsEarliest(w) => resetTimerfd(w)
      /\ ~IsEarliest(w) => UNCHANGED timerfd
  BY DEF AddTimerInLoop
<1> HIDE DEF w
<1>3. CASE IsEarliest(w)
  <2>1. alarm' \in Nat /\ armedAt' \in Nat /\ \A v \in Nat : w <= v => ArmedFor(v)'
    BY <1>1, <1>2, <1>3, ResetTimerfdFacts
  <2>2. \A e \in timers_' : e[1] \in Nat /\ w <= e[1]
    BY <1>1, <1>2, <1>3 DEF IsEarliest
  <2>3. \A e \in timers_' : ArmedFor(e[1])'
    BY <2>1, <2>2
  <2> QED
    BY <2>1, <2>3 DEF Armed
<1>4. CASE ~IsEarliest(w)
  <2>1. PICK f \in timers_ : f[1] <= w
    BY <1>1, <1>4 DEF IsEarliest
  <2>2. alarm' = alarm /\ armedAt' = armedAt /\ \A v : ArmedFor(v)' <=> ArmedFor(v)
    BY <1>2, <1>4, SameAlarm DEF timerfd
  <2>3. ArmedFor(f[1]) => ArmedFor(w)
    BY <1>1, <2>1, ArmedForLater
  <2>4. w = 0 => f[1] = 0
    BY <1>1, <2>1
  <2> QED
    BY <1>1, <1>2, <2>1, <2>2, <2>3, <2>4 DEF Armed
<1> QED
  BY <1>3, <1>4

\* new Timer, up to the first of the constructor's two accesses to the
\* counter.
LEMMA ConstructTimerStep ==
    ASSUME QueueInv, NEW t \in Threads, NEW a \in Addr, NEW r \in Requests, ConstructTimer(t, a, r)
    PROVE  QueueInv'
<1> DEFINE n == s_numCreated + 1
           timer == Timer(n, 0, r.when, r.interval)
           add == Adding("load", a, n)
<1>1. /\ TypeOK /\ Phases /\ Agree /\ OnePlace /\ Adds /\ Numbers /\ Ids /\ FunctorIds /\ Dead
      /\ Armed
  BY DEF QueueInv
<1>2. /\ heap \in [Addr -> TimerType] /\ s_numCreated \in 0..MaxTimers
      /\ n \in 1..MaxTimers /\ n = s_numCreated + 1 /\ MaxTimers \in Nat
      /\ heap[a] = NoTimer /\ heap[a].uid = 0
      /\ r.when \in Nat /\ r.interval \in Nat
  <2>1. clock \in Nat
    BY <1>1 DEF TypeOK
  <2> QED
    BY <1>1, <2>1, RequestType, BoundAssumption, SMTT(30)
    DEF TypeOK, ConstructTimer, Allocate, NoTimer, Timer
<1>3. /\ heap' = [heap EXCEPT ![a] = timer] /\ s_numCreated' = n
      /\ adding[t].step = "none" /\ adding' = [adding EXCEPT ![t] = add]
      /\ UNCHANGED <<clock, timers_, activeTimers_, caneclingTimers_, callingExpiredTimers_, alarm,
                     armedAt, pc, readAt, expired, torun, functors, issued, dead>>
  BY DEF ConstructTimer, queueVars, handlerVars, timerfd
<1>4. /\ timer \in TimerType /\ timer.uid = n /\ timer.sequence = 0
      /\ add \in AddingType /\ add.step = "load" /\ add.timer_ = a /\ add.uid = n
  BY <1>2 DEF Timer, TimerType, Adding, AddingType
<1> HIDE DEF n, timer, add
<1>5. /\ heap'[a] = timer /\ \A b \in Addr \ {a} : heap'[b] = heap[b]
      /\ adding'[t] = add /\ \A u \in Threads \ {t} : adding'[u] = adding[u]
  BY <1>1, <1>2, <1>3 DEF TypeOK
<1>6. TypeOK'
  BY <1>1, <1>2, <1>3, <1>4 DEF TypeOK
<1>7. Phases'
  BY <1>1, <1>3 DEF Phases
<1>8. ~InQueue(a) /\ ~Called(a) /\ ~Queued(a)
  BY <1>1, <1>2 DEF OnePlace
<1>9. \A e \in timers_ : e[2] \in Addr \ {a}
  BY <1>1, <1>8 DEF Agree, TypeOK, EntryType
<1>10. \A x \in activeTimers_ : x[1] \in Addr \ {a}
  BY <1>1, <1>8 DEF Agree, TypeOK, ActiveType, InQueue
<1>11. ~InQueue(a)' /\ \A b \in Addr \ {a} : InQueue(b)' <=> InQueue(b)
  BY <1>3, <1>5, <1>10 DEF InQueue
<1>12. Agree'
  BY <1>1, <1>3, <1>5, <1>9, <1>10, <1>11 DEF Agree
<1>13. \A b \in Addr : (Called(b)' <=> Called(b)) /\ (Queued(b)' <=> Queued(b))
  BY <1>3 DEF Called, Queued, Inserts
<1>14. /\ Loading(a)' /\ Building(a)'
       /\ \A b \in Addr \ {a} : (Loading(b)' <=> Loading(b)) /\ (Building(b)' <=> Building(b))
  BY <1>3, <1>4, <1>5 DEF Loading, Building
<1>15. n # 0 /\ n \in Nat /\ s_numCreated \in Nat /\ s_numCreated < n
  BY <1>2
<1>16. OnePlace'
  BY <1>1, <1>3, <1>4, <1>5, <1>8, <1>11, <1>13, <1>14, <1>15 DEF OnePlace, Inserts
<1>17. \A u \in Threads : adding[u].uid \in Nat
  BY <1>1, <1>2 DEF TypeOK, AddingType
<1>18. Adds'
  <2>1. \A u \in Threads \ {t} : adding[u].step \in {"load", "push"} => adding[u].timer_ \in Addr \ {a}
    BY <1>1, <1>2 DEF Adds
  <2>2. /\ \A u \in Threads :
             /\ adding'[u].step # "none" => /\ adding'[u].timer_ \in Addr /\ adding'[u].uid # 0
                                            /\ adding'[u].uid <= n
             /\ adding'[u].step \in {"load", "push"} => heap'[adding'[u].timer_].uid = adding'[u].uid
    BY <1>1, <1>4, <1>5, <1>15, <1>17, <2>1 DEF Adds
  <2>3. \A u \in Threads \ {t} : adding[u].step # "none" => adding[u].uid # n
    BY <1>1, <1>15, <1>17 DEF Adds
  <2> QED
    BY <1>1, <1>3, <1>4, <1>5, <2>2, <2>3 DEF Adds
<1>19. Numbers'
  <2>1. \A b \in Addr : heap[b].uid \in Nat /\ heap[b].sequence \in Nat
    BY <1>2 DEF TimerType
  <2>2. \A b \in Addr : heap[b].uid <= s_numCreated /\ heap[b].sequence <= s_numCreated
    BY <1>1 DEF Numbers
  <2> QED
    BY <1>1, <1>3, <1>4, <1>5, <1>14, <1>15, <2>1, <2>2 DEF Numbers
<1>20. Ids'
  <2>1. \A j \in issued : /\ j.timer_ \in Addr /\ j.uid \in Nat /\ j.sequence_ \in Nat
                          /\ j.uid <= s_numCreated /\ (~j.late => j.sequence_ <= s_numCreated)
    BY <1>1, <1>2 DEF Ids, TypeOK, IdType
  <2>2. \A j \in issued : j.timer_ = a => heap'[a].uid # j.uid
    BY <1>4, <1>5, <1>15, <2>1
  <2> QED
    BY <1>1, <1>2, <1>3, <1>4, <1>5, <1>14, <1>15, <2>1, <2>2 DEF Ids
<1>21. FunctorIds'
  BY <1>1, <1>3 DEF FunctorIds
<1>22. Dead'
  <2>1. n \notin dead /\ \A u \in dead : u \in Nat /\ u <= s_numCreated
    BY <1>1, <1>15 DEF Dead, TypeOK
  <2> QED
    BY <1>1, <1>3, <1>4, <1>5, <1>13, <1>15, <2>1 DEF Dead, Called
<1>23. Armed'
  BY <1>1, <1>3, UnmovedArmed DEF timerfd
<1> QED
  BY <1>6, <1>7, <1>12, <1>16, <1>18, <1>19, <1>20, <1>21, <1>22, <1>23 DEF QueueInv

\* The second access: the sequence number is drawn.
LEMMA LoadSequenceStep ==
    ASSUME QueueInv, NEW t \in Threads, LoadSequence(t) PROVE QueueInv'
<1> DEFINE a == adding[t].timer_
           timer == [heap[a] EXCEPT !.sequence = s_numCreated]
           add == [adding[t] EXCEPT !.step = "push"]
<1>1. /\ TypeOK /\ Phases /\ Agree /\ OnePlace /\ Adds /\ Numbers /\ Ids /\ FunctorIds /\ Dead
      /\ Armed
  BY DEF QueueInv
<1>2. /\ adding[t].step = "load" /\ a \in Addr /\ heap[a].uid = adding[t].uid
      /\ heap[a].uid # 0 /\ heap[a].uid <= s_numCreated
      /\ heap \in [Addr -> TimerType] /\ adding \in [Threads -> AddingType]
      /\ s_numCreated \in 0..MaxTimers /\ MaxTimers \in Nat /\ s_numCreated \in Nat
  BY <1>1, BoundAssumption DEF LoadSequence, Adds, TypeOK
<1>3. /\ heap' = [heap EXCEPT ![a] = timer] /\ s_numCreated' = s_numCreated
      /\ adding' = [adding EXCEPT ![t] = add]
      /\ UNCHANGED <<clock, timers_, activeTimers_, caneclingTimers_, callingExpiredTimers_, alarm,
                     armedAt, pc, readAt, expired, torun, functors, issued, dead>>
  BY <1>2 DEF LoadSequence, SequenceNumber, queueVars, handlerVars, timerfd
<1>4. /\ timer \in TimerType /\ timer.uid = heap[a].uid /\ timer.sequence = s_numCreated
      /\ timer.expiration = heap[a].expiration
      /\ add \in AddingType /\ add.step = "push" /\ add.timer_ = a /\ add.uid = adding[t].uid
  BY <1>2 DEF TimerType, AddingType
<1>5. /\ Building(a) /\ Loading(a)
  BY <1>2 DEF Building, Loading
<1>6. ~InQueue(a) /\ ~Called(a) /\ ~Queued(a)
  BY <1>1, <1>2, <1>5 DEF OnePlace
<1>7. PICK b \in Addr : b = a
  BY <1>2
<1>8. /\ heap'[b] = timer /\ \A c \in Addr \ {b} : heap'[c] = heap[c]
      /\ adding'[t] = add /\ \A u \in Threads \ {t} : adding'[u] = adding[u]
      /\ adding[t].timer_ = b
  BY <1>2, <1>3, <1>7
<1>9. /\ timer.uid = heap[b].uid /\ timer.expiration = heap[b].expiration /\ add.timer_ = b
      /\ ~InQueue(b) /\ ~Called(b) /\ ~Queued(b) /\ Building(b)
      /\ heap[b].uid # 0 /\ heap[b].uid <= s_numCreated /\ heap[b].uid = adding[t].uid
  BY <1>2, <1>4, <1>5, <1>6, <1>7
<1> HIDE DEF a, timer, add
<1>10. TypeOK'
  BY <1>1, <1>2, <1>3, <1>4, <1>7 DEF TypeOK
<1>11. Phases'
  BY <1>1, <1>3 DEF Phases
<1>12. \A e \in timers_ : e[2] \in Addr \ {b}
  BY <1>1, <1>9 DEF Agree, TypeOK, EntryType
<1>13. \A x \in activeTimers_ : x[1] \in Addr \ {b}
  BY <1>1, <1>9, SMTT(30) DEF Agree, TypeOK, ActiveType, InQueue
<1>14. ~InQueue(b)' /\ \A c \in Addr \ {b} : InQueue(c)' <=> InQueue(c)
  BY <1>3, <1>8, <1>13 DEF InQueue
<1>15. Agree'
  BY <1>1, <1>3, <1>8, <1>12, <1>13, <1>14 DEF Agree
<1>16. \A c \in Addr : (Called(c)' <=> Called(c)) /\ (Queued(c)' <=> Queued(c))
  BY <1>3 DEF Called, Queued, Inserts
<1>17. \A u \in Threads : adding[u].step \in {"load", "push"} /\ adding[u].timer_ = b => u = t
  BY <1>1, <1>2, <1>9 DEF Adds
<1>18. /\ \A c \in Addr : Building(c)' <=> Building(c)
       /\ \A c \in Addr \ {b} : Loading(c)' <=> Loading(c)
  <2>1. Building(b)'
    BY <1>4, <1>8, <1>9 DEF Building
  <2> QED
    BY <1>2, <1>4, <1>8, <1>9, <2>1 DEF Building, Loading
<1>19. OnePlace'
  <2>1. \A i, j \in DOMAIN functors', c \in Addr : Inserts(i, c)' /\ Inserts(j, c)' => i = j
    BY <1>1, <1>3 DEF OnePlace, Inserts
  <2> QED
    BY <1>1, <1>8, <1>9, <1>14, <1>16, <1>18, <2>1 DEF OnePlace
<1>20. Adds'
  <2>1. \A u \in Threads : adding'[u].uid = adding[u].uid /\ adding'[u].timer_ = adding[u].timer_
    BY <1>4, <1>8, <1>9
  <2>2. \A u \in Threads : (adding'[u].step \in {"load", "push"} <=> adding[u].step \in {"load", "push"})
                           /\ (adding'[u].step = "none" <=> adding[u].step = "none")
    BY <1>2, <1>4, <1>8
  <2>3. \A c \in Addr : heap'[c].uid = heap[c].uid
    BY <1>8, <1>9
  <2> QED
    BY <1>1, <1>3, <2>1, <2>2, <2>3 DEF Adds
<1>21. /\ \A c \in Addr : heap'[c].uid = heap[c].uid
       /\ heap'[b].sequence = s_numCreated
       /\ \A c \in Addr \ {b} : heap'[c] = heap[c]
       /\ UNCHANGED <<s_numCreated, issued, dead, caneclingTimers_>>
  BY <1>3, <1>4, <1>8, <1>9
<1>22. Numbers'
  <2>1. \A c \in Addr : heap[c].uid \in Nat /\ heap[c].sequence \in Nat
    BY <1>2 DEF TimerType
  <2>2. \A c \in Addr : /\ heap'[c].uid <= s_numCreated /\ heap'[c].sequence <= s_numCreated
                        /\ heap'[c].uid = 0 => heap'[c] = NoTimer
    BY <1>1, <1>2, <1>9, <1>21, <2>1 DEF Numbers
  <2>3. \A c \in Addr : heap'[c].uid # 0 /\ ~Loading(c)' => heap'[c].sequence >= heap'[c].uid
    BY <1>1, <1>2, <1>9, <1>18, <1>21, <2>1 DEF Numbers
  <2>4. \A c, d \in Addr : heap'[c].uid = heap'[d].uid /\ heap'[c].uid # 0 => c = d
    BY <1>1, <1>21 DEF Numbers
  <2> QED
    BY <1>21, <2>2, <2>3, <2>4 DEF Numbers
<1>23. Ids'
  <2>1. \A j \in issued : j.timer_ \in Addr
    BY <1>1 DEF TypeOK, IdType
  <2>2. \A j \in issued : j.timer_ = b => heap[b].uid # j.uid
    BY <1>1, <1>9 DEF Ids
  <2> QED
    BY <1>1, <1>18, <1>21, <2>1, <2>2 DEF Ids
<1>24. FunctorIds'
  BY <1>1, <1>3 DEF FunctorIds
<1>26. Dead'
  <2>1. \A c \in Addr : heap'[c].uid \in dead => Called(c)' /\ c # b
    BY <1>1, <1>9, <1>16, <1>21 DEF Dead
  <2> QED
    BY <1>1, <1>21, <2>1 DEF Dead
<1>25. Armed'
  BY <1>1, <1>3, UnmovedArmed DEF timerfd
<1> QED
  BY <1>10, <1>11, <1>15, <1>19, <1>20, <1>22, <1>23, <1>24, <1>25, <1>26 DEF QueueInv

\* A thread leaves addTimer, or comes past the push: its timer is not under
\* construction any more.
LEMMA Leaves ==
    ASSUME Adds, NEW t \in Threads, adding[t].step \in {"push", "return"},
           adding'[t].step \in {"none", "return"},
           adding'[t].step = "return" => /\ adding'[t].timer_ = adding[t].timer_
                                         /\ adding'[t].uid = adding[t].uid,
           \A u \in Threads \ {t} : adding'[u] = adding[u],
           heap' = heap, s_numCreated' = s_numCreated
    PROVE  /\ Adds'
           /\ \A a \in Addr : Loading(a)' <=> Loading(a)
           /\ \A a \in Addr : Building(a)' => Building(a)
           /\ \A a \in Addr : adding[t].step = "push" /\ a = adding[t].timer_ =>
                                  Building(a) /\ ~Building(a)' /\ ~Loading(a)
<1>2. \A a \in Addr : Loading(a)' <=> Loading(a)
  BY DEF Loading
<1>3. \A a \in Addr : Building(a)' => Building(a)
  BY DEF Building
<1>4. Adds'
  BY DEF Adds
<1>5. ASSUME NEW a \in Addr, adding[t].step = "push", a = adding[t].timer_
      PROVE  Building(a) /\ ~Building(a)' /\ ~Loading(a)
  <2>1. Building(a)
    BY <1>5 DEF Building
  <2>2. \A u \in Threads : adding[u].step \in {"load", "push"} /\ adding[u].timer_ = a => u = t
    BY <1>5 DEF Adds
  <2>3. adding'[t].step \notin {"load", "push"} /\ \A u \in Threads \ {t} : adding'[u] = adding[u]
    OBVIOUS
  <2>4. ~Building(a)'
    BY <2>2, <2>3 DEF Building
  <2>5. ~Loading(a)
    BY <1>5, <2>2 DEF Loading
  <2> QED
    BY <2>1, <2>4, <2>5
<1> QED
  BY <1>2, <1>3, <1>4, <1>5

\* The rest of addTimer in the loop's thread.
LEMMA AddTimerStep ==
    ASSUME QueueInv, AddTimer PROVE QueueInv'
<1> DEFINE id == TimerId(adding[LoopThread].timer_, heap[adding[LoopThread].timer_].sequence,
                         adding[LoopThread].uid)
<1>1. /\ TypeOK /\ Phases /\ Agree /\ OnePlace /\ Adds /\ Numbers /\ Ids /\ FunctorIds /\ Dead
      /\ Armed
  BY DEF QueueInv
<1>2. PICK a \in Addr : a = adding[LoopThread].timer_
  BY <1>1, ThreadAssumption DEF Adds, AddTimer
<1>3. /\ adding[LoopThread].step = "push" /\ heap[a].uid = adding[LoopThread].uid
      /\ heap[a].uid # 0
      /\ heap \in [Addr -> TimerType] /\ s_numCreated \in 0..MaxTimers /\ MaxTimers \in Nat
      /\ adding \in [Threads -> AddingType] /\ NotAdding \in AddingType
  BY <1>1, <1>2, ThreadAssumption, BoundAssumption
  DEF AddTimer, Adds, TypeOK, NotAdding, Adding, AddingType
<1>4. /\ AddTimerInLoop(a, heap[a]) /\ issued' = issued \cup {id}
      /\ adding' = [adding EXCEPT ![LoopThread] = NotAdding]
      /\ UNCHANGED <<clock, s_numCreated, heap, caneclingTimers_, callingExpiredTimers_,
                     pc, readAt, expired, torun, functors, dead>>
  BY <1>2 DEF AddTimer, handlerVars
<1>5. /\ id \in IdType /\ id.timer_ = a /\ id.sequence_ = heap[a].sequence
      /\ id.uid = heap[a].uid /\ ~id.late
  <2>1. heap[a].uid \in 1..MaxTimers /\ heap[a].sequence \in Nat
    BY <1>3 DEF TimerType
  <2> QED
    BY <1>2, <1>3, <2>1 DEF TimerId, IdType
<1> HIDE DEF id
<1>6. /\ timers_' = timers_ \cup {<<heap[a].expiration, a>>}
      /\ activeTimers_' = activeTimers_ \cup {<<a, heap[a].sequence>>}
  BY <1>4 DEF AddTimerInLoop
<1>7. /\ heap[a].expiration \in Nat /\ heap[a].sequence \in Nat /\ heap[a].uid \in Nat
      /\ s_numCreated \in Nat
  BY <1>3 DEF TimerType
<1>8. Armed' /\ alarm' \in Nat /\ armedAt' \in Nat
  BY <1>1, <1>4, <1>7, AddTimerArmed
<1>9. TypeOK'
  <2>1. timers_' \subseteq EntryType /\ activeTimers_' \subseteq ActiveType
    BY <1>1, <1>6, <1>7 DEF TypeOK, EntryType, ActiveType
  <2>2. adding' \in [Threads -> AddingType] /\ issued' \subseteq IdType
    BY <1>1, <1>3, <1>4, <1>5 DEF TypeOK
  <2> QED
    BY <1>1, <1>4, <1>8, <2>1, <2>2 DEF TypeOK
<1>10. Phases'
  BY <1>1, <1>4 DEF Phases
<1>11. /\ Adds'
       /\ \A b \in Addr : Loading(b)' <=> Loading(b)
       /\ \A b \in Addr : Building(b)' => Building(b)
       /\ Building(a) /\ ~Building(a)' /\ ~Loading(a)
  <2>1. NotAdding.step = "none"
    BY DEF NotAdding, Adding
  <2> QED
    <3>1. /\ LoopThread \in Threads /\ adding[LoopThread].step = "push"
          /\ adding'[LoopThread] = NotAdding
          /\ \A u \in Threads \ {LoopThread} : adding'[u] = adding[u]
          /\ heap' = heap /\ s_numCreated' = s_numCreated
          /\ a = adding[LoopThread].timer_
      BY <1>2, <1>3, <1>4, ThreadAssumption
    <3> QED
      BY <1>1, <2>1, <3>1, Leaves
<1>12. ~InQueue(a) /\ ~Called(a) /\ ~Queued(a)
  BY <1>1, <1>11 DEF OnePlace
<1>13. InQueue(a)' /\ \A b \in Addr \ {a} : InQueue(b)' <=> InQueue(b)
  BY <1>4, <1>6 DEF InQueue
<1>14. Agree'
  BY <1>1, <1>4, <1>6, <1>13 DEF Agree
<1>15. \A b \in Addr : (Called(b)' <=> Called(b)) /\ (Queued(b)' <=> Queued(b))
  BY <1>4 DEF Called, Queued, Inserts
<1>16. OnePlace'
  <2>1. \A i, j \in DOMAIN functors', b \in Addr : Inserts(i, b)' /\ Inserts(j, b)' => i = j
    BY <1>1, <1>4 DEF OnePlace, Inserts
  <2> QED
    BY <1>1, <1>3, <1>4, <1>11, <1>12, <1>13, <1>15, <2>1 DEF OnePlace
<1>17. Numbers'
  BY <1>1, <1>4, <1>11 DEF Numbers
<1>18. Ids'
  <2>1. id.uid <= s_numCreated /\ id.sequence_ <= s_numCreated
    BY <1>1, <1>5 DEF Numbers
  <2>2. \A j \in issued : j.timer_ \in Addr
    BY <1>1 DEF TypeOK, IdType
  <2> QED
    BY <1>1, <1>4, <1>5, <1>11, <2>1, <2>2 DEF Ids
<1>19. FunctorIds'
  BY <1>1, <1>4 DEF FunctorIds
<1>20. Dead'
  BY <1>1, <1>4, <1>15 DEF Dead
<1> QED
  BY <1>8, <1>9, <1>10, <1>11, <1>14, <1>16, <1>17, <1>18, <1>19, <1>20 DEF QueueInv

\* The push of the functor in another thread.
LEMMA QueueTimerStep ==
    ASSUME QueueInv, NEW t \in Threads, QueueTimer(t) PROVE QueueInv'
<1> DEFINE f == [op |-> "add", timer |-> adding[t].timer_]
           add == [adding[t] EXCEPT !.step = "return"]
<1>1. /\ TypeOK /\ Phases /\ Agree /\ OnePlace /\ Adds /\ Numbers /\ Ids /\ FunctorIds /\ Dead
      /\ Armed
  BY DEF QueueInv
<1>2. PICK a \in Addr : a = adding[t].timer_
  BY <1>1 DEF Adds, QueueTimer
<1>3. /\ adding[t].step = "push" /\ heap[a].uid = adding[t].uid /\ heap[a].uid # 0
      /\ adding[t] \in AddingType /\ adding \in [Threads -> AddingType]
  BY <1>1, <1>2 DEF QueueTimer, Adds, TypeOK
<1>4. /\ functors' = Append(functors, f)
      /\ adding' = [adding EXCEPT ![t] = add]
      /\ UNCHANGED <<clock, s_numCreated, heap, timers_, activeTimers_, caneclingTimers_,
                     callingExpiredTimers_, alarm, armedAt, pc, readAt, expired, torun, issued,
                     dead>>
  BY <1>3 DEF QueueTimer, queueVars, handlerVars, timerfd
<1>5. /\ f \in FunctorType /\ f.op = "add" /\ f.timer = a
      /\ add \in AddingType /\ add.step = "return" /\ add.timer_ = adding[t].timer_
      /\ add.uid = adding[t].uid
  BY <1>2, <1>3 DEF FunctorType, AddingType
<1> HIDE DEF f, add
<1>6. TypeOK'
  BY <1>1, <1>4, <1>5 DEF TypeOK
<1>7. Phases'
  BY <1>1, <1>4 DEF Phases
<1>8. /\ Adds'
      /\ \A b \in Addr : Loading(b)' <=> Loading(b)
      /\ \A b \in Addr : Building(b)' => Building(b)
      /\ Building(a) /\ ~Building(a)' /\ ~Loading(a)
  <2>1. /\ adding[t].step = "push" /\ adding'[t] = add
        /\ \A u \in Threads \ {t} : adding'[u] = adding[u]
        /\ heap' = heap /\ s_numCreated' = s_numCreated
        /\ a = adding[t].timer_
    BY <1>2, <1>3, <1>4
  <2> QED
    BY <1>1, <1>5, <2>1, Leaves
<1>9. ~InQueue(a) /\ ~Called(a) /\ ~Queued(a)
  BY <1>1, <1>8 DEF OnePlace
<1>10. \A b \in Addr : (InQueue(b)' <=> InQueue(b)) /\ (Called(b)' <=> Called(b))
  BY <1>4 DEF InQueue, Called
<1>11. Agree'
  BY <1>1, <1>4, <1>10 DEF Agree
<1>12. /\ DOMAIN functors' = 1..(Len(functors) + 1)
       /\ DOMAIN functors = 1..Len(functors)
       /\ Len(functors) \in Nat
       /\ \A i \in DOMAIN functors : functors'[i] = functors[i]
       /\ functors'[Len(functors) + 1] = f
  BY <1>1, <1>4, <1>5 DEF TypeOK
<1>13. \A i \in DOMAIN functors', b \in Addr : Inserts(i, b)' <=>
             \/ i \in DOMAIN functors /\ Inserts(i, b)
             \/ i = Len(functors) + 1 /\ b = a
  BY <1>5, <1>12 DEF Inserts
<1>14. Queued(a)' /\ \A b \in Addr \ {a} : Queued(b)' <=> Queued(b)
  BY <1>12, <1>13 DEF Queued
<1>15. OnePlace'
  <2>1. \A i, j \in DOMAIN functors', b \in Addr : Inserts(i, b)' /\ Inserts(j, b)' => i = j
    BY <1>1, <1>9, <1>13 DEF OnePlace, Queued
  <2> QED
    BY <1>1, <1>3, <1>4, <1>8, <1>9, <1>10, <1>14, <2>1 DEF OnePlace
<1>16. Numbers'
  BY <1>1, <1>4, <1>8 DEF Numbers
<1>17. Ids'
  <2>1. \A j \in issued : j.timer_ \in Addr
    BY <1>1 DEF TypeOK, IdType
  <2> QED
    BY <1>1, <1>4, <1>8, <2>1 DEF Ids
<1>18. FunctorIds'
  BY <1>1, <1>4, <1>5, <1>12 DEF FunctorIds
<1>19. Dead'
  BY <1>1, <1>4, <1>10 DEF Dead
<1>20. Armed'
  BY <1>1, <1>4, UnmovedArmed DEF timerfd
<1> QED
  BY <1>6, <1>7, <1>8, <1>11, <1>15, <1>16, <1>17, <1>18, <1>19, <1>20 DEF QueueInv

\* The return there, when the timer may be gone and its address in use again.
LEMMA ReturnTimerIdStep ==
    ASSUME QueueInv, NEW t \in Threads, ReturnTimerId(t) PROVE QueueInv'
<1> DEFINE a == adding[t].timer_
<1>1. /\ TypeOK /\ Phases /\ Agree /\ OnePlace /\ Adds /\ Numbers /\ Ids /\ FunctorIds /\ Dead
      /\ Armed
  BY DEF QueueInv
<1>2. /\ adding[t].step = "return" /\ a \in Addr /\ adding[t].uid # 0
      /\ adding[t].uid <= s_numCreated
      /\ heap \in [Addr -> TimerType] /\ s_numCreated \in 0..MaxTimers /\ MaxTimers \in Nat
      /\ adding \in [Threads -> AddingType] /\ NotAdding \in AddingType
  BY <1>1, BoundAssumption DEF ReturnTimerId, Adds, TypeOK, NotAdding, Adding, AddingType
<1>3. PICK n \in SequenceAt(a) : issued' = issued \cup {TimerId(a, n, adding[t].uid)}
  BY DEF ReturnTimerId
<1> DEFINE id == TimerId(a, n, adding[t].uid)
<1>4. /\ adding' = [adding EXCEPT ![t] = NotAdding]
      /\ UNCHANGED <<clock, s_numCreated, heap, timers_, activeTimers_, caneclingTimers_,
                     callingExpiredTimers_, alarm, armedAt, pc, readAt, expired, torun, functors,
                     dead>>
  BY DEF ReturnTimerId, queueVars, handlerVars, timerfd
<1>5. /\ id \in IdType /\ id.timer_ = a /\ id.uid = adding[t].uid
      /\ id.late <=> heap[a].uid # id.uid
      /\ ~id.late => id.sequence_ = heap[a].sequence
  <2>1. adding[t].uid \in 1..MaxTimers
    BY <1>2 DEF AddingType
  <2>2. n \in Nat /\ (heap[a].uid = adding[t].uid => n = heap[a].sequence)
    BY <1>2 DEF SequenceAt, NoTimer, Timer, TimerType
  <2> QED
    BY <1>2, <2>1, <2>2 DEF TimerId, IdType
<1>6. issued' = issued \cup {id}
  BY <1>3
<1> HIDE DEF id
<1>7. /\ Adds'
      /\ \A b \in Addr : Loading(b)' <=> Loading(b)
      /\ \A b \in Addr : Building(b)' => Building(b)
  <2>1. NotAdding.step = "none"
    BY DEF NotAdding, Adding
  <2> QED
    <3>1. /\ adding[t].step = "return" /\ adding'[t] = NotAdding
          /\ \A u \in Threads \ {t} : adding'[u] = adding[u]
          /\ heap' = heap /\ s_numCreated' = s_numCreated
      BY <1>2, <1>4
    <3> QED
      BY <1>1, <2>1, <3>1, Leaves
<1>8. heap[a].uid = id.uid => ~Building(a)
  <2>1. \A u \in Threads : adding[u].step \in {"load", "push"} /\ adding[u].timer_ = a =>
                              heap[a].uid = adding[u].uid /\ u # t
    BY <1>1, <1>2 DEF Adds
  <2>2. \A u \in Threads : adding[u].step # "none" /\ adding[u].uid = adding[t].uid => u = t
    BY <1>1, <1>2 DEF Adds
  <2> QED
    BY <1>5, <2>1, <2>2 DEF Building
<1> HIDE DEF a
<1>9. TypeOK'
  BY <1>1, <1>2, <1>4, <1>5, <1>6 DEF TypeOK
<1>10. Phases'
  BY <1>1, <1>4 DEF Phases
<1>11. \A b \in Addr : /\ InQueue(b)' <=> InQueue(b)
                       /\ Called(b)' <=> Called(b)
                       /\ Queued(b)' <=> Queued(b)
  BY <1>4 DEF InQueue, Called, Queued, Inserts
<1>12. Agree'
  BY <1>1, <1>4, <1>11 DEF Agree
<1>13. OnePlace'
  <2>1. \A i, j \in DOMAIN functors', b \in Addr : Inserts(i, b)' /\ Inserts(j, b)' => i = j
    BY <1>1, <1>4 DEF OnePlace, Inserts
  <2> QED
    BY <1>1, <1>4, <1>7, <1>11, <2>1 DEF OnePlace
<1>14. Numbers'
  BY <1>1, <1>4, <1>7 DEF Numbers
<1>15. Ids'
  <2>1. /\ id.uid <= s_numCreated
        /\ heap[a].uid = id.uid => ~id.late /\ heap[a].sequence = id.sequence_ /\ ~Building(a)
        /\ ~id.late => id.sequence_ <= s_numCreated /\ heap[a].uid = id.uid
    BY <1>1, <1>2, <1>5, <1>8 DEF Numbers
  <2>2. \A j \in issued : j.timer_ \in Addr
    BY <1>1 DEF TypeOK, IdType
  <2> QED
    BY <1>1, <1>2, <1>4, <1>5, <1>6, <1>7, <2>1, <2>2 DEF Ids
<1>16. FunctorIds'
  BY <1>1, <1>4, <1>6 DEF FunctorIds
<1>17. Dead'
  BY <1>1, <1>4, <1>11 DEF Dead
<1>18. Armed'
  BY <1>1, <1>4, UnmovedArmed DEF timerfd
<1> QED
  BY <1>7, <1>9, <1>10, <1>12, <1>13, <1>14, <1>15, <1>16, <1>17, <1>18 DEF QueueInv

-----------------------------------------------------------------------------
(* Cancelling a timer, and the functors.                                   *)

\* A TimerId whose address and sequence number are in activeTimers_ finds a
\* timer there, and if it was not read late, its own: a timer at the same
\* address that was constructed later has a greater sequence number.
LEMMA FoundIsNamed ==
    ASSUME QueueInv, NEW id \in issued, FoundActive(id)
    PROVE  /\ id.timer_ \in Addr
           /\ InQueue(id.timer_)
           /\ ~id.late => heap[id.timer_].uid = id.uid
<1> DEFINE a == id.timer_
<1>1. /\ TypeOK /\ Agree /\ OnePlace /\ Numbers /\ Ids
  BY DEF QueueInv
<1>2. a \in Addr /\ id.sequence_ \in Nat /\ id.uid \in Nat
  BY <1>1 DEF TypeOK, IdType
<1>3. heap[a].sequence = id.sequence_ /\ InQueue(a)
  BY <1>1, <1>2 DEF FoundActive, Agree, InQueue
<1>4. heap[a].uid # 0 /\ ~Loading(a)
  <2>1. heap[a].uid # 0 /\ ~Building(a)
    BY <1>1, <1>2, <1>3 DEF OnePlace
  <2> QED
    BY <2>1 DEF Building, Loading
<1>5. heap[a].uid \in Nat /\ heap[a].sequence >= heap[a].uid
  BY <1>1, <1>2, <1>4 DEF Numbers, TypeOK, TimerType
<1>6. ~id.late => heap[a].uid = id.uid
  BY <1>1, <1>2, <1>3, <1>4, <1>5 DEF Ids
<1> QED
  BY <1>2, <1>3, <1>6

\* cancelInLoop, called at once or by a functor that leaves the queue.
LEMMA CancelInLoopStep ==
    ASSUME QueueInv, NEW id \in issued, CancelInLoop(id),
           UNCHANGED <<clock, s_numCreated, alarm, armedAt, pc, readAt, expired, torun, adding, issued>>,
           functors' \in Seq(FunctorType),
           FunctorIds',
           \A b \in Addr : Queued(b)' => Queued(b),
           \A i, j \in DOMAIN functors', b \in Addr : Inserts(i, b)' /\ Inserts(j, b)' => i = j
    PROVE  QueueInv'
<1>1. /\ TypeOK /\ Phases /\ Agree /\ OnePlace /\ Adds /\ Numbers /\ Ids /\ Dead /\ Armed
  BY DEF QueueInv
<1>2. \A b \in Addr : (Called(b)' <=> Called(b)) /\ (Building(b)' <=> Building(b))
                      /\ (Loading(b)' <=> Loading(b))
  BY DEF Called, Building, Loading
<1>3. /\ id \in IdType /\ id.timer_ \in Addr /\ id.uid \in 1..MaxTimers
      /\ id.sequence_ \in Nat /\ heap \in [Addr -> TimerType]
  BY <1>1 DEF TypeOK, IdType
<1>4. callingExpiredTimers_' = callingExpiredTimers_
  BY DEF CancelInLoop
<1>5. id.uid \in Nat /\ id.uid <= s_numCreated /\ s_numCreated \in Nat
  BY <1>1, <1>3 DEF Ids, TypeOK
<1>6. Phases'
  BY <1>1, <1>4 DEF Phases
<1>8. timers_' \subseteq timers_ /\ activeTimers_' \subseteq activeTimers_
  BY DEF CancelInLoop
<1>9. Armed'
  BY <1>1, <1>8, UnmovedArmed DEF timerfd
<1>10. CASE FoundActive(id)
  <2> DEFINE a == id.timer_
  <2>1. a \in Addr /\ InQueue(a) /\ (~id.late => heap[a].uid = id.uid)
    BY <1>10, FoundIsNamed
  <2>2. /\ timers_' = timers_ \ {<<heap[a].expiration, a>>}
        /\ activeTimers_' = activeTimers_ \ {<<a, heap[a].sequence>>}
        /\ heap' = [heap EXCEPT ![a] = NoTimer]
        /\ caneclingTimers_' = caneclingTimers_
        /\ dead' \subseteq dead \cup {heap[a].uid, id.uid}
        /\ InBatch(id) \/ dead' = dead \cup {heap[a].uid}
    BY <1>10 DEF CancelInLoop
  <2>3. ~Called(a) /\ ~Queued(a) /\ ~Building(a) /\ heap[a].uid # 0
    BY <1>1, <2>1 DEF OnePlace
  <2>4. ~InBatch(id)
    BY <2>3 DEF InBatch, Called
  <2>5. dead' = dead \cup {heap[a].uid}
    BY <2>2, <2>4
  <2> HIDE DEF a
  <2>6. heap'[a] = NoTimer /\ \A b \in Addr \ {a} : heap'[b] = heap[b]
    BY <1>3, <2>1, <2>2
  <2>7. NoTimer \in TimerType /\ NoTimer.uid = 0 /\ NoTimer.sequence = 0
    BY BoundAssumption DEF NoTimer, Timer, TimerType
  <2>8. heap[a].uid \in 1..MaxTimers /\ heap[a].uid <= s_numCreated
    BY <1>1, <1>3, <2>1, <2>3 DEF TimerType, Numbers
  <2>9. TypeOK'
    BY <1>1, <1>3, <1>4, <2>2, <2>5, <2>7, <2>8 DEF TypeOK
  <2>10. \A e \in timers_' : e \in timers_ /\ e[2] \in Addr \ {a}
    BY <1>1, <2>2 DEF Agree, TypeOK, EntryType
  <2>11. \A x \in activeTimers_' : x \in activeTimers_ /\ x[1] \in Addr \ {a}
    BY <1>1, <2>2 DEF Agree, TypeOK, ActiveType
  <2>12. ~InQueue(a)' /\ \A b \in Addr \ {a} : InQueue(b)' <=> InQueue(b)
    BY <2>2, <2>6, <2>11 DEF InQueue
  <2>13. Agree'
    BY <1>1, <2>2, <2>6, <2>10, <2>11, <2>12 DEF Agree
  <2>14. OnePlace'
    BY <1>1, <1>2, <2>1, <2>3, <2>6, <2>12 DEF OnePlace
  <2>15. Adds'
    <3>1. \A t \in Threads : adding[t].step \in {"load", "push"} => adding[t].timer_ \in Addr \ {a}
      BY <1>1, <2>3 DEF Adds, Building
    <3> QED
      BY <1>1, <2>6, <3>1 DEF Adds
  <2>16. Numbers'
    BY <1>1, <1>2, <1>5, <2>6, <2>7 DEF Numbers
  <2>17. Ids'
    <3>1. \A j \in issued : j.timer_ \in Addr /\ j.uid # 0
      BY <1>1 DEF TypeOK, IdType
    <3> QED
      BY <1>1, <1>2, <2>6, <2>7, <3>1 DEF Ids
  <2>18. Dead'
    <3>1. 0 \notin dead'
      BY <1>1, <2>5, <2>8 DEF TypeOK
    <3>2. \A b \in Addr \ {a} : heap[b].uid # heap[a].uid
      BY <1>1, <2>1, <2>3 DEF Numbers
    <3>3. \A u \in dead' : u <= s_numCreated'
      BY <1>1, <2>5, <2>8 DEF Dead
    <3> QED
      BY <1>1, <1>2, <2>2, <2>5, <2>6, <2>7, <3>1, <3>2, <3>3 DEF Dead
  <2> QED
    BY <1>6, <1>9, <2>9, <2>13, <2>14, <2>15, <2>16, <2>17, <2>18 DEF QueueInv
<1>11. CASE ~FoundActive(id)
  <2>1. /\ caneclingTimers_' = IF callingExpiredTimers_
                               THEN caneclingTimers_ \cup {<<id.timer_, id.sequence_>>}
                               ELSE caneclingTimers_
        /\ UNCHANGED <<heap, timers_, activeTimers_>>
        /\ dead' = IF InBatch(id) THEN dead \cup {id.uid} ELSE dead
    BY <1>11 DEF CancelInLoop
  <2>2. caneclingTimers_ \subseteq caneclingTimers_' /\ caneclingTimers_' \subseteq ActiveType
    BY <1>1, <1>3, <2>1 DEF TypeOK, ActiveType
  <2>3. TypeOK'
    BY <1>1, <1>3, <1>4, <2>1, <2>2 DEF TypeOK
  <2>4. Agree'
    BY <1>1, <2>1 DEF Agree, InQueue
  <2>5. \A b \in Addr : InQueue(b)' <=> InQueue(b)
    BY <2>1 DEF InQueue
  <2>6. OnePlace'
    BY <1>1, <1>2, <2>1, <2>5 DEF OnePlace
  <2>7. Numbers' /\ Ids' /\ Adds'
    <3>1. \A j \in issued : j.timer_ \in Addr
      BY <1>1 DEF TypeOK, IdType
    <3> QED
      BY <1>1, <1>2, <2>1, <3>1 DEF Numbers, Ids, Adds
  <2>8. \A u \in dead' : u <= s_numCreated'
    BY <1>1, <1>5, <2>1 DEF Dead
  <2>9. CASE InBatch(id)
    <3>1. heap[id.timer_].uid = id.uid /\ Called(id.timer_)
      BY <2>9 DEF InBatch, Called
    <3>2. heap[id.timer_].sequence = id.sequence_
      BY <1>1, <3>1 DEF Ids
    <3>3. callingExpiredTimers_ = TRUE
      BY <1>1, <3>1 DEF Phases, Called
    <3>4. <<id.timer_, heap[id.timer_].sequence>> \in caneclingTimers_'
      BY <2>1, <3>2, <3>3
    <3>5. \A b \in Addr : heap[b].uid = id.uid => b = id.timer_
      BY <1>1, <1>3, <3>1 DEF Numbers
    <3>6. dead' = dead \cup {id.uid}
      BY <2>1, <2>9
    <3>7. Dead'
      BY <1>1, <1>2, <2>1, <2>2, <2>8, <3>1, <3>4, <3>5, <3>6 DEF Dead
    <3> QED
      BY <1>6, <1>9, <2>3, <2>4, <2>6, <2>7, <3>7 DEF QueueInv
  <2>10. CASE ~InBatch(id)
    <3>1. Dead'
      BY <1>1, <1>2, <2>1, <2>2, <2>8, <2>10 DEF Dead
    <3> QED
      BY <1>6, <1>9, <2>3, <2>4, <2>6, <2>7, <3>1 DEF QueueInv
  <2> QED
    BY <2>9, <2>10
<1> QED
  BY <1>10, <1>11

\* cancel in the loop's thread.
LEMMA CancelStep ==
    ASSUME QueueInv, NEW id \in issued, Cancel(id) PROVE QueueInv'
<1>1. /\ CancelInLoop(id)
      /\ UNCHANGED <<clock, s_numCreated, alarm, armedAt, pc, readAt, expired, torun, adding, issued>>
      /\ functors' = functors
  BY DEF Cancel, handlerVars, timerfd
<1>2. /\ functors' \in Seq(FunctorType)
      /\ FunctorIds'
  BY <1>1 DEF QueueInv, TypeOK, FunctorIds
<1>3. /\ \A b \in Addr : Queued(b)' => Queued(b)
      /\ \A i, j \in DOMAIN functors', b \in Addr : Inserts(i, b)' /\ Inserts(j, b)' => i = j
  BY <1>1 DEF QueueInv, OnePlace, Queued, Inserts
<1> QED
  BY <1>1, <1>2, <1>3, CancelInLoopStep

\* What remains of the functors when the first is taken.
LEMMA TailOfFunctors ==
    ASSUME QueueInv, functors # <<>>, functors' = Tail(functors), issued' = issued
    PROVE  /\ functors' \in Seq(FunctorType)
           /\ Head(functors) = functors[1] /\ 1 \in DOMAIN functors
           /\ FunctorIds'
           /\ \A b \in Addr : Queued(b)' => Queued(b)
           /\ \A i, j \in DOMAIN functors', b \in Addr :
                 Inserts(i, b)' /\ Inserts(j, b)' => i = j
           /\ \A b \in Addr : Inserts(1, b) => Queued(b) /\ ~Queued(b)'
<1> DEFINE F == FunctorType
<1>1. functors \in Seq(F) /\ OnePlace /\ FunctorIds
  BY DEF QueueInv, TypeOK
<1> HIDE DEF F
<1>2. /\ functors' \in Seq(F)
      /\ Head(functors) = functors[1]
      /\ Len(functors) \in Nat \ {0}
      /\ DOMAIN functors = 1..Len(functors)
      /\ DOMAIN functors' = 1..(Len(functors) - 1)
      /\ \A i \in DOMAIN functors' : functors'[i] = functors[i + 1]
  BY <1>1
<1>3. /\ 1 \in DOMAIN functors
      /\ \A i \in DOMAIN functors' : i \in Nat /\ i + 1 \in DOMAIN functors /\ i + 1 # 1
  BY <1>2
<1>4. \A i \in DOMAIN functors', b \in Addr : Inserts(i, b)' => Inserts(i + 1, b)
  BY <1>2 DEF Inserts
<1>5. FunctorIds'
  BY <1>1, <1>2, <1>3 DEF FunctorIds
<1>6. \A b \in Addr : Queued(b)' => Queued(b)
  BY <1>3, <1>4 DEF Queued
<1>7. \A i, j \in DOMAIN functors, b \in Addr : Inserts(i, b) /\ Inserts(j, b) => i = j
  BY <1>1 DEF OnePlace
<1>8. ASSUME NEW i \in DOMAIN functors', NEW j \in DOMAIN functors', NEW b \in Addr,
             Inserts(i, b)', Inserts(j, b)'
      PROVE  i = j
  <2>1. i + 1 = j + 1
    BY <1>3, <1>4, <1>7, <1>8
  <2> QED
    BY <1>3, <2>1
<1>9. \A b \in Addr : Inserts(1, b) => Queued(b) /\ ~Queued(b)'
  BY <1>3, <1>4, <1>7 DEF Queued
<1> QED
  BY <1>2, <1>3, <1>5, <1>6, <1>8, <1>9 DEF F

\* The loop runs a functor.
LEMMA RunFunctorStep ==
    ASSUME QueueInv, RunFunctor PROVE QueueInv'
<1> DEFINE f == Head(functors)
<1>1. /\ TypeOK /\ Phases /\ Agree /\ OnePlace /\ Adds /\ Numbers /\ Ids /\ FunctorIds /\ Dead
      /\ Armed
  BY DEF QueueInv
<1>2. /\ functors # <<>> /\ functors' = Tail(functors)
      /\ UNCHANGED <<clock, s_numCreated, pc, readAt, expired, torun, adding, issued>>
  BY DEF RunFunctor, handlerVars
<1>3. /\ functors' \in Seq(FunctorType)
      /\ f = functors[1] /\ 1 \in DOMAIN functors
      /\ FunctorIds'
      /\ \A b \in Addr : Queued(b)' => Queued(b)
      /\ \A i, j \in DOMAIN functors', b \in Addr : Inserts(i, b)' /\ Inserts(j, b)' => i = j
      /\ \A b \in Addr : Inserts(1, b) => Queued(b) /\ ~Queued(b)'
  BY <1>2, TailOfFunctors
<1>4. f.op = "cancel" => f.id \in issued
  BY <1>1, <1>3 DEF FunctorIds
<1>5. CASE f.op = "cancel"
  <2>1. CancelInLoop(f.id) /\ alarm' = alarm /\ armedAt' = armedAt
    BY <1>5 DEF RunFunctor, timerfd
  <2> QED
    BY <1>2, <1>3, <1>4, <1>5, <2>1, CancelInLoopStep
<1>6. CASE f.op = "add"
  <2> PICK b \in Addr : b = f.timer
    BY <1>1, <1>3, <1>6 DEF TypeOK, FunctorType
  <2>1. /\ AddTimerInLoop(b, heap[b])
        /\ UNCHANGED <<heap, caneclingTimers_, callingExpiredTimers_, dead>>
    BY <1>6 DEF RunFunctor
  <2>2. Queued(b) /\ ~Queued(b)'
    BY <1>3, <1>6 DEF Inserts
  <2> HIDE DEF f
  <2>3. heap[b].uid # 0 /\ ~InQueue(b) /\ ~Called(b) /\ ~Building(b)
    BY <1>1, <2>2 DEF OnePlace
  <2>4. heap[b].expiration \in Nat /\ heap[b].sequence \in Nat
    BY <1>1 DEF TypeOK, TimerType
  <2>5. /\ timers_' = timers_ \cup {<<heap[b].expiration, b>>}
        /\ activeTimers_' = activeTimers_ \cup {<<b, heap[b].sequence>>}
    BY <2>1 DEF AddTimerInLoop
  <2>6. Armed' /\ alarm' \in Nat /\ armedAt' \in Nat
    BY <1>1, <1>2, <2>1, <2>4, AddTimerArmed
  <2>7. TypeOK'
    <3>1. timers_' \subseteq EntryType /\ activeTimers_' \subseteq ActiveType
      BY <1>1, <2>4, <2>5 DEF TypeOK, EntryType, ActiveType
    <3> QED
      BY <1>1, <1>2, <1>3, <2>1, <2>6, <3>1, SMTT(30) DEF TypeOK
  <2>8. Phases'
    BY <1>1, <1>2, <2>1 DEF Phases
  <2>9. InQueue(b)' /\ \A c \in Addr \ {b} : InQueue(c)' <=> InQueue(c)
    BY <2>1, <2>5 DEF InQueue
  <2>10. Agree'
    BY <1>1, <2>1, <2>5, <2>9 DEF Agree
  <2>11. \A c \in Addr : /\ Called(c)' <=> Called(c)
                         /\ Building(c)' <=> Building(c)
                         /\ Loading(c)' <=> Loading(c)
    BY <1>2 DEF Called, Building, Loading
  <2>12. OnePlace'
    BY <1>1, <1>2, <1>3, <2>1, <2>2, <2>3, <2>9, <2>11 DEF OnePlace
  <2>13. Numbers' /\ Ids' /\ Adds'
    <3>1. \A j \in issued : j.timer_ \in Addr
      BY <1>1 DEF TypeOK, IdType
    <3> QED
      BY <1>1, <1>2, <2>1, <2>11, <3>1 DEF Numbers, Ids, Adds
  <2>14. Dead'
    BY <1>1, <1>2, <2>1, <2>11 DEF Dead
  <2> QED
    BY <1>3, <2>6, <2>7, <2>8, <2>10, <2>12, <2>13, <2>14 DEF QueueInv
<1>7. f.op \in {"add", "cancel"}
  BY DEF RunFunctor
<1> QED
  BY <1>5, <1>6, <1>7

-----------------------------------------------------------------------------
(* The alarm.                                                              *)

\* timers_ is finite: each address is in it at most once.
LEMMA TimersFinite ==
    ASSUME TypeOK, Agree PROVE IsFiniteSet(timers_)
<1> DEFINE f == [e \in timers_ |-> e[2]]
<1>1. f \in [timers_ -> Addr]
  BY DEF TypeOK, EntryType
<1>2. \A e, g \in timers_ : f[e] = f[g] => e = g
  BY DEF TypeOK, EntryType, Agree
<1>3. f \in Injection(timers_, Addr)
  BY <1>1, <1>2 DEF Injection, IsInjective
<1> QED
  BY <1>3, FS_Injection, AddrAssumption

\* The batch is taken from timers_ and leaves nothing there that is due at 0.
LEMMA BatchFacts ==
    ASSUME TypeOK, Agree, NEW now \in Nat, NEW newtimer
    PROVE  /\ Expired(now, newtimer) \subseteq timers_
           /\ \A e \in timers_ : e[1] = 0 => e \in Expired(now, newtimer)
<1> DEFINE rest == FromLowerBound(now, newtimer)
           last == IF rest = {} THEN Cardinality(timers_) ELSE Min(Times(rest))
<1>1. Cardinality(timers_) \in Nat
  BY TimersFinite, FS_CardinalityType
<1>2. rest \subseteq timers_
  BY DEF FromLowerBound
<1>3. rest # {} => Min(Times(rest)) \in Nat
  <2>1. Times(rest) \in SUBSET Nat
    BY <1>2 DEF Times, TypeOK, EntryType
  <2>2. rest # {} => Times(rest) # {}
    BY DEF Times
  <2> HIDE DEF rest
  <2> QED
    BY <2>1, <2>2, NatHasMin
<1>4. last \in Nat
  <2> HIDE DEF rest
  <2> QED
    BY <1>1, <1>3
<1>5. Expired(now, newtimer) = {e \in timers_ : e[1] <= last}
  BY DEF Expired
<1> HIDE DEF rest, last
<1> QED
  BY <1>4, <1>5

\* handleRead up to its first callback.
LEMMA HandleReadStep ==
    ASSUME QueueInv, HandleRead PROVE QueueInv'
<1>1. /\ TypeOK /\ Phases /\ Agree /\ OnePlace /\ Adds /\ Numbers /\ Ids /\ FunctorIds /\ Dead
      /\ Armed
  BY DEF QueueInv
<1> PICK newtimer \in {a \in Addr : heap[a] = NoTimer} :
    LET now == Now(clock)
        batch == Expired(now, newtimer) IN
    /\ pc = "polled"
    /\ LoopIsFree
    /\ readTimerfd
    /\ readAt' = now
    /\ IF AssertBeforeEnd(now, newtimer)
       THEN /\ pc' = "calling"
            /\ expired' = batch
            /\ torun' = batch
            /\ timers_' = timers_ \ batch
            /\ activeTimers_' = activeTimers_ \ {<<e[2], heap[e[2]].sequence>> : e \in batch}
            /\ callingExpiredTimers_' = TRUE
            /\ caneclingTimers_' = {}
       ELSE pc' = "aborted" /\ UNCHANGED <<expired, torun, queueVars>>
    /\ UNCHANGED <<clock, s_numCreated, heap, functors, adding, issued, dead>>
  BY DEF HandleRead
<1> DEFINE now == Now(clock)
           batch == Expired(now, newtimer)
<1>2. /\ pc = "polled" /\ readAt' = now /\ alarm' \in Nat /\ armedAt' \in Nat
      /\ UNCHANGED <<clock, s_numCreated, heap, functors, adding, issued, dead>>
  BY <1>1 DEF readTimerfd, TypeOK, timerfd
<1>3. now \in Nat /\ now > 0
  BY <1>1, NowType DEF TypeOK, Phases
<1>4. expired = {} /\ callingExpiredTimers_ = FALSE
  BY <1>1, <1>2 DEF Phases
<1>5. CASE ~AssertBeforeEnd(now, newtimer)
  <2>1. /\ pc' = "aborted"
        /\ UNCHANGED <<expired, torun, timers_, activeTimers_, caneclingTimers_,
                       callingExpiredTimers_>>
    BY <1>5 DEF queueVars
  <2> HIDE DEF now
  <2>2. TypeOK'
    BY <1>1, <1>2, <1>3, <2>1 DEF TypeOK
  <2>3. Phases' /\ Armed'
    BY <1>1, <1>2, <1>4, <2>1 DEF Phases, Armed
  <2>4. Agree' /\ OnePlace' /\ Adds' /\ Numbers' /\ Ids' /\ FunctorIds' /\ Dead'
    BY <1>2, <2>1, Unmoved
  <2> QED
    BY <2>2, <2>3, <2>4 DEF QueueInv
<1>6. CASE AssertBeforeEnd(now, newtimer)
  <2>1. /\ pc' = "calling"
        /\ expired' = batch
        /\ torun' = batch
        /\ timers_' = timers_ \ batch
        /\ activeTimers_' = activeTimers_ \ {<<e[2], heap[e[2]].sequence>> : e \in batch}
        /\ callingExpiredTimers_' = TRUE
        /\ caneclingTimers_' = {}
    BY <1>6
  <2>2. batch \subseteq timers_ /\ \A e \in timers_ : e[1] = 0 => e \in batch
    BY <1>1, <1>3, BatchFacts
  <2> HIDE DEF now, batch
  <2>3. TypeOK'
    BY <1>1, <1>2, <1>3, <2>1, <2>2 DEF TypeOK
  <2>4. Phases' /\ Armed'
    BY <1>1, <1>2, <1>3, <2>1, <2>2 DEF Phases, Armed
  <2>5. \A a \in Addr : Called(a)' => <<heap[a].expiration, a>> \in batch
    <3>1. \A e \in batch : e = <<e[1], e[2]>> /\ e[2] \in Addr /\ e[1] = heap[e[2]].expiration
      BY <1>1, <2>2 DEF Agree, TypeOK, EntryType
    <3> QED
      BY <2>1, <3>1 DEF Called
  <2>6. \A a \in Addr : Called(a)' => InQueue(a)
    BY <1>1, <2>2, <2>5 DEF Agree
  <2>7. \A a \in Addr : <<heap[a].expiration, a>> \in batch => Called(a)'
    BY <2>1 DEF Called
  <2>8. \A a \in Addr : InQueue(a)' <=> InQueue(a) /\ ~Called(a)'
    BY <1>2, <2>1 DEF InQueue, Called
  <2>9. Agree'
    <3>1. timers_' \subseteq timers_ /\ activeTimers_' \subseteq activeTimers_
      BY <2>1
    <3>2. \A a \in Addr : <<heap[a].expiration, a>> \in timers_' <=> InQueue(a)'
      BY <1>1, <2>1, <2>5, <2>7, <2>8 DEF Agree
    <3> QED
      BY <1>1, <1>2, <3>1, <3>2 DEF Agree
  <2>10. \A a \in Addr : /\ Queued(a)' <=> Queued(a)
                         /\ Building(a)' <=> Building(a)
                         /\ Loading(a)' <=> Loading(a)
    BY <1>2 DEF Queued, Inserts, Building, Loading
  <2>11. OnePlace'
    BY <1>1, <1>2, <2>6, <2>8, <2>10 DEF OnePlace, Inserts
  <2>12. Adds' /\ Numbers' /\ Ids' /\ FunctorIds'
    <3>1. \A j \in issued : j.timer_ \in Addr
      BY <1>1 DEF TypeOK, IdType
    <3> QED
      BY <1>1, <1>2, <2>10, <3>1 DEF Adds, Numbers, Ids, FunctorIds
  <2>13. Dead'
    BY <1>1, <1>2, <1>4 DEF Dead, Called
  <2> QED
    BY <2>3, <2>4, <2>9, <2>11, <2>12, <2>13 DEF QueueInv
<1> QED
  BY <1>5, <1>6

\* handleRead after its last callback: what repeats and is not cancelled is
\* inserted again, the rest of the batch deleted.
LEMMA ResetStep ==
    ASSUME QueueInv, Reset PROVE QueueInv'
<1> DEFINE again == {e[2] : e \in Restarted}
           batch == {e[2] : e \in expired}
           w == Min(Times(timers_'))
<1>1. /\ TypeOK /\ Phases /\ Agree /\ OnePlace /\ Adds /\ Numbers /\ Ids /\ FunctorIds /\ Dead
      /\ Armed
  BY DEF QueueInv
<1>2. /\ pc = "calling" /\ pc' = "idle" /\ expired' = {} /\ torun = {} /\ readAt' = 0
      /\ heap' = [a \in Addr |-> IF a \in again THEN Restart(heap[a], readAt)
                                 ELSE IF a \in batch THEN NoTimer ELSE heap[a]]
      /\ timers_' = timers_ \cup {<<heap'[a].expiration, a>> : a \in again}
      /\ activeTimers_' = activeTimers_ \cup {<<a, heap[a].sequence>> : a \in again}
      /\ callingExpiredTimers_' = FALSE
      /\ timers_' # {} /\ w > 0 => resetTimerfd(w)
      /\ ~(timers_' # {} /\ w > 0) => UNCHANGED timerfd
      /\ UNCHANGED <<clock, s_numCreated, caneclingTimers_, torun, functors, adding, issued,
                     dead>>
  BY DEF Reset
<1>3. /\ again \subseteq batch /\ batch \subseteq Addr
      /\ \A a \in Addr : a \in batch <=> Called(a)
      /\ \A a \in again : <<a, heap[a].sequence>> \notin caneclingTimers_
  BY <1>1 DEF Restarted, Called, TypeOK, EntryType
<1> HIDE DEF again, batch, w
<1>4. /\ heap \in [Addr -> TimerType] /\ readAt \in Nat /\ readAt > 0
      /\ clock \in Nat /\ alarm \in Nat /\ armedAt \in Nat
  BY <1>1, <1>2 DEF TypeOK, Phases
<1>5. NoTimer \in TimerType /\ NoTimer.uid = 0 /\ NoTimer.sequence = 0
  BY BoundAssumption DEF NoTimer, Timer, TimerType
<1>6. ASSUME NEW a \in again
      PROVE  /\ heap'[a] \in TimerType /\ heap'[a].expiration \in Nat \ {0}
             /\ heap'[a].uid = heap[a].uid /\ heap'[a].sequence = heap[a].sequence
  <2> DEFINE x == addTime(readAt, heap[a].interval)
  <2>1. a \in Addr /\ heap[a] \in TimerType
    BY <1>3, <1>4
  <2>2. x \in Nat \ {0}
    BY <1>4, <2>1 DEF addTime, TimerType
  <2> HIDE DEF x
  <2>3. heap'[a] = [heap[a] EXCEPT !.expiration = x]
    BY <1>2, <2>1 DEF Restart, x
  <2> QED
    BY <2>1, <2>2, <2>3 DEF TimerType
<1>7. /\ \A a \in batch \ again : heap'[a] = NoTimer
      /\ \A a \in Addr \ batch : heap'[a] = heap[a]
  BY <1>2, <1>3
<1>8. /\ heap' \in [Addr -> TimerType]
      /\ \A a \in Addr : \/ heap'[a] = NoTimer
                         \/ heap'[a].uid = heap[a].uid /\ heap'[a].sequence = heap[a].sequence
  <2>1. \A a \in Addr : heap'[a] \in TimerType
    BY <1>3, <1>4, <1>5, <1>6, <1>7
  <2>2. heap' = [a \in Addr |-> heap'[a]]
    BY <1>2
  <2> QED
    BY <1>3, <1>6, <1>7, <2>1, <2>2
<1>9. \A e \in timers_ : e[1] \in Nat /\ e[2] \in Addr \ batch
  BY <1>1, <1>3 DEF TypeOK, EntryType, Agree, OnePlace
<1>10. \A x \in activeTimers_ : x[1] \in Addr \ batch
  BY <1>1, <1>3 DEF TypeOK, ActiveType, Agree, InQueue, OnePlace
<1>11. /\ \A e : e \in timers_' <=>
               e \in timers_ \/ \E a \in again : e = <<heap'[a].expiration, a>>
       /\ \A x : x \in activeTimers_' <=>
               x \in activeTimers_ \/ \E a \in again : x = <<a, heap[a].sequence>>
  BY <1>2, Zenon
<1>12. \A a \in again : /\ a \in Addr /\ a \in batch
                        /\ heap'[a].expiration \in Nat \ {0}
                        /\ heap[a].sequence \in Nat
                        /\ heap'[a].uid = heap[a].uid
                        /\ heap'[a].sequence = heap[a].sequence
  BY <1>3, <1>4, <1>6 DEF TimerType
<1>13. /\ timers_' \subseteq EntryType /\ activeTimers_' \subseteq ActiveType
  BY <1>1, <1>11, <1>12 DEF TypeOK, EntryType, ActiveType
<1>14. alarm' \in Nat /\ armedAt' \in Nat /\ (timers_' # {} => w \in Nat /\ \A e \in timers_' : w <= e[1])
  <2>1. Times(timers_') \in SUBSET Nat /\ (timers_' # {} => Times(timers_') # {})
    BY <1>13 DEF Times, EntryType
  <2>2. timers_' # {} => w \in Nat /\ \A v \in Times(timers_') : w <= v
    BY <2>1, NatHasMin DEF w
  <2>3. timers_' # {} => \A e \in timers_' : w <= e[1]
    BY <2>2 DEF Times
  <2>4. CASE timers_' # {} /\ w > 0
    <3>1. resetTimerfd(w) /\ w \in Nat
      BY <1>2, <2>2, <2>4
    <3>2. alarm' \in Nat /\ armedAt' \in Nat
      BY <1>4, <3>1, ResetTimerfdFacts
    <3> QED
      BY <2>2, <2>3, <3>2
  <2>5. CASE ~(timers_' # {} /\ w > 0)
    <3>1. UNCHANGED timerfd
      BY <1>2, <2>5
    <3>2. alarm' \in Nat /\ armedAt' \in Nat
      BY <1>4, <3>1 DEF timerfd
    <3> QED
      BY <2>2, <2>3, <3>2
  <2> QED
    BY <2>4, <2>5
<1>15. TypeOK'
  BY <1>1, <1>2, <1>8, <1>13, <1>14 DEF TypeOK
<1>16. Phases'
  BY <1>1, <1>2 DEF Phases
<1>17. /\ \A a \in again : InQueue(a)'
       /\ \A a \in batch \ again : ~InQueue(a)'
       /\ \A a \in Addr \ batch : InQueue(a)' <=> InQueue(a)
  BY <1>3, <1>7, <1>10, <1>11, <1>12 DEF InQueue
<1>18. Agree'
  <2>1. \A e \in timers_' : e[1] = heap'[e[2]].expiration
    BY <1>1, <1>7, <1>9, <1>11 DEF Agree
  <2>2. \A x \in activeTimers_' : x[2] = heap'[x[1]].sequence
    BY <1>1, <1>7, <1>10, <1>11, <1>12 DEF Agree
  <2>3. ASSUME NEW a \in Addr
        PROVE  <<heap'[a].expiration, a>> \in timers_' <=> InQueue(a)'
    <3>1. CASE a \in again
      BY <1>17, <1>11, <3>1
    <3>2. CASE a \in batch \ again
      BY <1>9, <1>17, <1>11, <3>2
    <3>3. CASE a \in Addr \ batch
      BY <1>1, <1>3, <1>7, <1>17, <1>11, <3>3 DEF Agree
    <3> QED
      BY <3>1, <3>2, <3>3
  <2> QED
    BY <2>1, <2>2, <2>3 DEF Agree
<1>19. \A a \in Addr : /\ ~Called(a)'
                       /\ Queued(a)' <=> Queued(a)
                       /\ Building(a)' <=> Building(a)
                       /\ Loading(a)' <=> Loading(a)
  BY <1>2 DEF Called, Queued, Inserts, Building, Loading
<1>20. OnePlace'
  <2>1. \A i, j \in DOMAIN functors', a \in Addr : Inserts(i, a)' /\ Inserts(j, a)' => i = j
    BY <1>1, <1>2 DEF OnePlace, Inserts
  <2>2. ASSUME NEW a \in Addr
        PROVE  /\ InQueue(a)' \/ Queued(a)' => heap'[a].uid # 0
               /\ ~(InQueue(a)' /\ Queued(a)')
               /\ Building(a)' => ~InQueue(a)' /\ ~Queued(a)'
    <3>1. CASE a \in batch
      BY <1>1, <1>2, <1>3, <1>6, <1>17, <1>19, <3>1 DEF OnePlace
    <3>2. CASE a \notin batch
      BY <1>1, <1>2, <1>7, <1>17, <1>19, <3>2 DEF OnePlace
    <3> QED
      BY <3>1, <3>2
  <2> QED
    BY <1>19, <2>1, <2>2 DEF OnePlace
<1>26. Adds'
  <2>1. \A t \in Threads : adding[t].step \in {"load", "push"} => adding[t].timer_ \in Addr \ batch
    BY <1>1, <1>3 DEF Adds, OnePlace, Building
  <2> QED
    BY <1>1, <1>2, <1>7, <2>1 DEF Adds
<1>21. Numbers'
  <2>1. s_numCreated \in Nat
    BY <1>1 DEF TypeOK
  <2>2. \A a \in Addr : /\ heap'[a].uid <= s_numCreated
                        /\ heap'[a].sequence <= s_numCreated
                        /\ heap'[a].uid # 0 => /\ heap'[a].uid = heap[a].uid
                                               /\ heap'[a].sequence = heap[a].sequence
    BY <1>1, <1>5, <1>8, <2>1 DEF Numbers
  <2>3. \A a \in Addr : heap'[a].uid = 0 => heap'[a] = NoTimer
    BY <1>1, <1>3, <1>6, <1>7 DEF OnePlace, Numbers
  <2> QED
    <3>1. s_numCreated' = s_numCreated
      BY <1>2
    <3>2. \A a \in Addr : heap'[a].uid # 0 /\ ~Loading(a)' => heap'[a].sequence >= heap'[a].uid
      BY <1>1, <1>19, <2>2 DEF Numbers
    <3>3. \A a, b \in Addr : heap'[a].uid = heap'[b].uid /\ heap'[a].uid # 0 => a = b
      BY <1>1, <2>2 DEF Numbers
    <3> QED
      BY <2>2, <2>3, <3>1, <3>2, <3>3 DEF Numbers
<1>22. Ids'
  <2>1. \A j \in issued : j.timer_ \in Addr /\ j.uid # 0
    BY <1>1 DEF TypeOK, IdType
  <2> QED
    BY <1>1, <1>2, <1>5, <1>8, <1>19, <2>1 DEF Ids
<1>23. FunctorIds'
  BY <1>1, <1>2 DEF FunctorIds
<1>24. Dead'
  <2>1. 0 \notin dead
    BY <1>1 DEF TypeOK
  <2>2. \A a \in Addr : heap'[a].uid \notin dead
    BY <1>1, <1>3, <1>5, <1>7, <1>8, <2>1 DEF Dead
  <2> QED
    BY <1>1, <1>2, <2>2 DEF Dead
<1>25. Armed'
  <2>1. \A e \in timers_' : e[1] \in Nat
    BY <1>13 DEF EntryType
  <2> SUFFICES ASSUME NEW e \in timers_' PROVE ArmedFor(e[1])'
    BY <1>2 DEF Armed
  <2>2. CASE w > 0
    <3>1. resetTimerfd(w) /\ w \in Nat /\ w <= e[1]
      BY <1>2, <1>14, <2>2
    <3> QED
      BY <1>4, <2>1, <3>1, ResetTimerfdFacts
  <2>3. CASE ~(w > 0)
    <3>1. w = 0 /\ UNCHANGED timerfd
      BY <1>2, <1>14, <2>3
    <3>2. PICK g \in timers_' : g[1] = 0
      <4>1. Times(timers_') \in SUBSET Nat /\ Times(timers_') # {}
        BY <2>1 DEF Times
      <4>2. w \in Times(timers_')
        BY <4>1, NatHasMin DEF w
      <4> QED
        BY <3>1, <4>2 DEF Times
    <3>3. g \in timers_
      BY <1>11, <1>12, <3>2
    <3>4. ArmedFor(0)
      BY <1>1, <1>2, <3>2, <3>3 DEF Armed
    <3>5. ArmedFor(e[1])
      BY <1>4, <2>1, <3>4, ArmedForLater
    <3> QED
      BY <3>1, <3>5, SameAlarm
  <2> QED
    BY <2>2, <2>3
<1> QED
  BY <1>15, <1>16, <1>18, <1>20, <1>21, <1>22, <1>23, <1>24, <1>25, <1>26 DEF QueueInv

\* ~TimerQueue.
LEMMA DestroyStep ==
    ASSUME QueueInv, Destroy PROVE QueueInv'
<1> DEFINE held == {e[2] : e \in timers_}
<1>1. /\ TypeOK /\ Phases /\ Agree /\ OnePlace /\ Adds /\ Numbers /\ Ids /\ FunctorIds /\ Dead
  BY DEF QueueInv
<1>2. /\ pc = "idle" /\ pc' = "gone" /\ timers_' = {} /\ activeTimers_' = {} /\ alarm' = 0
      /\ armedAt' = 0
      /\ heap' = [a \in Addr |-> IF a \in held THEN NoTimer ELSE heap[a]]
      /\ UNCHANGED <<clock, s_numCreated, caneclingTimers_, callingExpiredTimers_, readAt,
                     expired, torun, functors, adding, issued, dead>>
  BY DEF Destroy
<1>3. \A a \in held : a \in Addr /\ InQueue(a)
  BY <1>1 DEF TypeOK, EntryType, Agree
<1> HIDE DEF held
<1>4. NoTimer \in TimerType /\ NoTimer.uid = 0 /\ NoTimer.sequence = 0
  BY BoundAssumption DEF NoTimer, Timer, TimerType
<1>5. heap' \in [Addr -> TimerType] /\ \A a \in Addr : heap'[a] \in {NoTimer, heap[a]}
  BY <1>1, <1>2, <1>4 DEF TypeOK
<1>6. \A a \in Addr : Queued(a) \/ Building(a) => heap'[a] = heap[a]
  BY <1>1, <1>2, <1>3 DEF OnePlace
<1>7. expired = {}
  BY <1>1, <1>2 DEF Phases
<1>8. TypeOK'
  BY <1>1, <1>2, <1>5 DEF TypeOK
<1>9. Phases' /\ Armed'
  BY <1>1, <1>2 DEF Phases, Armed
<1>10. Agree'
  BY <1>2 DEF Agree, InQueue
<1>11. OnePlace'
  <2>1. \A a \in Addr : ~InQueue(a)' /\ ~Called(a)' /\ (Queued(a)' <=> Queued(a))
    BY <1>2, <1>7 DEF InQueue, Called, Queued, Inserts
  <2>2. \A i, j \in DOMAIN functors', b \in Addr : Inserts(i, b)' /\ Inserts(j, b)' => i = j
    BY <1>1, <1>2 DEF OnePlace, Inserts
  <2>3. \A a \in Addr : Building(a)' <=> Building(a)
    BY <1>2 DEF Building
  <2> QED
    BY <1>1, <1>6, <2>1, <2>2, <2>3 DEF OnePlace
<1>16. Adds'
  <2>1. \A t \in Threads : adding[t].step \in {"load", "push"} =>
              heap'[adding[t].timer_] = heap[adding[t].timer_]
    BY <1>1, <1>6 DEF Adds, Building
  <2> QED
    BY <1>1, <1>2, <2>1 DEF Adds
<1>17. \A a \in Addr : (Loading(a)' <=> Loading(a)) /\ (Building(a)' <=> Building(a))
  BY <1>2 DEF Loading, Building
<1>12. Numbers'
  <2>1. s_numCreated \in Nat
    BY <1>1 DEF TypeOK
  <2> QED
    BY <1>1, <1>2, <1>4, <1>5, <1>17, <2>1 DEF Numbers
<1>13. Ids'
  <2>1. \A j \in issued : j.timer_ \in Addr /\ j.uid # 0
    BY <1>1 DEF TypeOK, IdType
  <2> QED
    BY <1>1, <1>2, <1>4, <1>5, <1>17, <2>1 DEF Ids
<1>14. FunctorIds'
  BY <1>1, <1>2 DEF FunctorIds
<1>15. Dead'
  <2>1. 0 \notin dead
    BY <1>1 DEF TypeOK
  <2> QED
    BY <1>1, <1>2, <1>4, <1>5, <1>7, <2>1 DEF Dead, Called
<1> QED
  BY <1>8, <1>9, <1>10, <1>11, <1>12, <1>13, <1>14, <1>15, <1>16 DEF QueueInv

-----------------------------------------------------------------------------
(* Theorems.                                                               *)

\* The invariant is inductive: it holds of a new queue and every step of a
\* call in any thread, every functor, alarm and callback keeps it.
THEOREM QueueInvariant == Spec => []QueueInv
<1>1. Init => QueueInv
  <2> SUFFICES ASSUME Init PROVE QueueInv
    OBVIOUS
  <2> USE DEF Init
  <2>1. NoTimer \in TimerType /\ NoTimer.uid = 0 /\ NoTimer.sequence = 0
    BY BoundAssumption DEF NoTimer, Timer, TimerType
  <2>2. clock \in Nat /\ clock >= MicroSecondsPerSecond
    <3>1. Epoch \in Nat /\ Epoch >= 1 /\ MicroSecondsPerSecond \in Nat
      BY BoundAssumption, TimeAssumption
    <3>2. \A x, y \in Nat : x >= 1 => x * y \in Nat /\ x * y >= y
      OBVIOUS
    <3>3. clock = Epoch * MicroSecondsPerSecond
      OBVIOUS
    <3>4. Epoch * MicroSecondsPerSecond \in Nat
          /\ Epoch * MicroSecondsPerSecond >= MicroSecondsPerSecond
      BY <3>1, <3>2, Zenon
    <3> QED
      BY <3>3, <3>4, Zenon
  <2>3. TypeOK
    <3>1. /\ s_numCreated = 0 /\ heap = [a \in Addr |-> NoTimer] /\ timers_ = {}
          /\ activeTimers_ = {} /\ caneclingTimers_ = {} /\ callingExpiredTimers_ = FALSE
          /\ alarm = 0 /\ pc = "idle" /\ readAt = 0 /\ expired = {} /\ torun = {}
          /\ functors = <<>> /\ adding = [t \in Threads |-> NotAdding] /\ armedAt = 0
          /\ issued = {} /\ dead = {}
      OBVIOUS
    <3>2. callingExpiredTimers_ \in BOOLEAN
      BY <3>1, Zenon
    <3>3. MaxTimers \in Nat
      BY BoundAssumption
    <3> HIDE DEF Init
    <3>4. heap \in [Addr -> TimerType]
      BY <2>1, <3>1
    <3>5. adding \in [Threads -> AddingType]
      <4>1. NotAdding \in AddingType
        BY <3>3 DEF NotAdding, Adding, AddingType
      <4> QED
        BY <3>1, <4>1
    <3> QED
      BY <2>2, <3>1, <3>2, <3>3, <3>4, <3>5 DEF TypeOK
  <2>4. Phases /\ Agree
    BY <2>2 DEF Phases, Agree, InQueue
  <2>5. \A t \in Threads : adding[t].step = "none"
    BY DEF NotAdding, Adding
  <2>6. OnePlace
    BY <2>5 DEF OnePlace, InQueue, Called, Queued, Building
  <2>7. Adds /\ Numbers
    BY <2>1, <2>5 DEF Adds, Numbers
  <2>8. Ids /\ FunctorIds /\ Dead /\ Armed
    BY DEF Ids, FunctorIds, Dead, Armed
  <2> QED
    BY <2>3, <2>4, <2>6, <2>7, <2>8 DEF QueueInv
<1>2. QueueInv /\ [Next]_vars => QueueInv'
  <2> SUFFICES ASSUME QueueInv, [Next]_vars PROVE QueueInv'
    OBVIOUS
  <2>1. CASE Tick
    BY <2>1, TickStep
  <2>2. ASSUME NEW t \in Threads, NEW a \in Addr, NEW r \in Requests, ConstructTimer(t, a, r)
        PROVE  QueueInv'
    BY <2>2, ConstructTimerStep
  <2>3. ASSUME NEW t \in Threads, LoadSequence(t) PROVE QueueInv'
    BY <2>3, LoadSequenceStep
  <2>4. CASE AddTimer
    BY <2>4, AddTimerStep
  <2>5. ASSUME NEW t \in Threads, QueueTimer(t) PROVE QueueInv'
    BY <2>5, QueueTimerStep
  <2>6. ASSUME NEW t \in Threads, ReturnTimerId(t) PROVE QueueInv'
    BY <2>6, ReturnTimerIdStep
  <2>14. ASSUME NEW id \in issued, Cancel(id) PROVE QueueInv'
    BY <2>14, CancelStep
  <2>15. ASSUME NEW t \in Threads, NEW id \in issued, QueueCancel(t, id) PROVE QueueInv'
    BY <2>15, QueueCancelStep
  <2>7. CASE RunFunctor
    BY <2>7, RunFunctorStep
  <2>8. CASE Poll
    BY <2>8, PollStep
  <2>9. CASE HandleRead
    BY <2>9, HandleReadStep
  <2>10. CASE RunCallback
    BY <2>10, RunCallbackStep
  <2>11. CASE Reset
    BY <2>11, ResetStep
  <2>12. CASE Destroy
    BY <2>12, DestroyStep
  <2>13. CASE UNCHANGED vars
    <3>1. Agree' /\ OnePlace' /\ Adds' /\ Numbers' /\ Ids' /\ FunctorIds' /\ Dead'
      BY <2>13, Unmoved DEF vars
    <3>2. TypeOK' /\ Phases' /\ Armed'
      BY <2>13, UnmovedArmed DEF vars, timerfd, QueueInv, TypeOK, Phases
    <3> QED
      BY <3>1, <3>2 DEF QueueInv
  <2> QED
    BY <2>1, <2>2, <2>3, <2>4, <2>5, <2>6, <2>7, <2>8, <2>9, <2>10, <2>11, <2>12, <2>13, <2>14, <2>15 DEF Next
<1> QED
  BY <1>1, <1>2, PTL DEF Spec

\* Every variable of the queue keeps its type; in particular alarm and
\* expirations stay natural numbers in every order of calls.
THEOREM QueueTypes == Spec => []TypeOK
BY QueueInvariant, PTL DEF QueueInv

\* timers_ and activeTimers_ hold the same live timers, none of them in the
\* batch or in a functor as well: the assertions of insert, getExpired and
\* cancelInLoop on the sizes of the sets never fail, and the loop's thread
\* follows no pointer to a deleted Timer.
THEOREM QueueSetsAgree == Spec => []SetsAgree
<1>1. QueueInv => SetsAgree
  <2> SUFFICES ASSUME QueueInv PROVE SetsAgree
    OBVIOUS
  <2> DEFINE active == {x[1] : x \in activeTimers_}
             batch == {e[2] : e \in expired}
  <2>1. TypeOK /\ Agree /\ OnePlace
    BY DEF QueueInv
  <2>2. /\ active \subseteq Addr /\ batch \subseteq Addr /\ Waiting \subseteq Addr
        /\ \A a \in Addr : a \in active <=> InQueue(a)
        /\ \A a \in Addr : a \in batch <=> Called(a)
        /\ \A a \in Addr : a \in Waiting <=> Queued(a)
    <3>1. active \subseteq Addr /\ \A a \in Addr : a \in active <=> InQueue(a)
      BY <2>1, SMTT(30) DEF TypeOK, ActiveType, Agree, InQueue
    <3>2. batch \subseteq Addr /\ \A a \in Addr : a \in batch <=> Called(a)
      BY <2>1 DEF TypeOK, EntryType, Called
    <3>3. Waiting \subseteq Addr /\ \A a \in Addr : a \in Waiting <=> Queued(a)
      <4>1. \A i \in DOMAIN functors : functors[i].op = "add" => functors[i].timer \in Addr
        BY <2>1 DEF TypeOK, FunctorType
      <4>2. \A a : a \in Waiting <=> Queued(a)
        BY Zenon DEF Waiting, Queued, Inserts
      <4> QED
        BY <4>1, <4>2 DEF Queued, Inserts
    <3> QED
      BY <3>1, <3>2, <3>3
  <2>3. timers_ = {<<heap[a].expiration, a>> : a \in active}
    <3>1. \A e \in timers_ : e[2] \in active /\ e = <<heap[e[2]].expiration, e[2]>>
      BY <2>1, <2>2 DEF TypeOK, EntryType, Agree
    <3>2. \A a \in active : <<heap[a].expiration, a>> \in timers_
      BY <2>1, <2>2 DEF Agree
    <3> HIDE DEF active
    <3> QED
      BY <3>1, <3>2
  <2>4. activeTimers_ = {<<a, heap[a].sequence>> : a \in active}
    <3>1. \A x \in activeTimers_ : x[1] \in active /\ x = <<x[1], heap[x[1]].sequence>>
      BY <2>1 DEF TypeOK, ActiveType, Agree
    <3>2. \A a \in active : <<a, heap[a].sequence>> \in activeTimers_
      BY <2>1, <2>2 DEF InQueue
    <3> HIDE DEF active
    <3> QED
      BY <3>1, <3>2
  <2> HIDE DEF active, batch
  <2>5. \A a \in active \cup batch \cup Waiting : heap[a] # NoTimer
    BY <2>1, <2>2 DEF OnePlace, NoTimer, Timer
  <2>6. active \cap batch = {} /\ (active \cup batch) \cap Waiting = {}
    BY <2>1, <2>2 DEF OnePlace
  <2> QED
    BY <2>3, <2>4, <2>5, <2>6 DEF SetsAgree, active, batch
<1> QED
  BY <1>1, QueueInvariant, PTL

\* A TimerId that was not read late finds, if any, its own timer in
\* activeTimers_, even when its address was used again or its sequence number
\* drawn twice.
THEOREM QueueIdNamesItsTimer == Spec => []IdNamesItsTimer
<1>1. QueueInv => IdNamesItsTimer
  BY FoundIsNamed DEF IdNamesItsTimer
<1> QED
  BY <1>1, QueueInvariant, PTL

\* Once the batch is over, no timer that a cancel() found exists any more.
THEOREM QueueCancelledIsGone == Spec => []CancelledIsGone
<1>1. QueueInv => CancelledIsGone
  BY DEF QueueInv, CancelledIsGone, Dead, Phases, Called
<1> QED
  BY <1>1, QueueInvariant, PTL

\* Between two batches the alarm is set, and was set for the timer that is
\* first now, or for an earlier one.
THEOREM QueueAlarmForFirst == Spec => []AlarmForFirst
<1>1. QueueInv => AlarmForFirst
  <2> SUFFICES ASSUME QueueInv, pc \in {"idle", "polled"}, timers_ # {}
               PROVE  ArmedFor(Min(Times(timers_)))
    BY DEF AlarmForFirst, ArmedFor
  <2>1. Times(timers_) \in SUBSET Nat /\ Times(timers_) # {}
    BY DEF QueueInv, TypeOK, EntryType, Times
  <2>2. PICK e \in timers_ : e[1] = Min(Times(timers_))
    <3>1. Min(Times(timers_)) \in Times(timers_)
      BY <2>1, NatHasMin
    <3> QED
      BY <3>1 DEF Times
  <2> QED
    BY <2>2 DEF QueueInv, Armed
<1> QED
  BY <1>1, QueueInvariant, PTL
=============================================================================
