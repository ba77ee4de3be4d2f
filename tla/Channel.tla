------------------------------- MODULE Channel -------------------------------
(***************************************************************************)
(* class channel (resoure/Channel.h) and the EPollPoller operations behind *)
(* it (resoure/EpollPoll.cpp), as operators on one channel:                *)
(*                                                                         *)
(*   index    index_, the poller's note on the channel                     *)
(*   events   events_, what the channel wants to hear of                   *)
(*   mapped   EPollPoller::channels_ has the channel                       *)
(*   epoll    what the kernel watches for it, Unwatched if nothing         *)
(*   fatal    epoll_ctl refused an ADD or a MOD: LOG_FATAL, exit(-1)       *)
(*                                                                         *)
(* Reading stands for EPOLLIN|EPOLLPRI, Writing for EPOLLOUT.              *)
(***************************************************************************)
Reading == "r"
Writing == "w"

KNew == "new"
KAdded == "added"
KDeleted == "deleted"

Unwatched == [watched |-> FALSE, events |-> {}]
Watching(E) == [watched |-> TRUE, events |-> E]

ChannelType == [index : {KNew, KAdded, KDeleted},
                events : SUBSET {Reading, Writing},
                mapped : BOOLEAN,
                epoll : [watched : BOOLEAN, events : SUBSET {Reading, Writing}],
                fatal : BOOLEAN]

NewChannel == [index |-> KNew, events |-> {}, mapped |-> FALSE,
               epoll |-> Unwatched, fatal |-> FALSE]

\* EPollPoller::update.  The kernel refuses to add a descriptor twice, and
\* to modify or delete one it does not have; a refused DEL is only logged.
CtlAdd(ch) == IF ch.epoll.watched THEN [ch EXCEPT !.fatal = TRUE]
              ELSE [ch EXCEPT !.epoll = Watching(ch.events)]
CtlMod(ch) == IF ch.epoll.watched THEN [ch EXCEPT !.epoll = Watching(ch.events)]
              ELSE [ch EXCEPT !.fatal = TRUE]
CtlDel(ch) == [ch EXCEPT !.epoll = Unwatched]

\* Mutant: the index of an added channel is not set.
UpdateChannel_NoIndex(ch) ==
    IF ch.index \in {KNew, KDeleted}
    THEN CtlAdd([ch EXCEPT !.mapped = @ \/ ch.index = KNew])
    ELSE IF ch.events = {}
    THEN [CtlDel(ch) EXCEPT !.index = KDeleted]
    ELSE CtlMod(ch)

\* EPollPoller::updateChannel.  A new or deleted channel is added whatever
\* its events are, none included.
UpdateChannel(ch) ==
    IF ch.index \in {KNew, KDeleted}
    THEN CtlAdd([ch EXCEPT !.index = KAdded,
                           !.mapped = @ \/ ch.index = KNew])
    ELSE IF ch.events = {}
    THEN [CtlDel(ch) EXCEPT !.index = KDeleted]
    ELSE CtlMod(ch)

\* Mutant: the channel is left in epoll.
RemoveChannel_NoDel(ch) == [ch EXCEPT !.mapped = FALSE, !.index = KNew]

\* EPollPoller::removeChannel.
RemoveChannel(ch) ==
    LET del == IF ch.index = KAdded THEN CtlDel(ch) ELSE ch
    IN  [del EXCEPT !.mapped = FALSE, !.index = KNew]

\* channel::enableReading and its relatives: set the bits, then update().
EnableReading(ch) == UpdateChannel([ch EXCEPT !.events = @ \cup {Reading}])
EnableWriting(ch) == UpdateChannel([ch EXCEPT !.events = @ \cup {Writing}])
DisableWriting(ch) == UpdateChannel([ch EXCEPT !.events = @ \ {Writing}])
DisableAll(ch) == UpdateChannel([ch EXCEPT !.events = {}])

IsWriting(ch) == Writing \in ch.events
=============================================================================
