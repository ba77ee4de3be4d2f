---------------------------- MODULE TcpConnection ----------------------------
(***************************************************************************)
(* class TcpConnection (resoure/TcpConnection.cpp) as operators on one     *)
(* connection, for the thread of its loop:                                 *)
(*                                                                         *)
(*   state    state_                                                       *)
(*   ch       channel_                                                     *)
(*   sent     messages that send() has accepted                            *)
(*   wire     messages the kernel has taken                                *)
(*   out      messages in outputBuffer_ (a message is one unit; the kernel *)
(*            takes any number of units at a time, or none)                *)
(*   reach    how far outputBuffer_ was written: up to size(), past it in  *)
(*            the capacity, or beyond the capacity                         *)
(*   stuck    writeIndex_ of inputBuffer_ is past size(), for good         *)
(*   fin      shutdown(SHUT_WR) was called on the socket                   *)
(*   rx       messages of the peer waiting in the socket                   *)
(*   peer     what the peer did: open, fin (closed its side) or rst        *)
(*   err      SO_ERROR: the reset was not reported yet                     *)
(*   heard    history: the callbacks of the user; of the messages only one *)
(*            that does not come between up and down                       *)
(*                                                                         *)
(* A handler that calls the kernel or the user is a set of results, one    *)
(* for each answer; a result is [k, call]: the connection after it, and    *)
(* what it asks of others: "complete" queues the write complete callback,  *)
(* "close" calls closeCallback_.                                           *)
(***************************************************************************)
EXTENDS Channel, Integers, Sequences

CONSTANTS MaxSends,    \* bound: messages a user hands to one connection
          Overflows     \* the buffers for which size() may be too small

ASSUME SendsAssumption == MaxSends \in Nat
ASSUME OverflowsAssumption == Overflows \subseteq {"inputBuffer_", "outputBuffer_"}

kConnecting == "kConnecting"
kConnected == "kConnected"
kDisconnecting == "kDisconnecting"
kDisconnected == "kDisconnected"

ConnectionType ==
    [state : {kConnecting, kConnected, kDisconnecting, kDisconnected},
     ch : ChannelType,
     sent : 0..MaxSends, wire : 0..MaxSends, out : 0..MaxSends,
     reach : {"size", "capacity", "beyond"}, stuck : BOOLEAN,
     fin : BOOLEAN,
     rx : {0, 1},
     peer : {"open", "fin", "rst"}, err : BOOLEAN,
     heard : Seq({"up", "message", "down"})]

NewConnection ==
    [state |-> kConnecting, ch |-> NewChannel, sent |-> 0, wire |-> 0,
     out |-> 0, reach |-> "size", stuck |-> FALSE, fin |-> FALSE,
     rx |-> 0, peer |-> "open", err |-> FALSE, heard |-> <<>>]

Result(k, call) == [k |-> k, call |-> call]

\* The user hears of an event.
Hear(k, what) ==
    [k EXCEPT !.heard = IF what = "message" /\ @ = <<"up">> THEN @
                        ELSE Append(@, what)]

-----------------------------------------------------------------------------
(* Sending and shutting down, in the loop's thread.                        *)

\* Whether the kernel can take data: not after a FIN of ours or a reset.
Broken(k) == k.fin \/ k.peer = "rst"

\* outputBuffer_.append: what does not fit goes past size(), into capacity
\* that makeSpace reserves for it.  From then on writableBytes() has wrapped
\* around, nothing is reserved, and a further append stays within the
\* capacity only if an earlier one has left enough of it.  To write beyond
\* it is undefined behaviour: the model goes on as when nobody else uses
\* that memory.
Appended(k) == IF k.reach # "size" THEN {k.reach, "beyond"}
               ELSE {"size"} \cup (IF "outputBuffer_" \in Overflows
                                   THEN {"capacity"} ELSE {})

\* retrieveall, when outputBuffer_ is empty
Emptied(reach) == IF reach = "beyond" THEN reach ELSE "size"

\* sendInLoop: written directly when nothing waits, else, or when the kernel
\* takes nothing, appended to outputBuffer_ with EPOLLOUT enabled.  A broken
\* connection loses the message, and write() reports the error.  The test
\* for kDisconnected only logs.
SendInLoop(k) ==
    LET direct == ~IsWriting(k.ch) /\ k.out = 0
        written == Result([k EXCEPT !.wire = @ + 1], "complete")
        buffered == {Result([k EXCEPT !.out = @ + 1, !.reach = reach,
                                      !.ch = IF IsWriting(@) THEN @
                                             ELSE EnableWriting(@)], "none")
                       : reach \in Appended(k)}
        lost == Result([k EXCEPT !.err = FALSE], "none")
    IN  CASE direct /\ Broken(k)  -> {lost}
          [] direct /\ ~Broken(k) -> {written} \cup buffered
          [] ~direct              -> buffered

\* Mutant: state_ is not looked at.
Send_AnyState(k) ==
    IF k.sent < MaxSends THEN SendInLoop([k EXCEPT !.sent = @ + 1])
    ELSE {Result(k, "none")}

\* send
Send(k) ==
    IF k.state = kConnected /\ k.sent < MaxSends
    THEN SendInLoop([k EXCEPT !.sent = @ + 1])
    ELSE {Result(k, "none")}

\* shutdownInLoop
ShutdownInLoop(k) == IF IsWriting(k.ch) THEN k ELSE [k EXCEPT !.fin = TRUE]

\* shutdown
Shutdown(k) ==
    IF k.state = kConnected
    THEN ShutdownInLoop([k EXCEPT !.state = kDisconnecting])
    ELSE k

\* What user code in a callback may do with its connection: nothing, send,
\* shutdown, or a send followed by a shutdown (HttpServer::OnRequest).
UserCode(k) ==
    LET sends == Send(k)
    IN  {Result(k, "none"), Result(Shutdown(k), "none")}
        \cup sends
        \cup {Result(Shutdown(r.k), r.call) : r \in sends}

-----------------------------------------------------------------------------
(* The handlers.                                                           *)

\* connectEstablished; the assert assigns kConnecting before kConnected.
ConnectEstablished(k) ==
    UserCode(Hear([k EXCEPT !.state = kConnected,
                            !.ch = EnableReading(@)], "up"))

\* Mutant: setState(kDisconnected) is missing.
HandleClose_StayConnected(k) ==
    Result(Hear([k EXCEPT !.ch = DisableAll(@)], "down"), "close")

\* Mutant: disableAll() is missing.
HandleClose_StillWatched(k) ==
    Result(Hear([k EXCEPT !.state = kDisconnected], "down"), "close")

\* handleClose; send() and shutdown() are without effect in the user's
\* callback, since the state is kDisconnected.
HandleClose(k) ==
    Result(Hear([k EXCEPT !.state = kDisconnected,
                          !.ch = DisableAll(@)], "down"), "close")

\* handleError: getsockopt takes the error; it is only logged.
HandleError(k) == [k EXCEPT !.err = FALSE]

\* readFd brings a message.  If it does not fit and the user leaves some of
\* it in inputBuffer_, writeIndex_ stays past size().
Message(k) ==
    UNION {UserCode(Hear([k EXCEPT !.rx = 0, !.stuck = left], "message"))
             : left \in IF "inputBuffer_" \in Overflows THEN BOOLEAN ELSE {FALSE}}

\* Mutant: end of file is taken for an error.
HandleRead_IgnoreEof(k) ==
    IF k.rx > 0 /\ ~k.stuck THEN Message(k)
    ELSE {Result(HandleError(k), "none")}

\* handleRead: data, an error, which read() reports once, or end of file.
\* Past size(), readv refuses the length that has wrapped around each time,
\* and takes neither data nor the end of file.
HandleRead(k) ==
    CASE k.stuck                             -> {Result(HandleError(k), "none")}
      [] ~k.stuck /\ k.rx > 0                -> Message(k)
      [] ~k.stuck /\ ~(k.rx > 0) /\ k.err    -> {Result(HandleError(k), "none")}
      [] ~k.stuck /\ ~(k.rx > 0) /\ ~k.err   -> {HandleClose(k)}

\* Mutant: the shutdown that waits for the buffer is forgotten.
HandleWrite_ForgetShutdown(k) ==
    IF ~IsWriting(k.ch) THEN {Result(k, "none")}
    ELSE IF Broken(k) THEN {Result([k EXCEPT !.err = FALSE], "none")}
    ELSE {Result(k, "none")} \cup
         {LET w == [k EXCEPT !.out = @ - n, !.wire = @ + n]
          IN  IF w.out > 0 THEN Result(w, "none")
              ELSE Result([w EXCEPT !.ch = DisableWriting(@), !.reach = Emptied(@)],
                               "complete")
            : n \in 1..k.out}

\* handlewrite: the kernel takes part of the buffer or all of it.  Without
\* EPOLLOUT, or when the write fails, nothing changes (shutdownInLoop does
\* nothing while the channel is writing).
HandleWrite(k) ==
    IF ~IsWriting(k.ch) THEN {Result(k, "none")}
    ELSE IF Broken(k) THEN {Result([k EXCEPT !.err = FALSE], "none")}
    ELSE {Result(k, "none")} \cup
         {LET w == [k EXCEPT !.out = @ - n, !.wire = @ + n]
              drained == [w EXCEPT !.ch = DisableWriting(@), !.reach = Emptied(@)]
          IN  IF w.out > 0 THEN Result(w, "none")
              ELSE Result(IF k.state = kDisconnecting
                          THEN ShutdownInLoop(drained) ELSE drained,
                          "complete")
            : n \in 1..k.out}

\* connectDestoryed
ConnectDestoryed(k) ==
    LET down == IF k.state = kConnected
                THEN Hear([k EXCEPT !.state = kDisconnected,
                                    !.ch = DisableAll(@)], "down")
                ELSE k
    IN  [down EXCEPT !.ch = RemoveChannel(@)]
=============================================================================
