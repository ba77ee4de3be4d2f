------------------------------ MODULE HttpServer ------------------------------
(***************************************************************************)
(* class HttpServer with HttpAnalyse, HttpRequest and HttpRespne (Http/)   *)
(* on one connection: the bytes of the peer pass through the connection's  *)
(* inputBuffer_ (module Buffer) to the parser, the replies go through the  *)
(* connection (module TcpConnection).  Everything runs in the loop of the  *)
(* connection, one handler after the other.                                *)
(*                                                                         *)
(* The stream is a sequence of tokens: a request line of a known method,   *)
(* for HTTP/1.1 or HTTP/1.0; headers, all with a colon, of which           *)
(* "close" is Connection: close and "keep" is Connection: Keep-alive;      *)
(* "text", which has neither a colon nor the form of a request line; and   *)
(* "crlf".  A read may end after any token.                                *)
(***************************************************************************)
EXTENDS TcpConnection, Buffer, FiniteSetsExt

CONSTANT Streams    \* what a peer may send on the connection

Http11 == "http11"
Http10 == "http10"
Headers == {"close", "keep", "header"}
Tokens == {Http11, Http10, "text", "crlf"} \cup Headers

ASSUME StreamsAssumption == Streams \subseteq Seq(Tokens)

VARIABLES
    stream,      \* what this peer sends
    received,    \* how much of it was read
    retrieved,   \* how much of it the parser has taken out of the buffer
    input,       \* inputBuffer_
    conn,        \* the connection
    replies,     \* history: the messages that send() accepted
    lastRead     \* how the last read ended: none, data, error, eof

vars == <<stream, received, retrieved, input, conn, replies, lastRead>>

\* A reply: to the n-th request of the stream, or an error (n = 0); closing
\* when shutdown() follows.
Reply(n, closing) == [n |-> n, closing |-> closing]

\* After connectEstablished.
Init ==
    /\ stream \in Streams
    /\ received = 0
    /\ retrieved = 0
    /\ input = NewBuffer
    /\ conn = [NewConnection EXCEPT !.state = kConnected, !.ch = EnableReading(@)]
    /\ replies = <<>>
    /\ lastRead = "none"

-----------------------------------------------------------------------------
(* The parser.                                                             *)

\* Ends of lines (findCRLF), and the line that ends at position j.
Crlfs(data) == {i \in DOMAIN data : data[i] = "crlf"}
LineEnding(data, j) ==
    SubSeq(data, Max({0} \cup {i \in Crlfs(data) : i < j}) + 1, j - 1)

\* HttpRequest::setMethod: whether the method is a known one.
setMethod(token) == token \in {Http11, Http10}

\* processHeadRequest
IsRequestLine(line) == Len(line) = 1 /\ setMethod(line[1])

\* parseRequest: std::find(peek(), crlf, ':')
HasColon(line) == \E i \in DOMAIN line : line[i] \in Headers

\* Mutant: the byte after the blank line has to be there.
HeaderEnds_BeforeMore(data) ==
    {j \in Crlfs(data) : /\ Min(Crlfs(data)) < j /\ j < Len(data)
                         /\ ~HasColon(LineEnding(data, j))}
\* parseRequest: the line that ends the headers is the first without a
\* colon.  Whatever the byte after it is, the state becomes OVER.
HeaderEnds(data) ==
    {j \in Crlfs(data) : j > Min(Crlfs(data)) /\ ~HasColon(LineEnding(data, j))}

\* Mutant: all that was read is taken out with the request.
ParseRequest_TakeAll(data) ==
    LET ok == Crlfs(data) # {} /\ IsRequestLine(LineEnding(data, Min(Crlfs(data))))
    IN [ok |-> ok, over |-> ok /\ HeaderEnds(data) # {}, taken |-> IF ok THEN Len(data) ELSE 0]
\* Mutant: a line is taken out with one byte too many.
ParseRequest_PastLine(data) ==
    LET ok == Crlfs(data) # {} /\ IsRequestLine(LineEnding(data, Min(Crlfs(data))))
    IN [ok |-> ok, over |-> FALSE, taken |-> IF ok THEN Max(Crlfs(data)) + 1 ELSE 0]
\* parseRequest, for a parser made for this message: whether it returns
\* true, isover(), and how much it has retrieved.
ParseRequest(data) ==
    LET ok == Crlfs(data) # {} /\ IsRequestLine(LineEnding(data, Min(Crlfs(data))))
        over == ok /\ HeaderEnds(data) # {}
    IN [ok |-> ok, over |-> over,
        taken |-> IF ~ok THEN 0
                  ELSE IF over THEN Min(HeaderEnds(data)) ELSE Max(Crlfs(data))]

\* HttpRequest::getHeader("Connection"): addHeader keeps the last one.
ConnectionHeader(data) ==
    LET lines == {j \in Crlfs(data) : LineEnding(data, j) \in {<<"close">>, <<"keep">>}}
    IN IF lines = {} THEN "" ELSE data[Max(lines) - 1]

-----------------------------------------------------------------------------
(* Answering.  A result is [k, replies], one for each answer of the kernel *)
(* and of the user's callback.                                             *)

\* coon->send(...): see Send of module TcpConnection.
Answer(rs, reply) ==
    UNION {IF r.k.state = kConnected
           THEN {[k |-> s.k, replies |-> Append(r.replies, reply)] : s \in Send(r.k)}
           ELSE {r} : r \in rs}

Close(rs) == {[r EXCEPT !.k = Shutdown(@)] : r \in rs}

\* Mutant: the connection stays open after the reply that says "close".
OnRequest_StayOpen(rs, data, n) == UNION {Answer(rs, Reply(n, closing)) : closing \in BOOLEAN}

\* What httpCallback_ makes of closeConnection_: it may leave it, or set it,
\* to true as defaultHttpCallback does or to false.
httpCallback(close) == {close} \cup BOOLEAN

\* OnRequest
OnRequest(rs, data, n) ==
    LET header == ConnectionHeader(data)
        close == header = "close" \/ (data[1] = Http10 /\ header # "keep")
    IN UNION {IF closing THEN Close(Answer(rs, Reply(n, closing)))
              ELSE Answer(rs, Reply(n, closing)) : closing \in httpCallback(close)}

\* Number of the request whose request line is at position p of the stream.
RequestNumber(p) == Cardinality({i \in 1..p : stream[i] \in {Http11, Http10}})

\* onMessage
OnMessage(k, data) ==
    LET rs == {[k |-> k, replies |-> replies]}
        parse == ParseRequest(data)
    IN IF ~parse.ok THEN Close(Answer(Answer(rs, Reply(0, TRUE)), Reply(0, TRUE)))
       ELSE IF parse.over
            THEN OnRequest(rs, SubSeq(data, 1, parse.taken), RequestNumber(retrieved + 1))
       ELSE rs

-----------------------------------------------------------------------------
Open == conn.state \in {kConnected, kDisconnecting}

\* handleRead: n units have arrived.
HandleReadData(n) ==
    LET filled == readFd(input, SubSeq(stream, received + 1, received + n))
        taken == ParseRequest(Readable(filled)).taken
    IN /\ Open
       /\ ~ReadvFails(input)
       /\ n <= ReadvLimit(input)
       /\ received' = received + n
       /\ retrieved' = retrieved + taken
       /\ input' = IF taken = 0 THEN filled ELSE retrieve(filled, taken)
       /\ \E r \in OnMessage(conn, Readable(filled)) :
             conn' = r.k /\ replies' = r.replies
       /\ lastRead' = "data"
       /\ UNCHANGED stream

\* handleRead when readv fails: handleError only logs, the data or the end of
\* the stream stays in the socket and the poller reports it again.
HandleReadError ==
    /\ Open
    /\ ReadvFails(input)
    /\ conn' = HandleError(conn)
    /\ lastRead' = "error"
    /\ UNCHANGED <<stream, received, retrieved, input, replies>>

\* handleRead at the end of the stream: the peer stops sending at any time.
HandleReadEof ==
    /\ Open
    /\ ~ReadvFails(input)
    /\ conn' = HandleClose(conn).k
    /\ lastRead' = "eof"
    /\ UNCHANGED <<stream, received, retrieved, input, replies>>

\* handlewrite
Flush ==
    /\ Open
    /\ IsWriting(conn.ch)
    /\ \E r \in HandleWrite(conn) : conn' = r.k
    /\ UNCHANGED <<stream, received, retrieved, input, replies, lastRead>>

Next ==
    \/ \E n \in 1..(Len(stream) - received) : HandleReadData(n)
    \/ HandleReadError
    \/ HandleReadEof
    \/ Flush

Spec == Init /\ [][Next]_vars

-----------------------------------------------------------------------------
(* Properties.                                                             *)

\* Every variable has its type.
TypeOK ==
    /\ stream \in Streams
    /\ received \in 0..Len(stream)
    /\ retrieved \in 0..received
    /\ input.readerIndex_ \in Nat /\ input.writeIndex_ \in Nat
    /\ input.cells \in Seq(Tokens \cup {Unwritten})
    /\ conn \in ConnectionType
    /\ replies \in Seq([n : Nat, closing : BOOLEAN])
    /\ lastRead \in {"none", "data", "error", "eof"}

\* What the buffer offers to the parser is what was read and not yet
\* retrieved: nothing is lost, doubled or out of place when the unread part
\* is moved to the front (Buffer.h:171) or when a read does not fit and
\* continues in extrabuf (Buffer.cpp:24).  Nothing is written past the
\* capacity of the vector (Buffer.h:93, 167).
BufferKeepsStream ==
    /\ input.writeIndex_ <= Len(input.cells)
    /\ readableBytes(input) = received - retrieved
    /\ Readable(input) = SubSeq(stream, retrieved + 1, received)

\* Requests are answered in the order of the stream, each at most once, and
\* none is skipped: the i-th answer is the answer to the i-th request, or an
\* error.  The parser that HttpServer.cpp:46 throws away with half a request
\* in it and the body that parseRequest leaves in the buffer end in an error
\* and never in the answer to another request, as long as the peer puts an
\* empty line between two requests.
RepliesInOrder ==
    \A i \in DOMAIN replies : replies[i].n \in {0, i}

\* Once a reply has announced the end of the connection nothing but the rest
\* of the same error message is sent, shutdown() is called in that handler,
\* and the FIN is sent exactly when the last byte has left outputBuffer_
\* (HttpServer.cpp:54, 79), unless an append has written beyond its capacity.
ClosingReplyIsLast ==
    /\ \A i, j \in DOMAIN replies : i < j /\ replies[i].closing =>
          replies[i].n = 0 /\ replies[j].n = 0 /\ j = i + 1
    /\ (\E i \in DOMAIN replies : replies[i].closing) =>
          /\ conn.state # kConnected
          /\ conn.state = kDisconnecting /\ conn.reach # "beyond" =>
                (conn.fin <=> conn.out = 0)

\* A request without body that is read at once, of any size, with nothing
\* before it in the buffer.
WholeRequest(s) ==
    /\ Len(s) >= 3
    /\ IsRequestLine(<<s[1]>>) /\ s[2] = "crlf"
    /\ {j \in 2..Len(s) : s[j - 1] = "crlf" /\ s[j] = "crlf"} = {Len(s)}
    /\ \A j \in 2..Len(s) : s[j] \in Headers \cup {"crlf"}

\* A step that reads a whole request answers it, and not with an error.
ReadAndAnswer ==
    LET s == SubSeq(stream, received + 1, received')
    IN  received' # received /\ readableBytes(input) = 0 /\ conn.state = kConnected
        /\ WholeRequest(s)
        => /\ Len(replies') = Len(replies) + 1
           /\ replies'[Len(replies')].n # 0

\* A request that arrives whole on an open connection is answered by the
\* handler that reads it, even when it does not fit the buffer
\* (HttpServer.cpp:57, Http_analyse.cpp:83).
WholeRequestAnswered == [][ReadAndAnswer]_vars

\* "0 <= readerIndex <= writerIndex <= size" (Buffer.h:17)
IndicesOrdered == Ordered(input)
=============================================================================
