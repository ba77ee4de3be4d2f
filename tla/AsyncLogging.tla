----------------------------- MODULE AsyncLogging -----------------------------
(***************************************************************************)
(* class AsyncLogging (base/Aslogging.cpp): threads append lines to        *)
(* buffers in memory, the thread "Logging" takes the buffers away and      *)
(* writes them to a LogFile.  append() is one critical section, and so is  *)
(* the part of threadFunc that exchanges the buffers; start() and stop()   *)
(* are calls of one owner.                                                 *)
(*                                                                         *)
(* Lines are numbered in the order of their append() and have length one;  *)
(* a buffer is the sequence of its lines, Null an empty unique_ptr.        *)
(***************************************************************************)
EXTENDS LogFile, FiniteSets, Functions

CONSTANTS KLargeBuffer,   \* size of a buffer, in lines
          Null,
          MaxLines,       \* bound: lines appended
          MaxSeconds,     \* bound: how long the program runs
          MaxErrors       \* bound: lines a failing disk may cost

ASSUME LoggingAssumption ==
    /\ KLargeBuffer \in Nat /\ KLargeBuffer > 1
    /\ Null # <<>>
    /\ MaxLines \in Nat /\ MaxSeconds \in Nat /\ MaxErrors \in Nat

VARIABLES
    running_, currentBuffer_, nextBuffer_, buffers_,
    newBUffer1, newBUffer2, buffersToWrite,   \* locals of threadFunc
    output,        \* its LogFile
    writing,       \* how many of buffersToWrite it has written
    pc,            \* none, start, head, wait, write, done; or aborted
    owner,         \* idle, started, joining (in stop()), stopped
    lines,         \* history: lines appended so far
    now            \* time(NULL)

vars == <<running_, currentBuffer_, nextBuffer_, buffers_, newBUffer1, newBUffer2,
          buffersToWrite, output, writing, pc, owner, lines, now>>
threadVars == <<newBUffer1, newBUffer2, buffersToWrite, output, writing, pc>>
frontVars == <<currentBuffer_, nextBuffer_, buffers_, lines>>

Init ==
    /\ running_ = FALSE
    /\ currentBuffer_ = <<>>
    /\ nextBuffer_ = <<>>
    /\ buffers_ = <<>>
    /\ newBUffer1 = Null
    /\ newBUffer2 = Null
    /\ buffersToWrite = <<>>
    /\ output = NewLogFile(0)     \* no file yet
    /\ writing = 0
    /\ pc = "none"
    /\ owner = "idle"
    /\ lines = 0
    /\ now = 1

Alive == pc # "aborted"

Tick ==
    /\ Alive
    /\ now < MaxSeconds
    /\ now' = now + 1
    /\ UNCHANGED <<running_, frontVars, threadVars, owner>>

-----------------------------------------------------------------------------
(* The front end.                                                          *)

\* Mutant: a line may fill the buffer to the last byte.
Fits_ToTheEnd(b) == KLargeBuffer - Len(b) >= 1
\* FixedBuffer: avail() > len
Fits(b) == KLargeBuffer - Len(b) > 1

\* append
AppendLine ==
    LET line == lines + 1 IN
    /\ Alive
    /\ lines < MaxLines
    /\ lines' = line
    /\ \/ /\ Fits(currentBuffer_)
          /\ currentBuffer_' = Append(currentBuffer_, line)
          /\ UNCHANGED <<nextBuffer_, buffers_>>
       \/ /\ ~Fits(currentBuffer_)
          /\ buffers_' = Append(buffers_, currentBuffer_)
          /\ currentBuffer_' = <<line>>
          /\ nextBuffer_' = Null
    /\ UNCHANGED <<running_, threadVars, owner, now>>

\* start
Start ==
    /\ Alive
    /\ owner = "idle"
    /\ owner' = "started"
    /\ running_' = TRUE
    /\ pc' = "start"
    /\ UNCHANGED <<frontVars, newBUffer1, newBUffer2, buffersToWrite, output, writing, now>>

\* stop, also from the destructor, up to the join.
Stop ==
    /\ Alive
    /\ owner = "started"
    /\ owner' = "joining"
    /\ running_' = FALSE
    /\ UNCHANGED <<frontVars, threadVars, now>>

Join ==
    /\ owner = "joining"
    /\ pc = "done"
    /\ owner' = "stopped"
    /\ UNCHANGED <<running_, frontVars, threadVars, now>>

-----------------------------------------------------------------------------
(* threadFunc.                                                             *)

\* Up to the loop.  The assertion fails when stop() comes first.
Enter ==
    /\ pc = "start"
    /\ IF running_
       THEN /\ pc' = "head"
            /\ output' = NewLogFile(now)
            /\ newBUffer1' = <<>>
            /\ newBUffer2' = <<>>
       ELSE pc' = "aborted" /\ UNCHANGED <<output, newBUffer1, newBUffer2>>
    /\ UNCHANGED <<running_, frontVars, buffersToWrite, writing, owner, now>>

\* The file is one of F, and the disk has not failed too often.
FileBecomes(F) == \E f \in F : Cardinality(f.lost) <= MaxErrors /\ output' = f

\* The test of the loop and the assertions at its head.
LoopHead ==
    /\ pc = "head"
    /\ \/ /\ running_
          /\ pc' = IF newBUffer1 = <<>> /\ newBUffer2 = <<>> /\ buffersToWrite = <<>>
                   THEN "wait" ELSE "aborted"
          /\ UNCHANGED output
       \/ /\ ~running_
          /\ pc' = "done"
          /\ FileBecomes(Flush(output))
    /\ UNCHANGED <<running_, frontVars, newBUffer1, newBUffer2, buffersToWrite, writing, owner,
                   now>>

\* Mutant: cond_.wait instead of cond_.wait_for.
WaitIsOver_NoTimeout == buffers_ # <<>>
\* cond_.wait_for: the predicate looks at buffers_ only; the time-out may
\* come at any moment.
WaitIsOver == TRUE

\* Mutant: nextBuffer_ is replaced without a test.
Spare_Always == TRUE
\* if(!nextBuffer_)
Spare == nextBuffer_ = Null

\* The critical section of the loop.
Exchange ==
    /\ pc = "wait"
    /\ WaitIsOver
    /\ pc' = "write"
    /\ buffersToWrite' = Append(buffers_, currentBuffer_)
    /\ buffers_' = <<>>
    /\ currentBuffer_' = newBUffer1
    /\ newBUffer1' = Null
    /\ nextBuffer_' = IF Spare THEN newBUffer2 ELSE nextBuffer_
    /\ newBUffer2' = IF Spare THEN Null ELSE newBUffer2
    /\ UNCHANGED <<running_, output, writing, owner, lines, now>>

\* output.append of one buffer
WriteBuffer ==
    /\ pc = "write"
    /\ writing < Len(buffersToWrite)
    /\ FileBecomes(AppendUnlock(output, buffersToWrite[writing + 1], now))
    /\ writing' = writing + 1
    /\ UNCHANGED <<running_, frontVars, newBUffer1, newBUffer2, buffersToWrite, pc, owner, now>>

\* Mutant: the file is not flushed at the end of the round.
EndOfRound_NoFlush(f) == {f}
\* output.flush() at the end of a round
EndOfRound(f) == Flush(f)

\* The rest of the loop's body.  Each of newBUffer1 and newBUffer2 that was
\* used gets a written buffer, and frees it at once: reset() is the one of
\* unique_ptr, not that of the buffer.
GiveBack ==
    /\ pc = "write"
    /\ writing = Len(buffersToWrite)
    /\ pc' = "head"
    /\ FileBecomes(EndOfRound(output))
    /\ buffersToWrite' = <<>>
    /\ writing' = 0
    /\ UNCHANGED <<running_, frontVars, newBUffer1, newBUffer2, owner, now>>

ThreadFunc == Enter \/ LoopHead \/ Exchange \/ WriteBuffer \/ GiveBack

Next == Tick \/ AppendLine \/ Start \/ Stop \/ Join \/ ThreadFunc

Spec == Init /\ [][Next]_vars

\* The thread goes on, its wait times out, and join() returns when it ended.
FairSpec == Spec /\ WF_vars(ThreadFunc) /\ WF_vars(Join)

-----------------------------------------------------------------------------
(* Properties.                                                             *)

Lines == 1..MaxLines
Contents == {b \in Seq(Lines) : Len(b) < KLargeBuffer}

\* Every variable has its type, and no buffer is ever full: append() leaves
\* a byte free.
TypeOK ==
    /\ running_ \in BOOLEAN
    /\ currentBuffer_ \in Contents
    /\ nextBuffer_ \in {Null, <<>>}
    /\ buffers_ \in Seq(Contents)
    /\ newBUffer1 \in {Null, <<>>}
    /\ newBUffer2 \in {Null, <<>>}
    /\ buffersToWrite \in Seq(Contents)
    /\ output \in LogFileType
    /\ writing \in 0..Len(buffersToWrite)
    /\ pc \in {"none", "start", "head", "wait", "write", "done", "aborted"}
    /\ owner \in {"idle", "started", "joining", "stopped"}
    /\ lines \in 0..MaxLines
    /\ now \in Nat \ {0}

\* Where the lines are, from the oldest to the youngest: in the files and in
\* stdio, in the buffers on their way from one thread to the other, in the
\* buffer of the front end.
Filed(f) == f.disk \o f.stdio
Places ==
    <<Filed(output)>> \o SubSeq(buffersToWrite, writing + 1, Len(buffersToWrite))
      \o buffers_ \o <<currentBuffer_>>

Ascending(P) ==
    \A p, q \in DOMAIN P : \A i \in DOMAIN P[p], j \in DOMAIN P[q] :
        p < q \/ (p = q /\ i < j) => P[p][i] < P[q][j]

\* These places hold every line once and in the order of append(), but for
\* those a failed fwrite, fflush or fclose gave up: no exchange of buffers,
\* no change of file and no late writer loses, doubles or reorders a line
\* (Aslogging.cpp:33, 70-72, LogFile.cpp:75).
LinesInOrder ==
    /\ Ascending(Places)
    /\ UNION {Range(Places[p]) : p \in DOMAIN Places} = (1..lines) \ output.lost

\* Between two rounds, after the last one, and when an assertion ends the
\* process, every line the thread took out of memory is with the kernel or
\* was given up by a failed fwrite, fflush or fclose: none waits in stdio,
\* where the end of the process would lose it.  That the disk failed is told
\* to nobody (Aslogging.cpp:103, 105, FileUtil.cpp:17, 44).
WrittenWhenIdle ==
    pc \in {"head", "wait", "done", "aborted"} =>
       \A line \in 1..lines :
          \/ line \in Range(output.disk) \cup output.lost
          \/ \E p \in DOMAIN buffers_ : line \in Range(buffers_[p])
          \/ line \in Range(currentBuffer_)

\* buffersToWrite.back() is called on a buffer that exists: there are as
\* many buffers to write as the thread has given away (Aslogging.cpp:91, 98).
BackExists ==
    pc = "write" =>
       Len(buffersToWrite) >= (IF newBUffer1 = Null THEN 1 ELSE 0)
                              + (IF newBUffer2 = Null THEN 1 ELSE 0)

\* stop() returns, unless an assertion of threadFunc ends the process: the
\* predicate of the wait does not look at running_, only the time-out ends
\* it (Aslogging.cpp:67, Aslogging.h:36).
StopReturns == owner = "joining" ~> (owner = "stopped" \/ pc = "aborted")
=============================================================================
