------------------------------- MODULE LogFile --------------------------------
(***************************************************************************)
(* class LogFile (base/LogFile.cpp) and AppendFile (base/FileUtil.cpp) as  *)
(* operators on one log file:                                              *)
(*                                                                         *)
(*   count_, startOfperiod_, lastRoll_, lastFlush_                         *)
(*   file      the time in the name of the open file                       *)
(*   written   writenBytes of the open file                                *)
(*   stdio     what fwrite has taken and not yet passed on                 *)
(*   disk      what the kernel has, all files one after the other          *)
(*   lost      what a failed fwrite, fflush or fclose gave up              *)
(*                                                                         *)
(* A line is one unit.  stdio may pass on more, and earlier, than fflush   *)
(* asks for: what it still holds is what a crash may lose.  Each write of  *)
(* stdio may fail, so that an operator is the set of its outcomes.         *)
(***************************************************************************)
EXTENDS Integers, Sequences

CONSTANTS rollSize_, flushInterval_, checkEveryN_,
          kpollpersecond   \* the seconds of a period

ASSUME LogFileAssumption ==
    /\ rollSize_ \in Nat /\ flushInterval_ \in Nat /\ checkEveryN_ \in Nat
    /\ kpollpersecond \in Nat \ {0}

LogFileType ==
    [count_ : Nat, startOfperiod_ : Nat, lastRoll_ : Nat, lastFlush_ : Nat, file : Nat,
     written : Nat, stdio : Seq(Nat), disk : Seq(Nat), lost : SUBSET Nat]

StartOfPeriod(now) == (now \div kpollpersecond) * kpollpersecond

\* getLogFileName: tells seconds apart, nothing more.
getLogFileName(now) == now

\* write(2) under stdio: the kernel takes k lines of data.  When that is not
\* all of them the write has failed, and glibc empties its buffer nonetheless.
Pass(f, data, k) ==
    [f EXCEPT !.disk = @ \o SubSeq(data, 1, k), !.stdio = <<>>,
              !.lost = @ \cup {data[i] : i \in (k + 1)..Len(data)}]

\* flush: the result of fflush is not looked at.
Flush(f) == {Pass(f, f.stdio, k) : k \in 0..Len(f.stdio)}

\* Mutant: the old file is dropped without being closed.
RollFile_NoClose(f, now) ==
    IF now <= f.lastRoll_ THEN {f}
    ELSE {[f EXCEPT !.count_ = 0, !.lastRoll_ = now, !.lastFlush_ = now,
                    !.startOfperiod_ = StartOfPeriod(now),
                    !.file = getLogFileName(now), !.written = 0,
                    !.stdio = <<>>]}

\* rollFile: at most one file a second, since its name is the second; fclose
\* of the old file passes on what stdio holds, as fflush does.
RollFile(f, now) ==
    IF now <= f.lastRoll_ THEN {f}
    ELSE {[g EXCEPT !.count_ = 0, !.lastRoll_ = now, !.lastFlush_ = now,
                    !.startOfperiod_ = StartOfPeriod(now),
                    !.file = getLogFileName(now), !.written = 0] : g \in Flush(f)}

\* LogFile::LogFile: the first file is opened, none is closed.
NewLogFile(now) ==
    [count_ |-> 0, startOfperiod_ |-> StartOfPeriod(now), lastRoll_ |-> now, lastFlush_ |-> now,
     file |-> getLogFileName(now), written |-> 0, stdio |-> <<>>, disk |-> <<>>, lost |-> {}]

\* AppendFile::append: fwrite takes all of data, or fails: the loop is left
\* and nothing is counted.
AppendToFile(f, data) ==
    LET all == f.stdio \o data IN
    {[f EXCEPT !.stdio = all, !.written = @ + Len(data)]}
      \cup {Pass(f, all, k) : k \in 0..(Len(all) - 1)}

\* append_unlock behind the append: when to change the file, when to flush.
Check(f, now) ==
    LET counted == [f EXCEPT !.count_ = @ + 1]
        checked == [f EXCEPT !.count_ = 0]
    IN CASE f.written > rollSize_ -> RollFile(f, now)
         [] f.written <= rollSize_ /\ counted.count_ < checkEveryN_ -> {counted}
         [] OTHER -> IF StartOfPeriod(now) # f.startOfperiod_ THEN RollFile(checked, now)
                     ELSE IF now - f.lastFlush_ > flushInterval_
                          THEN Flush([checked EXCEPT !.lastFlush_ = now])
                     ELSE {checked}

\* append, append_unlock
AppendUnlock(f, data, now) == UNION {Check(g, now) : g \in AppendToFile(f, data)}
=============================================================================
