-------------------------- MODULE AsyncLoggingProofs --------------------------
(***************************************************************************)
(* Proofs about AsyncLogging, for any number of lines, any size of the     *)
(* buffers and of the files, any disk errors: the types, that the thread   *)
(* takes back no buffer that does not exist, that the lines stay in order, *)
(* and that between its rounds the kernel has every line the thread took,  *)
(* but for those a failing disk made it give up.                           *)
(***************************************************************************)
EXTENDS AsyncLogging, SequenceTheorems, TLAPS

-----------------------------------------------------------------------------
(* The log file.                                                           *)

\* The start of a period is a time.
LEMMA StartOfPeriodType ==
    ASSUME NEW n \in Nat PROVE StartOfPeriod(n) \in Nat
<1>1. n \div kpollpersecond \in Nat
  BY LogFileAssumption
<1> DEFINE q == n \div kpollpersecond
<1> HIDE DEF q
<1>2. q * kpollpersecond \in Nat
  BY <1>1, LogFileAssumption DEF q
<1> QED
  BY <1>2 DEF StartOfPeriod, q

\* What is given up of data when only its first k lines are taken.
GivenUp(data, k) == {data[i] : i \in (k + 1)..Len(data)}

\* h is the first k lines of s.
Cut(h, s, k) ==
    /\ h \in Seq(Nat) /\ s \in Seq(Nat) /\ k \in 0..Len(s) /\ Len(h) = k
    /\ \A i \in 1..k : h[i] = s[i]

\* g is f with s filed: a beginning of s, and the rest of s is given up.
Kept(g, f, s) == \E k \in Nat : Cut(Filed(g), s, k) /\ g.lost = f.lost \cup GivenUp(s, k)

\* What a log file has filed is a sequence of lines.
LEMMA FiledType ==
    ASSUME NEW f \in LogFileType
    PROVE  f.disk \in Seq(Nat) /\ f.stdio \in Seq(Nat) /\ Filed(f) \in Seq(Nat)
<1>1. f.disk \in Seq(Nat) /\ f.stdio \in Seq(Nat)
  BY DEF LogFileType
<1> QED
  BY <1>1 DEF Filed

\* All of s is filed and nothing given up.
LEMMA KeptAll ==
    ASSUME NEW f, NEW g, NEW s \in Seq(Nat), Filed(g) = s, g.lost = f.lost
    PROVE  Kept(g, f, s)
<1>1. Len(s) \in Nat /\ Cut(s, s, Len(s))
  BY DEF Cut
<1>2. GivenUp(s, Len(s)) = {}
  BY DEF GivenUp
<1>3. Len(s) \in Nat /\ Cut(Filed(g), s, Len(s)) /\ g.lost = f.lost \cup GivenUp(s, Len(s))
  BY <1>1, <1>2
<1> QED
  BY <1>3, Zenon DEF Kept

\* What is left of what is left of s.
LEMMA KeptTwice ==
    ASSUME NEW f, NEW g, NEW h, NEW s, Kept(g, f, s), Kept(h, g, Filed(g))
    PROVE  Kept(h, f, s)
<1>1. PICK k \in Nat : Cut(Filed(g), s, k) /\ g.lost = f.lost \cup GivenUp(s, k)
  BY Zenon DEF Kept
<1>2. PICK j \in Nat : Cut(Filed(h), Filed(g), j) /\ h.lost = g.lost \cup GivenUp(Filed(g), j)
  BY Zenon DEF Kept
<1>3. PICK r, t : r = Filed(g) /\ t = Filed(h)
  OBVIOUS
<1>4. /\ t \in Seq(Nat) /\ s \in Seq(Nat) /\ k \in 0..Len(s) /\ Len(r) = k /\ j \in 0..k /\ Len(t) = j
      /\ Len(s) \in Nat
      /\ \A i \in 1..k : r[i] = s[i]
      /\ \A i \in 1..j : t[i] = r[i]
  BY <1>1, <1>2, <1>3 DEF Cut
<1>5. Cut(t, s, j)
  BY <1>4 DEF Cut
<1>6. GivenUp(s, k) \cup GivenUp(r, j) = GivenUp(s, j)
  <2>1. GivenUp(r, j) = {s[i] : i \in (j + 1)..k}
    <3>1. \A i \in (j + 1)..k : r[i] = s[i]
      BY <1>4
    <3> QED
      BY <1>4, <3>1, SMTT(30) DEF GivenUp
  <2>2. (j + 1)..Len(s) = ((j + 1)..k) \cup ((k + 1)..Len(s))
    BY <1>4
  <2> QED
    BY <2>1, <2>2 DEF GivenUp
<1>7. h.lost = f.lost \cup GivenUp(s, j)
  BY <1>1, <1>2, <1>3, <1>6
<1> QED
  BY <1>3, <1>5, <1>7, Zenon DEF Kept

\* Concatenation is associative.
LEMMA LinesJoin ==
    ASSUME NEW b \in Seq(Nat), NEW c \in Seq(Nat), NEW d \in Seq(Nat)
    PROVE  b \o (c \o d) = (b \o c) \o d
<1> DEFINE S == Nat
<1>1. b \in Seq(S) /\ c \in Seq(S) /\ d \in Seq(S)
  OBVIOUS
<1> HIDE DEF S
<1>2. (b \o c) \o d = b \o (c \o d)
  BY <1>1, ConcatAssociative, SMTT(30)
<1> QED
  BY <1>2

\* The first k lines of s behind d.
LEMMA CutBehind ==
    ASSUME NEW d \in Seq(Nat), NEW s \in Seq(Nat), NEW k \in 0..Len(s)
    PROVE  /\ Cut(d \o SubSeq(s, 1, k), d \o s, Len(d) + k)
           /\ GivenUp(d \o s, Len(d) + k) = GivenUp(s, k)
<1>1. PICK e, m, n : e = SubSeq(s, 1, k) /\ m = Len(d) /\ n = Len(s)
  OBVIOUS
<1>2. e \in Seq(Nat) /\ Len(e) = k /\ \A i \in 1..k : e[i] = s[i]
  BY <1>1, SMTT(30)
<1>3. m \in Nat /\ n \in Nat /\ k \in 0..n
  BY <1>1
<1>4. /\ d \o s \in Seq(Nat) /\ Len(d \o s) = m + n
      /\ \A i \in 1..m : (d \o s)[i] = d[i]
      /\ \A i \in 1..n : (d \o s)[m + i] = s[i]
  BY <1>1, SMTT(30)
<1>5. /\ d \o e \in Seq(Nat) /\ Len(d \o e) = m + k
      /\ \A i \in 1..m : (d \o e)[i] = d[i]
      /\ \A i \in 1..k : (d \o e)[m + i] = e[i]
  BY <1>1, <1>2, SMTT(30)
<1>6. PICK all, cut : all = d \o s /\ cut = d \o e
  OBVIOUS
<1>7. ASSUME NEW i \in 1..(m + k) PROVE cut[i] = all[i]
  <2>1. CASE i <= m
    <3>1. i \in 1..m
      BY <1>3, <2>1
    <3> QED
      BY <1>4, <1>5, <1>6, <3>1, Zenon
  <2>2. CASE i > m
    <3>1. PICK j \in 1..k : i = m + j /\ j \in 1..n
      <4>1. i - m \in 1..k /\ i = m + (i - m) /\ i - m \in 1..n
        BY <1>3, <2>2
      <4> QED
        BY <4>1
    <3> QED
      BY <1>2, <1>4, <1>5, <1>6, <3>1, Zenon
  <2> QED
    BY <1>3, <2>1, <2>2
<1>8. Cut(cut, all, m + k)
  BY <1>3, <1>4, <1>5, <1>6, <1>7 DEF Cut
<1>9. GivenUp(all, m + k) = GivenUp(s, k)
  <2>1. ASSUME NEW x \in GivenUp(all, m + k) PROVE x \in GivenUp(s, k)
    <3>1. PICK i \in (m + k + 1)..(m + n) : x = all[i]
      BY <1>4, <1>6 DEF GivenUp
    <3>2. i - m \in (k + 1)..n /\ i - m \in 1..n /\ m + (i - m) = i
      BY <1>3, <3>1
    <3>3. x = s[i - m]
      BY <1>4, <1>6, <3>1, <3>2
    <3> QED
      BY <1>1, <3>2, <3>3 DEF GivenUp
  <2>2. ASSUME NEW x \in GivenUp(s, k) PROVE x \in GivenUp(all, m + k)
    <3>1. PICK i \in (k + 1)..n : x = s[i]
      BY <1>1 DEF GivenUp
    <3>2. m + i \in (m + k + 1)..(m + n) /\ i \in 1..n
      BY <1>3, <3>1
    <3>3. x = all[m + i]
      BY <1>4, <1>6, <3>1, <3>2
    <3> QED
      BY <1>4, <1>6, <3>2, <3>3 DEF GivenUp
  <2> QED
    BY <2>1, <2>2
<1> QED
  BY <1>1, <1>6, <1>8, <1>9

\* A write under stdio files what it takes, and empties stdio.
LEMMA PassType ==
    ASSUME NEW f \in LogFileType, NEW e \in Seq(Nat), NEW s, s = f.stdio \o e, NEW k \in 0..Len(s)
    PROVE  /\ Pass(f, s, k) \in LogFileType /\ Pass(f, s, k).stdio = <<>>
           /\ Kept(Pass(f, s, k), f, Filed(f) \o e)
<1> DEFINE g == Pass(f, s, k)
           d == f.disk \o SubSeq(s, 1, k)
           l == f.lost \cup {s[i] : i \in (k + 1)..Len(s)}
<1>1. f.disk \in Seq(Nat) /\ f.stdio \in Seq(Nat) /\ s \in Seq(Nat) /\ <<>> \in Seq(Nat)
  BY FiledType
<1>2. d \in Seq(Nat)
  <2>1. SubSeq(s, 1, k) \in Seq(Nat)
    BY <1>1, SMTT(30)
  <2>2. \A b, c \in Seq(Nat) : b \o c \in Seq(Nat)
    OBVIOUS
  <2> QED
    BY <1>1, <2>1, <2>2, Zenon
<1>3. l \in SUBSET Nat
  <2>1. \A i \in (k + 1)..Len(s) : s[i] \in Nat
    BY <1>1, SMTT(30)
  <2> QED
    BY <2>1, SMTT(30) DEF LogFileType
<1>4. g = [f EXCEPT !.disk = d, !.stdio = <<>>, !.lost = l]
  BY DEF Pass
<1> HIDE DEF g, d, l
<1>5. g \in LogFileType /\ g.disk = d /\ g.stdio = <<>> /\ g.lost = l
  BY <1>1, <1>2, <1>3, <1>4 DEF LogFileType
<1>6. Filed(g) = d
  <2>1. d \o <<>> = d
    BY <1>2, ConcatEmptySeq
  <2> QED
    BY <1>5, <2>1, Zenon DEF Filed
<1>7. f.disk \o s = Filed(f) \o e
  <2>1. f.disk \o (f.stdio \o e) = (f.disk \o f.stdio) \o e
    <3>1. PICK b, c : b = f.disk /\ c = f.stdio
      OBVIOUS
    <3>2. b \in Seq(Nat) /\ c \in Seq(Nat)
      BY <1>1, <3>1, Zenon
    <3>3. b \o (c \o e) = (b \o c) \o e
      BY <3>2, LinesJoin, Zenon
    <3> QED
      BY <3>1, <3>3, Zenon
  <2> QED
    BY <2>1, SMTT(30) DEF Filed
<1>8. PICK j \in Nat : j = Len(f.disk) + k
  BY <1>1
<1>9. Cut(d, Filed(f) \o e, j) /\ GivenUp(Filed(f) \o e, j) = GivenUp(s, k)
  <2>1. /\ Cut(f.disk \o SubSeq(s, 1, k), f.disk \o s, Len(f.disk) + k)
        /\ GivenUp(f.disk \o s, Len(f.disk) + k) = GivenUp(s, k)
    BY <1>1, CutBehind, Zenon
  <2> QED
    BY <1>7, <1>8, <2>1, Zenon DEF d
<1>10. l = f.lost \cup GivenUp(s, k)
  BY Zenon DEF l, GivenUp
<1>11. Kept(g, f, Filed(f) \o e)
  BY <1>5, <1>6, <1>9, <1>10, Zenon DEF Kept
<1> QED
  BY <1>5, <1>11 DEF g

\* flush leaves nothing in stdio, and drops only what is given up.
LEMMA FlushType ==
    ASSUME NEW f \in LogFileType
    PROVE  \A g \in Flush(f) : g \in LogFileType /\ g.stdio = <<>> /\ Kept(g, f, Filed(f))
<1> TAKE g \in Flush(f)
<1>1. PICK k \in 0..Len(f.stdio) : g = Pass(f, f.stdio, k)
  BY DEF Flush
<1>2. PICK N : N \in Seq(Nat) /\ N = <<>>
  <2>1. <<>> \in Seq(Nat)
    OBVIOUS
  <2> QED
    BY <2>1, Zenon
<1>3. f.stdio = f.stdio \o N /\ Filed(f) \o N = Filed(f)
  BY <1>2, FiledType, ConcatEmptySeq
<1>4. /\ Pass(f, f.stdio, k) \in LogFileType /\ Pass(f, f.stdio, k).stdio = <<>>
      /\ Kept(Pass(f, f.stdio, k), f, Filed(f) \o N)
  BY <1>2, <1>3, PassType
<1> QED
  BY <1>1, <1>3, <1>4, Zenon

\* rollFile keeps a log file a log file, and what was written to it but for
\* what is given up.
LEMMA RollFileType ==
    ASSUME NEW f \in LogFileType, NEW n \in Nat
    PROVE  \A r \in RollFile(f, n) : r \in LogFileType /\ Kept(r, f, Filed(f))
<1> DEFINE Fresh(g) == [g EXCEPT !.count_ = 0, !.lastRoll_ = n, !.lastFlush_ = n,
                                 !.startOfperiod_ = StartOfPeriod(n),
                                 !.file = getLogFileName(n), !.written = 0]
<1> TAKE r \in RollFile(f, n)
<1>1. r = f \/ \E g \in Flush(f) : r = Fresh(g)
  BY DEF RollFile
<1>2. CASE r = f
  BY <1>2, FiledType, KeptAll
<1>3. ASSUME NEW g \in Flush(f), r = Fresh(g) PROVE r \in LogFileType /\ Kept(r, f, Filed(f))
  <2>1. g \in LogFileType /\ Kept(g, f, Filed(f))
    BY FlushType
  <2>2. StartOfPeriod(n) \in Nat /\ getLogFileName(n) \in Nat
    BY StartOfPeriodType DEF getLogFileName
  <2>3. r \in LogFileType /\ r.disk = g.disk /\ r.stdio = g.stdio /\ r.lost = g.lost
    BY <1>3, <2>1, <2>2 DEF LogFileType
  <2>4. Filed(r) = Filed(g)
    BY <2>3, Zenon DEF Filed
  <2> QED
    BY <2>1, <2>3, <2>4, Zenon DEF Kept
<1> QED
  BY <1>1, <1>2, <1>3, Zenon

\* The constructor's file holds nothing yet.
LEMMA NewLogFileType ==
    ASSUME NEW n \in Nat
    PROVE  /\ NewLogFile(n) \in LogFileType /\ NewLogFile(n).stdio = <<>>
           /\ Filed(NewLogFile(n)) = <<>> /\ NewLogFile(n).lost = {}
<1>1. StartOfPeriod(n) \in Nat /\ getLogFileName(n) \in Nat
  BY StartOfPeriodType DEF getLogFileName
<1>2. /\ NewLogFile(n) \in LogFileType /\ NewLogFile(n).stdio = <<>>
      /\ NewLogFile(n).disk = <<>> /\ NewLogFile(n).lost = {}
  BY <1>1 DEF NewLogFile, LogFileType
<1>3. <<>> \o <<>> = <<>>
  OBVIOUS
<1> QED
  BY <1>2, <1>3, Zenon DEF Filed

\* AppendFile::append keeps a log file a log file, and files data or the
\* beginning of it that was taken.
LEMMA AppendToFileType ==
    ASSUME NEW f \in LogFileType, NEW data \in Seq(Nat)
    PROVE  \A g \in AppendToFile(f, data) : g \in LogFileType /\ Kept(g, f, Filed(f) \o data)
<1> TAKE g \in AppendToFile(f, data)
<1>1. PICK all : all = f.stdio \o data
  OBVIOUS
<1>2. /\ f.disk \in Seq(Nat) /\ f.stdio \in Seq(Nat) /\ Filed(f) \in Seq(Nat)
      /\ all \in Seq(Nat) /\ Filed(f) \o data \in Seq(Nat) /\ Len(all) \in Nat
  BY <1>1, FiledType
<1>3. CASE g = [f EXCEPT !.stdio = all, !.written = @ + Len(data)]
  <2>1. f.written + Len(data) \in Nat
    BY DEF LogFileType
  <2>2. g \in LogFileType /\ g.disk = f.disk /\ g.stdio = all /\ g.lost = f.lost
    BY <1>2, <1>3, <2>1 DEF LogFileType
  <2>3. Filed(g) = Filed(f) \o data
    <3>1. f.disk \o (f.stdio \o data) = (f.disk \o f.stdio) \o data
      <4>1. PICK d, e : d = f.disk /\ e = f.stdio
        OBVIOUS
      <4>2. d \in Seq(Nat) /\ e \in Seq(Nat)
        BY <1>2, <4>1, Zenon
      <4>3. d \o (e \o data) = (d \o e) \o data
        BY <4>2, LinesJoin, Zenon
      <4> QED
        BY <4>1, <4>3, Zenon
    <3>2. f.disk \o all = (f.disk \o f.stdio) \o data
      BY <1>1, <3>1, SMTT(30)
    <3> QED
      BY <2>2, <3>2, SMTT(30) DEF Filed
  <2> QED
    BY <1>2, <2>2, <2>3, KeptAll
<1>4. CASE \E k \in 0..(Len(all) - 1) : g = Pass(f, all, k)
  <2>1. PICK k \in 0..Len(all) : g = Pass(f, all, k)
    BY <1>2, <1>4
  <2> QED
    BY <1>1, <2>1, PassType
<1> QED
  BY <1>1, <1>3, <1>4 DEF AppendToFile

\* What append_unlock does next drops only what is given up.
LEMMA CheckType ==
    ASSUME NEW f \in LogFileType, NEW t \in Nat
    PROVE  \A g \in Check(f, t) : g \in LogFileType /\ Kept(g, f, Filed(f))
<1> DEFINE counted == [f EXCEPT !.count_ = @ + 1]
           checked == [f EXCEPT !.count_ = 0]
           late == [checked EXCEPT !.lastFlush_ = t]
<1>1. /\ counted \in LogFileType /\ Filed(counted) = Filed(f) /\ counted.lost = f.lost
      /\ checked \in LogFileType /\ Filed(checked) = Filed(f) /\ checked.lost = f.lost
      /\ late \in LogFileType /\ Filed(late) = Filed(f) /\ late.lost = f.lost
  <2>1. f.count_ + 1 \in Nat
    <3>1. f.count_ \in Nat
      BY Zenon DEF LogFileType
    <3> QED
      BY <3>1
  <2>2. /\ counted \in LogFileType
        /\ counted.disk = f.disk /\ counted.stdio = f.stdio /\ counted.lost = f.lost
    BY <2>1 DEF LogFileType
  <2>3. /\ checked \in LogFileType
        /\ checked.disk = f.disk /\ checked.stdio = f.stdio /\ checked.lost = f.lost
    BY DEF LogFileType
  <2>4. /\ late \in LogFileType
        /\ late.disk = f.disk /\ late.stdio = f.stdio /\ late.lost = f.lost
    <3> HIDE DEF checked
    <3> QED
      BY <2>3 DEF LogFileType
  <2> HIDE DEF counted, checked, late
  <2> QED
    BY <2>2, <2>3, <2>4, Zenon DEF Filed
<1> TAKE g \in Check(f, t)
<1>2. f.written \in Nat /\ counted.count_ \in Nat
  BY <1>1 DEF LogFileType
<1> HIDE DEF counted, checked, late
<1>3. \/ g \in RollFile(f, t) \/ g = counted \/ g = checked
      \/ g \in RollFile(checked, t) \/ g \in Flush(late)
  BY <1>2, LogFileAssumption DEF Check, counted, checked, late
<1>4. Filed(f) \in Seq(Nat)
  BY FiledType
<1>5. Kept(counted, f, Filed(f)) /\ Kept(checked, f, Filed(f)) /\ Kept(late, f, Filed(f))
  BY <1>1, <1>4, KeptAll, Zenon
<1>6. CASE g \in RollFile(f, t)
  BY <1>6, RollFileType
<1>7. CASE g = counted \/ g = checked
  BY <1>1, <1>5, <1>7
<1>8. CASE g \in RollFile(checked, t)
  <2>1. g \in LogFileType /\ Kept(g, checked, Filed(checked))
    BY <1>1, <1>8, RollFileType
  <2> QED
    BY <1>5, <2>1, KeptTwice
<1>9. CASE g \in Flush(late)
  <2>1. g \in LogFileType /\ Kept(g, late, Filed(late))
    BY <1>1, <1>9, FlushType
  <2> QED
    BY <1>5, <2>1, KeptTwice
<1> QED
  BY <1>3, <1>6, <1>7, <1>8, <1>9

\* append_unlock keeps a log file a log file, and files data but for what is
\* given up, whether it changes the file, flushes it or leaves it.
LEMMA AppendUnlockType ==
    ASSUME NEW f \in LogFileType, NEW data \in Seq(Nat), NEW t \in Nat
    PROVE  \A g \in AppendUnlock(f, data, t) : g \in LogFileType /\ Kept(g, f, Filed(f) \o data)
<1> TAKE g \in AppendUnlock(f, data, t)
<1>1. PICK h \in AppendToFile(f, data) : g \in Check(h, t)
  BY DEF AppendUnlock
<1>2. h \in LogFileType /\ Kept(h, f, Filed(f) \o data)
  BY AppendToFileType
<1>3. g \in LogFileType /\ Kept(g, h, Filed(h))
  BY <1>1, <1>2, CheckType
<1> QED
  BY <1>2, <1>3, KeptTwice

-----------------------------------------------------------------------------
(* The inductive invariant.                                                *)

\* There is no thread before start().  It waits with both of its buffers in
\* hand.  The spare buffer of the front end is gone only when append() has
\* pushed a full buffer since the last exchange, so that the thread that
\* replaces it has that buffer to write as well.
LogInv ==
    /\ TypeOK
    /\ owner = "idle" => pc = "none"
    /\ pc = "wait" => newBUffer1 = <<>> /\ newBUffer2 = <<>>
    /\ nextBuffer_ = Null => buffers_ # <<>>
    /\ pc # "write" => output.stdio = <<>> /\ buffersToWrite = <<>> /\ writing = 0
    /\ BackExists

\* It holds at the beginning.
LEMMA LogInit == Init => LogInv
<1> SUFFICES ASSUME Init PROVE LogInv
  OBVIOUS
<1>1. output \in LogFileType /\ output.stdio = <<>>
  BY NewLogFileType DEF Init
<1>2. <<>> \in Contents
  BY LoggingAssumption DEF Contents
<1>3. <<>> \in Seq(Contents) /\ Len(<<>>) = 0
  OBVIOUS
<1>4. TypeOK
  <2>1. running_ \in BOOLEAN /\ pc \in {"none"} /\ owner \in {"idle"}
    BY Zenon DEF Init
  <2>2. writing \in 0..Len(buffersToWrite) /\ lines \in 0..MaxLines /\ now \in Nat \ {0}
    BY <1>3, LoggingAssumption DEF Init
  <2>3. /\ currentBuffer_ \in Contents /\ nextBuffer_ \in {Null, <<>>}
        /\ buffers_ \in Seq(Contents) /\ buffersToWrite \in Seq(Contents)
        /\ newBUffer1 \in {Null, <<>>} /\ newBUffer2 \in {Null, <<>>}
    BY <1>2, <1>3, Zenon DEF Init
  <2> QED
    BY <1>1, <2>1, <2>2, <2>3, Zenon DEF TypeOK
<1> QED
  BY <1>1, <1>4, LoggingAssumption DEF Init, LogInv, BackExists

\* A buffer with room for a line has room for it.
LEMMA AppendFits ==
    ASSUME NEW b \in Contents, NEW l \in Lines
    PROVE  /\ Fits(b) => Append(b, l) \in Contents
           /\ <<l>> \in Contents
BY LoggingAssumption DEF Contents, Fits, Lines

\* What a buffer holds can be written.
LEMMA ContentsAreLines == Contents \subseteq Seq(Nat)
<1> SUFFICES ASSUME NEW b \in Seq(Lines) PROVE b \in Seq(Nat)
  BY DEF Contents
<1> QED
  BY LoggingAssumption DEF Lines

\* append() keeps the invariant.
LEMMA AppendLineInv == LogInv /\ AppendLine => LogInv'
<1> SUFFICES ASSUME LogInv, AppendLine PROVE LogInv'
  OBVIOUS
<1> USE DEF LogInv, TypeOK
<1>1. lines + 1 \in Lines /\ lines' \in 0..MaxLines
  BY LoggingAssumption DEF AppendLine, Lines
<1>2. UNCHANGED <<running_, threadVars, owner, now>>
  BY DEF AppendLine
<1>3. currentBuffer_' \in Contents
  BY <1>1, AppendFits DEF AppendLine
<1>4. Append(buffers_, currentBuffer_) \in Seq(Contents) /\ Append(buffers_, currentBuffer_) # <<>>
  OBVIOUS
<1>5. /\ buffers_' \in Seq(Contents) /\ nextBuffer_' \in {Null, <<>>}
      /\ nextBuffer_' = Null => buffers_' # <<>>
  BY <1>4 DEF AppendLine
<1> QED
  BY <1>1, <1>2, <1>3, <1>4, <1>5 DEF threadVars, BackExists

\* The exchange keeps the invariant: one buffer to write for newBUffer1, and
\* another one when newBUffer2 was needed.
LEMMA ExchangeInv == LogInv /\ Exchange => LogInv'
<1> SUFFICES ASSUME LogInv, Exchange PROVE LogInv'
  OBVIOUS
<1> USE DEF LogInv, TypeOK
<1>1. buffersToWrite' \in Seq(Contents) /\ Len(buffersToWrite') = Len(buffers_) + 1
  BY DEF Exchange
<1>2. <<>> \in Contents
  BY LoggingAssumption DEF Contents
<1>3. /\ currentBuffer_' \in Contents /\ buffers_' \in Seq(Contents)
      /\ newBUffer1' = Null /\ newBUffer2' \in {Null, <<>>}
      /\ nextBuffer_' = <<>>
      /\ newBUffer2' = Null => nextBuffer_ = Null
  BY <1>2, LoggingAssumption DEF Exchange, Spare
<1>4. newBUffer2' = Null => Len(buffers_) >= 1
  BY <1>3
<1>5. /\ pc' = "write" /\ writing' \in 0..Len(buffersToWrite')
      /\ UNCHANGED <<running_, output, owner, lines, now>>
  BY <1>1 DEF Exchange
<1>6. BackExists'
  BY <1>1, <1>3, <1>4 DEF BackExists
<1>7. (owner = "idle" => pc = "none")'
  <2>1. pc = "wait" /\ owner' = owner
    BY DEF Exchange
  <2> QED
    BY <2>1
<1>8. nextBuffer_' # Null
  BY <1>3, LoggingAssumption
<1>9. TypeOK'
  BY <1>1, <1>3, <1>5
<1> QED
  BY <1>3, <1>5, <1>6, <1>7, <1>8, <1>9

\* Writing a buffer keeps the invariant.
LEMMA WriteBufferInv == LogInv /\ WriteBuffer => LogInv'
<1> SUFFICES ASSUME LogInv, WriteBuffer PROVE LogInv'
  OBVIOUS
<1> USE DEF LogInv, TypeOK
<1>1. writing' \in 0..Len(buffersToWrite)
  BY DEF WriteBuffer
<1>2. buffersToWrite[writing + 1] \in Seq(Nat)
  BY ContentsAreLines DEF WriteBuffer
<1>3. output' \in LogFileType
  <2>1. output' \in AppendUnlock(output, buffersToWrite[writing + 1], now)
    BY Zenon DEF WriteBuffer, FileBecomes
  <2> QED
    BY <2>1, <1>2, AppendUnlockType
<1>4. UNCHANGED <<running_, frontVars, newBUffer1, newBUffer2, buffersToWrite, pc, owner, now>>
  BY DEF WriteBuffer
<1> QED
  BY <1>1, <1>3, <1>4 DEF WriteBuffer, frontVars, BackExists

\* Every step keeps the invariant.
LEMMA LogStep == LogInv /\ [Next]_vars => LogInv'
<1> SUFFICES ASSUME LogInv, [Next]_vars PROVE LogInv'
  OBVIOUS
<1> USE DEF LogInv, TypeOK, BackExists, frontVars, threadVars
<1>1. CASE Tick
  BY <1>1 DEF Tick
<1>2. CASE AppendLine
  BY <1>2, AppendLineInv
<1>3. CASE Start
  <2>1. running_' \in BOOLEAN
    BY <1>3, Zenon DEF Start
  <2> QED
    BY <1>3, <2>1 DEF Start
<1>4. CASE Stop
  BY <1>4 DEF Stop
<1>5. CASE Join
  BY <1>5 DEF Join
<1>6. CASE Enter
  BY <1>6, NewLogFileType DEF Enter
<1>7. CASE LoopHead
  <2>1. output' = output \/ output' \in Flush(output)
    BY <1>7, Zenon DEF LoopHead, FileBecomes
  <2>2. output' \in LogFileType /\ output'.stdio = <<>>
    BY <1>7, <2>1, FlushType DEF LoopHead
  <2> QED
    BY <1>7, <2>2 DEF LoopHead
<1>8. CASE Exchange
  BY <1>8, ExchangeInv
<1>9. CASE WriteBuffer
  BY <1>9, WriteBufferInv
<1>10. CASE GiveBack
  <2>1. output' \in Flush(output)
    BY <1>10, Zenon DEF GiveBack, FileBecomes, EndOfRound
  <2>2. output' \in LogFileType /\ output'.stdio = <<>>
    BY <2>1, FlushType
  <2> QED
    BY <1>10, <2>2 DEF GiveBack
<1>11. CASE UNCHANGED vars
  BY <1>11 DEF vars
<1> QED
  BY <1>1, <1>2, <1>3, <1>4, <1>5, <1>6, <1>7, <1>8, <1>9, <1>10, <1>11 DEF Next, ThreadFunc

\* The invariant holds in every state of the logger.
THEOREM LoggingInvariant == Spec => []LogInv
<1>1. Init => LogInv
  BY LogInit
<1>2. LogInv /\ [Next]_vars => LogInv'
  BY LogStep
<1> QED
  BY <1>1, <1>2, PTL DEF Spec

\* The variables of AsyncLogging have their types, and append() leaves no
\* buffer full.
THEOREM LoggingType == Spec => []TypeOK
<1>1. LogInv => TypeOK
  BY DEF LogInv
<1> QED
  BY <1>1, LoggingInvariant, PTL

\* threadFunc calls buffersToWrite.back() on a vector that is not empty,
\* whatever append() did in between.
THEOREM BackIsValid == Spec => []BackExists
<1>1. LogInv => BackExists
  BY DEF LogInv
<1> QED
  BY <1>1, LoggingInvariant, PTL

-----------------------------------------------------------------------------
(* The lines, wherever they are.                                           *)

LinesOf(P) == UNION {Range(P[p]) : p \in DOMAIN P}
Holds(P, x) == \E p \in DOMAIN P : \E i \in DOMAIN P[p] : P[p][i] = x

\* P holds the lines up to n but those of L, in order.
InPlace(P, n, L) ==
    /\ P \in Seq(Seq(Nat)) /\ n \in Nat /\ L \subseteq 1..n
    /\ Ascending(P)
    /\ LinesOf(P) = (1..n) \ L

\* The lines of P, place by place.
LEMMA LinesOfIs ==
    ASSUME NEW P
    PROVE  \A p \in DOMAIN P : \A i \in DOMAIN P[p] : P[p][i] \in LinesOf(P)
BY DEF LinesOf, Range

\* A line has a place.
LEMMA PlaceOf ==
    ASSUME NEW P, NEW x \in LinesOf(P)
    PROVE  Holds(P, x)
BY DEF LinesOf, Range, Holds

\* An empty buffer behind the others changes nothing.
LEMMA MorePlaces ==
    ASSUME NEW P, NEW n, NEW L, InPlace(P, n, L), NEW Q \in Seq(Seq(Nat)),
           Len(Q) = Len(P) + 1, \A p \in 1..Len(P) : Q[p] = P[p], Q[Len(Q)] = <<>>
    PROVE  InPlace(Q, n, L)
<1>1. /\ P \in Seq(Seq(Nat)) /\ n \in Nat /\ L \subseteq 1..n /\ Ascending(P)
      /\ LinesOf(P) = (1..n) \ L /\ DOMAIN P = 1..Len(P) /\ DOMAIN Q = 1..Len(Q) /\ Len(P) \in Nat
  BY DEF InPlace
<1>2. \A p \in DOMAIN Q : \A i \in DOMAIN Q[p] : p \in DOMAIN P /\ Q[p] = P[p] /\ i \in DOMAIN P[p]
  <2> SUFFICES ASSUME NEW p \in DOMAIN Q, NEW i \in DOMAIN Q[p] PROVE p \in 1..Len(P)
    BY <1>1
  <2>1. p # Len(Q)
    <3>1. DOMAIN <<>> = {}
      OBVIOUS
    <3> QED
      BY <3>1
  <2> QED
    BY <1>1, <2>1
<1>3. Ascending(Q)
  BY <1>1, <1>2, Zenon DEF Ascending
<1>4. LinesOf(Q) = LinesOf(P)
  <2>1. \A p \in DOMAIN P : p \in DOMAIN Q /\ Q[p] = P[p]
    BY <1>1
  <2>2. ASSUME NEW x \in LinesOf(Q) PROVE x \in LinesOf(P)
    <3>1. PICK p \in DOMAIN Q : \E i \in DOMAIN Q[p] : Q[p][i] = x
      <4>1. Holds(Q, x)
        BY PlaceOf, Zenon
      <4> QED
        BY <4>1 DEF Holds
    <3>2. p \in DOMAIN P /\ \E i \in DOMAIN P[p] : P[p][i] = x
      BY <1>2, <3>1, Zenon
    <3> QED
      BY <3>2, LinesOfIs, Zenon
  <2>3. ASSUME NEW x \in LinesOf(P) PROVE x \in LinesOf(Q)
    <3>1. PICK p \in DOMAIN P : \E i \in DOMAIN P[p] : P[p][i] = x
      <4>1. Holds(P, x)
        BY PlaceOf, Zenon
      <4> QED
        BY <4>1 DEF Holds
    <3>2. p \in DOMAIN Q /\ \E i \in DOMAIN Q[p] : Q[p][i] = x
      BY <2>1, <3>1, Zenon
    <3> QED
      BY <3>2, LinesOfIs, Zenon
  <2> QED
    BY <2>2, <2>3
<1> QED
  BY <1>1, <1>3, <1>4 DEF InPlace

\* The next line goes to the end of the last buffer.
LEMMA NextLine ==
    ASSUME NEW P, NEW n, NEW L, InPlace(P, n, L), NEW Q \in Seq(Seq(Nat)), Len(P) > 0,
           Len(Q) = Len(P), \A p \in 1..(Len(P) - 1) : Q[p] = P[p],
           Q[Len(P)] = Append(P[Len(P)], n + 1)
    PROVE  InPlace(Q, n + 1, L)
<1> DEFINE m == Len(P)
           b == P[Len(P)]
           e == Append(b, n + 1)
<1>1. /\ P \in Seq(Seq(Nat)) /\ n \in Nat /\ L \subseteq 1..n /\ Ascending(P)
      /\ LinesOf(P) = (1..n) \ L /\ DOMAIN P = 1..m /\ DOMAIN Q = 1..m /\ m \in Nat
      /\ m \in DOMAIN P /\ b \in Seq(Nat)
  BY DEF InPlace
<1>2. /\ Len(b) \in Nat /\ DOMAIN b = 1..Len(b) /\ DOMAIN e = 1..(Len(b) + 1)
      /\ e[Len(b) + 1] = n + 1 /\ \A i \in 1..Len(b) : e[i] = b[i]
  BY <1>1
<1>3. Q[m] = e
  OBVIOUS
<1>4. b = P[m]
  OBVIOUS
<1> HIDE DEF e, b, m
<1>5. ASSUME NEW p \in DOMAIN Q, NEW i \in DOMAIN Q[p]
      PROVE  \/ p \in DOMAIN P /\ i \in DOMAIN P[p] /\ Q[p][i] = P[p][i]
             \/ p = m /\ i = Len(b) + 1 /\ Q[p][i] = n + 1
  <2>1. CASE p = m
    <3>1. i \in 1..Len(b) \/ i = Len(b) + 1
      BY <1>2, <1>3, <1>5, <2>1, SMTT(30)
    <3> QED
      BY <1>1, <1>2, <1>3, <1>4, <2>1, <3>1, Zenon
  <2>2. CASE p # m
    <3>1. p \in 1..(m - 1)
      BY <1>1, <2>2
    <3>2. Q[p] = P[p]
      BY <3>1 DEF m
    <3> QED
      BY <1>1, <1>5, <3>2
  <2> QED
    BY <2>1, <2>2
<1>6. ASSUME NEW p \in DOMAIN P, NEW i \in DOMAIN P[p]
      PROVE  /\ p \in DOMAIN Q /\ i \in DOMAIN Q[p] /\ Q[p][i] = P[p][i]
             /\ P[p][i] \in 1..n
             /\ p <= m /\ (p = m => i <= Len(b))
  <2>1. P[p][i] \in (1..n) \ L
    BY <1>1, LinesOfIs, Zenon
  <2>2. CASE p = m
    <3>1. i \in 1..Len(b)
      BY <1>2, <1>4, <1>6, <2>2
    <3>2. i \in DOMAIN e /\ e[i] = b[i] /\ i <= Len(b)
      BY <1>2, <3>1
    <3>3. p <= m
      BY <1>1, <2>2
    <3> QED
      BY <1>1, <1>3, <1>4, <2>1, <2>2, <3>2, <3>3, Zenon
  <2>3. CASE p # m
    <3>1. p \in 1..(m - 1)
      BY <1>1, <2>3
    <3>2. Q[p] = P[p]
      BY <3>1 DEF m
    <3> QED
      BY <1>1, <1>6, <2>1, <2>3, <3>1, <3>2
  <2> QED
    BY <2>2, <2>3
<1>7. Ascending(Q)
  <2> SUFFICES ASSUME NEW p \in DOMAIN Q, NEW q \in DOMAIN Q, NEW i \in DOMAIN Q[p],
                      NEW j \in DOMAIN Q[q], p < q \/ (p = q /\ i < j)
               PROVE  Q[p][i] < Q[q][j]
    BY Zenon DEF Ascending
  <2>1. CASE p \in DOMAIN P /\ i \in DOMAIN P[p] /\ Q[p][i] = P[p][i]
    <3>1. CASE q \in DOMAIN P /\ j \in DOMAIN P[q] /\ Q[q][j] = P[q][j]
      <4>1. P[p][i] < P[q][j]
        BY <1>1, <2>1, <3>1, Zenon DEF Ascending
      <4> QED
        BY <2>1, <3>1, <4>1
    <3>2. CASE Q[q][j] = n + 1
      <4>1. Q[p][i] \in 1..n
        BY <1>6, <2>1, Zenon
      <4> QED
        BY <1>1, <3>2, <4>1
    <3> QED
      BY <1>5, <3>1, <3>2, Zenon
  <2>2. CASE p = m /\ i = Len(b) + 1
    <3>1. q \in 1..m
      BY <1>1
    <3>2. q = m
      BY <1>1, <2>2, <3>1
    <3>3. i < j
      BY <1>1, <2>2, <3>2
    <3>4. j \in 1..(Len(b) + 1)
      BY <1>2, <1>3, <3>2
    <3> QED
      BY <1>2, <2>2, <3>3, <3>4
  <2> QED
    BY <1>5, <2>1, <2>2, Zenon
<1>8. LinesOf(Q) = (1..(n + 1)) \ L
  <2>1. LinesOf(Q) = LinesOf(P) \cup {n + 1}
    <3>1. n + 1 \in LinesOf(Q)
      <4>1. m \in DOMAIN Q /\ Len(b) + 1 \in DOMAIN e /\ e[Len(b) + 1] = n + 1
        BY <1>1, <1>2
      <4> QED
        BY <1>3, <4>1, LinesOfIs, Zenon
    <3>2. ASSUME NEW x \in LinesOf(P) PROVE x \in LinesOf(Q)
      <4>1. PICK p \in DOMAIN P : \E i \in DOMAIN P[p] : P[p][i] = x
        <5>1. Holds(P, x)
          BY PlaceOf, Zenon
        <5> QED
          BY <5>1 DEF Holds
      <4>2. p \in DOMAIN Q /\ \E i \in DOMAIN Q[p] : Q[p][i] = x
        BY <1>6, <4>1, Zenon
      <4> QED
        BY <4>2, LinesOfIs, Zenon
    <3>3. ASSUME NEW x \in LinesOf(Q) PROVE x \in LinesOf(P) \/ x = n + 1
      <4>1. PICK p \in DOMAIN Q : \E i \in DOMAIN Q[p] : Q[p][i] = x
        <5>1. Holds(Q, x)
          BY PlaceOf, Zenon
        <5> QED
          BY <5>1 DEF Holds
      <4>2. PICK i \in DOMAIN Q[p] : Q[p][i] = x
        BY <4>1
      <4>3. CASE p \in DOMAIN P /\ i \in DOMAIN P[p] /\ Q[p][i] = P[p][i]
        BY <4>2, <4>3, LinesOfIs, Zenon
      <4> QED
        BY <1>5, <4>2, <4>3, Zenon
    <3> QED
      BY <3>1, <3>2, <3>3
  <2>2. n + 1 \notin L
    BY <1>1
  <2>3. 1..(n + 1) = (1..n) \cup {n + 1}
    BY <1>1
  <2> QED
    BY <1>1, <2>1, <2>2, <2>3, Zenon
<1>9. n + 1 \in Nat /\ L \subseteq 1..(n + 1)
  BY <1>1
<1> QED
  BY <1>7, <1>8, <1>9 DEF InPlace

\* The first k lines of the second place of P are at the end of the first
\* place of Q, and the other places move up by one.
Moved(P, Q, k) ==
    /\ Q \in Seq(Seq(Nat)) /\ Len(P) >= 2 /\ Len(Q) = Len(P) - 1 /\ k \in 0..Len(P[2])
    /\ Len(Q[1]) = Len(P[1]) + k
    /\ \A i \in 1..Len(P[1]) : Q[1][i] = P[1][i]
    /\ \A i \in 1..k : Q[1][Len(P[1]) + i] = P[2][i]
    /\ \A p \in 2..Len(Q) : Q[p] = P[p + 1]

Lost(P, k) == GivenUp(P[2], k)

\* The first buffer goes to the file, all of it or the first k lines.
LEMMA WriteFirst ==
    ASSUME NEW P, NEW n, NEW L, InPlace(P, n, L), NEW Q, NEW k, Moved(P, Q, k)
    PROVE  InPlace(Q, n, L \cup Lost(P, k))
<1> DEFINE From(p, i, g, h, a) == \/ p = 1 /\ g = 1 /\ h = i
                                  \/ p = 1 /\ g = 2 /\ h = i - a /\ h <= k
                                  \/ p >= 2 /\ g = p + 1 /\ h = i
<1>1. /\ P \in Seq(Seq(Nat)) /\ Q \in Seq(Seq(Nat)) /\ n \in Nat /\ L \subseteq 1..n
      /\ Ascending(P) /\ LinesOf(P) = (1..n) \ L
      /\ DOMAIN P = 1..Len(P) /\ DOMAIN Q = 1..Len(Q) /\ Len(P) \in Nat /\ Len(P) >= 2
      /\ Len(Q) \in Nat /\ Len(Q) = Len(P) - 1
  BY DEF InPlace, Moved
<1>2. /\ P[1] \in Seq(Nat) /\ P[2] \in Seq(Nat) /\ Q[1] \in Seq(Nat)
      /\ 1 \in DOMAIN P /\ 2 \in DOMAIN P /\ 1 \in DOMAIN Q
  BY <1>1
<1>3. PICK a, m : a = Len(P[1]) /\ m = Len(P[2])
  OBVIOUS
<1>4. /\ a \in Nat /\ DOMAIN P[1] = 1..a /\ m \in Nat /\ DOMAIN P[2] = 1..m
      /\ k \in 0..m /\ DOMAIN Q[1] = 1..(a + k)
      /\ \A i \in 1..a : Q[1][i] = P[1][i]
      /\ \A i \in 1..k : Q[1][a + i] = P[2][i]
      /\ \A p \in 2..Len(Q) : Q[p] = P[p + 1]
  BY <1>2, <1>3 DEF Moved
<1>5. PICK r, s \in Nat : r >= 2 /\ s = r - 1 /\ s = Len(Q) /\ DOMAIN P = 1..r /\ DOMAIN Q = 1..s
  BY <1>1
<1>6. a \in Nat /\ k \in Nat /\ DOMAIN P[1] = 1..a
  BY <1>4
<1>7. \A p \in DOMAIN Q : p \in Nat /\ \A i \in DOMAIN Q[p] : i \in Nat
  BY <1>1, SMTT(30)
<1>8. ASSUME NEW p \in DOMAIN Q, NEW i \in DOMAIN Q[p]
      PROVE  \E g \in DOMAIN P : \E h \in DOMAIN P[g] : From(p, i, g, h, a) /\ Q[p][i] = P[g][h]
  <2>1. CASE p = 1 /\ i <= a
    <3>1. i \in 1..a
      BY <1>4, <1>8, <2>1
    <3> QED
      BY <1>2, <1>4, <2>1, <3>1, Zenon
  <2>2. CASE p = 1 /\ i > a
    <3>1. i \in 1..(a + k)
      BY <1>4, <1>8, <2>2
    <3>2. PICK h \in 1..k : h = i - a /\ a + h = i /\ h <= k
      BY <1>4, <2>2, <3>1
    <3>3. h \in DOMAIN P[2]
      BY <1>4
    <3>4. Q[p][i] = P[2][h]
      BY <1>4, <2>2, <3>2
    <3> QED
      BY <1>2, <2>2, <3>2, <3>3, <3>4, Zenon
  <2>3. CASE p # 1
    <3>1. p \in 2..Len(Q) /\ p >= 2 /\ p + 1 \in DOMAIN P
      BY <1>5, <1>8, <2>3
    <3>2. Q[p] = P[p + 1]
      BY <1>4, <3>1
    <3> QED
      BY <1>8, <3>1, <3>2, Zenon
  <2>4. i \in Nat
    BY <1>7, <1>8, Zenon
  <2> QED
    BY <1>4, <2>1, <2>2, <2>3, <2>4
<1>9. ASSUME NEW g \in DOMAIN P, NEW h \in DOMAIN P[g]
      PROVE  P[g][h] \in 1..n /\ h \in Nat /\ g \in Nat
  <2>1. P[g][h] \in (1..n) \ L
    BY <1>1, LinesOfIs, Zenon
  <2>2. P[g] \in Seq(Nat) /\ g \in Nat
    BY <1>1
  <2> QED
    BY <2>1, <2>2
<1>10. Ascending(Q)
  <2> SUFFICES ASSUME NEW p \in DOMAIN Q, NEW q \in DOMAIN Q, NEW i \in DOMAIN Q[p],
                      NEW j \in DOMAIN Q[q], p < q \/ (p = q /\ i < j)
               PROVE  Q[p][i] < Q[q][j]
    BY Zenon DEF Ascending
  <2>1. PICK g \in DOMAIN P : \E h \in DOMAIN P[g] : From(p, i, g, h, a) /\ Q[p][i] = P[g][h]
    BY <1>8, Zenon
  <2>2. PICK h \in DOMAIN P[g] : From(p, i, g, h, a) /\ Q[p][i] = P[g][h]
    BY <2>1
  <2>3. PICK u \in DOMAIN P : \E v \in DOMAIN P[u] : From(q, j, u, v, a) /\ Q[q][j] = P[u][v]
    BY <1>8, Zenon
  <2>4. PICK v \in DOMAIN P[u] : From(q, j, u, v, a) /\ Q[q][j] = P[u][v]
    BY <2>3
  <2>5. /\ p \in Nat /\ q \in Nat /\ i \in Nat /\ j \in Nat
    BY <1>7, Zenon
  <2>6. h \in Nat /\ g \in Nat /\ u \in Nat /\ v \in Nat
    BY <1>9
  <2>7. (g = 1 => h <= a) /\ (u = 1 => v <= a)
    BY <1>6
  <2>8. p >= 1 /\ q >= 1 /\ u >= 1
    BY <1>5
  <2>9. g < u \/ (g = u /\ h < v)
    <3>1. From(p, i, g, h, a) /\ From(q, j, u, v, a)
      BY <2>2, <2>4
    <3> QED
      BY <1>6, <2>5, <2>6, <2>7, <2>8, <3>1
  <2>10. P[g][h] < P[u][v]
    BY <1>1, <2>9, Zenon DEF Ascending
  <2> QED
    BY <2>2, <2>4, <2>10
<1>11. LinesOf(Q) = LinesOf(P) \ Lost(P, k)
  <2>1. ASSUME NEW x \in LinesOf(Q) PROVE x \in LinesOf(P) \ Lost(P, k)
    <3>1. PICK p \in DOMAIN Q : \E i \in DOMAIN Q[p] : Q[p][i] = x
      <4>1. Holds(Q, x)
        BY PlaceOf, Zenon
      <4> QED
        BY <4>1 DEF Holds
    <3>2. PICK i \in DOMAIN Q[p] : Q[p][i] = x
      BY <3>1
    <3>3. PICK g \in DOMAIN P : \E h \in DOMAIN P[g] : From(p, i, g, h, a) /\ Q[p][i] = P[g][h]
      BY <1>8, Zenon
    <3>4. PICK h \in DOMAIN P[g] : From(p, i, g, h, a) /\ Q[p][i] = P[g][h]
      BY <3>3
    <3>5. x \in LinesOf(P)
      BY <3>2, <3>4, LinesOfIs, Zenon
    <3>6. ASSUME NEW j \in (k + 1)..m PROVE x # P[2][j]
      <4>1. j \in DOMAIN P[2] /\ j \in Nat /\ j > k
        BY <1>4
      <4>2. g < 2 \/ (g = 2 /\ h < j) \/ 2 < g
        BY <1>4, <1>9, <3>4, <4>1, SMTT(30)
      <4>3. P[g][h] < P[2][j] \/ P[2][j] < P[g][h]
        BY <1>1, <1>2, <4>1, <4>2, Zenon DEF Ascending
      <4>4. P[g][h] \in Nat /\ P[2][j] \in Nat
        BY <1>2, <1>9, <4>1
      <4> QED
        BY <3>2, <3>4, <4>3, <4>4
    <3> QED
      BY <1>3, <3>5, <3>6 DEF Lost, GivenUp
  <2>2. ASSUME NEW x \in LinesOf(P), x \notin Lost(P, k) PROVE x \in LinesOf(Q)
    <3>1. PICK g \in DOMAIN P : \E h \in DOMAIN P[g] : P[g][h] = x
      <4>1. Holds(P, x)
        BY PlaceOf, Zenon
      <4> QED
        BY <4>1 DEF Holds
    <3>2. PICK h \in DOMAIN P[g] : P[g][h] = x
      BY <3>1
    <3>4. CASE g = 1
      <4>1. h \in DOMAIN Q[1] /\ Q[1][h] = x
        BY <1>4, <3>2, <3>4
      <4> QED
        BY <1>2, <4>1, LinesOfIs, Zenon
    <3>5. CASE g = 2
      <4>1. h \in 1..k
        BY <1>3, <1>4, <2>2, <3>2, <3>5 DEF Lost, GivenUp
      <4>2. a + h \in DOMAIN Q[1]
        BY <1>4, <4>1
      <4>3. Q[1][a + h] = x
        BY <1>4, <3>2, <3>5, <4>1
      <4> QED
        BY <1>2, <4>2, <4>3, LinesOfIs, Zenon
    <3>6. CASE g # 1 /\ g # 2
      <4>1. PICK p \in 2..Len(Q) : p + 1 = g /\ p \in DOMAIN Q
        <5>1. g - 1 \in 2..Len(Q) /\ (g - 1) + 1 = g /\ g - 1 \in DOMAIN Q
          BY <1>5, <3>6
        <5> QED
          BY <5>1
      <4>2. Q[p] = P[g]
        BY <1>4, <4>1
      <4> QED
        BY <3>2, <4>1, <4>2, LinesOfIs, Zenon
    <3> QED
      BY <3>4, <3>5, <3>6
  <2> QED
    BY <2>1, <2>2
<1>12. L \cup Lost(P, k) \subseteq 1..n
  <2>1. ASSUME NEW j \in (k + 1)..m PROVE P[2][j] \in 1..n
    <3>1. j \in DOMAIN P[2]
      BY <1>4
    <3> QED
      BY <1>2, <1>9, <3>1
  <2>2. Lost(P, k) \subseteq 1..n
    BY <1>3, <2>1 DEF Lost, GivenUp
  <2> QED
    BY <1>1, <2>2, Zenon
<1>13. LinesOf(Q) = (1..n) \ (L \cup Lost(P, k))
  BY <1>1, <1>11
<1> QED
  BY <1>1, <1>10, <1>12, <1>13 DEF InPlace

\* Only the first k lines of the first place are left.
LEMMA CutFirst ==
    ASSUME NEW P, NEW n, NEW L, InPlace(P, n, L), NEW Q \in Seq(Seq(Nat)), Len(P) >= 1,
           Len(Q) = Len(P), NEW k, Cut(Q[1], P[1], k), \A p \in 2..Len(P) : Q[p] = P[p]
    PROVE  InPlace(Q, n, L \cup GivenUp(P[1], k))
<1>1. /\ P \in Seq(Seq(Nat)) /\ n \in Nat /\ L \subseteq 1..n /\ Ascending(P)
      /\ LinesOf(P) = (1..n) \ L /\ DOMAIN P = 1..Len(P) /\ DOMAIN Q = 1..Len(P) /\ Len(P) \in Nat
  BY DEF InPlace
<1>2. 1 \in DOMAIN P /\ 1 \in DOMAIN Q /\ P[1] \in Seq(Nat) /\ Q[1] \in Seq(Nat)
  BY <1>1
<1>3. PICK a \in Nat : a = Len(P[1])
  BY <1>2
<1>4. /\ k \in 0..a /\ DOMAIN P[1] = 1..a /\ DOMAIN Q[1] = 1..k
      /\ \A i \in 1..k : Q[1][i] = P[1][i]
  BY <1>2, <1>3 DEF Cut
<1>5. ASSUME NEW p \in DOMAIN Q, NEW i \in DOMAIN Q[p]
      PROVE  p \in DOMAIN P /\ i \in DOMAIN P[p] /\ Q[p][i] = P[p][i] /\ (p = 1 => i \in 1..k)
  <2>1. CASE p = 1
    <3>1. i \in 1..k /\ i \in 1..a
      BY <1>4, <1>5, <2>1
    <3> QED
      BY <1>1, <1>4, <1>5, <2>1, <3>1
  <2>2. CASE p # 1
    <3>1. p \in 2..Len(P) /\ p \in DOMAIN P
      BY <1>1, <1>5, <2>2
    <3> QED
      BY <1>5, <2>2, <3>1, Zenon
  <2> QED
    BY <2>1, <2>2
<1>6. ASSUME NEW g \in DOMAIN P, NEW h \in DOMAIN P[g] PROVE P[g][h] \in 1..n
  <2>1. P[g][h] \in (1..n) \ L
    BY <1>1, LinesOfIs, Zenon
  <2> QED
    BY <2>1
<1>7. Ascending(Q)
  <2> SUFFICES ASSUME NEW p \in DOMAIN Q, NEW q \in DOMAIN Q, NEW i \in DOMAIN Q[p],
                      NEW j \in DOMAIN Q[q], p < q \/ (p = q /\ i < j)
               PROVE  Q[p][i] < Q[q][j]
    BY Zenon DEF Ascending
  <2>1. /\ p \in DOMAIN P /\ i \in DOMAIN P[p] /\ Q[p][i] = P[p][i]
        /\ q \in DOMAIN P /\ j \in DOMAIN P[q] /\ Q[q][j] = P[q][j]
    BY <1>5, Zenon
  <2>2. P[p][i] < P[q][j]
    BY <1>1, <2>1, Zenon DEF Ascending
  <2> QED
    BY <2>1, <2>2, Zenon
<1>8. LinesOf(Q) = LinesOf(P) \ GivenUp(P[1], k)
  <2>1. ASSUME NEW x \in LinesOf(Q) PROVE x \in LinesOf(P) \ GivenUp(P[1], k)
    <3>1. PICK p \in DOMAIN Q : \E i \in DOMAIN Q[p] : Q[p][i] = x
      <4>1. Holds(Q, x)
        BY PlaceOf, Zenon
      <4> QED
        BY <4>1 DEF Holds
    <3>2. PICK i \in DOMAIN Q[p] : Q[p][i] = x
      BY <3>1
    <3>3. p \in DOMAIN P /\ i \in DOMAIN P[p] /\ x = P[p][i] /\ (p = 1 => i \in 1..k)
      BY <1>5, <3>2
    <3>4. x \in LinesOf(P)
      BY <3>3, LinesOfIs, Zenon
    <3>5. ASSUME NEW j \in (k + 1)..a PROVE x # P[1][j]
      <4>1. j \in DOMAIN P[1] /\ j \in Nat /\ j > k /\ P[1][j] \in Nat
        <5>1. j \in 1..a /\ j \in Nat /\ j > k
          BY <1>4
        <5>2. j \in DOMAIN P[1]
          BY <1>4, <5>1, Zenon
        <5> QED
          BY <1>2, <5>1, <5>2, SMTT(30)
      <4>2. (p = 1 /\ i < j) \/ 1 < p
        BY <1>1, <1>4, <3>3, <4>1
      <4>3. P[1][j] < P[p][i] \/ P[p][i] < P[1][j]
        BY <1>1, <1>2, <3>3, <4>1, <4>2, Zenon DEF Ascending
      <4>4. P[p][i] \in 1..n
        BY <1>6, <3>3
      <4> QED
        BY <3>3, <4>1, <4>3, <4>4
    <3> QED
      BY <1>3, <3>4, <3>5 DEF GivenUp
  <2>2. ASSUME NEW x \in LinesOf(P), x \notin GivenUp(P[1], k) PROVE x \in LinesOf(Q)
    <3>1. PICK g \in DOMAIN P : \E h \in DOMAIN P[g] : P[g][h] = x
      <4>1. Holds(P, x)
        BY PlaceOf, Zenon
      <4> QED
        BY <4>1 DEF Holds
    <3>2. PICK h \in DOMAIN P[g] : P[g][h] = x
      BY <3>1
    <3>3. CASE g = 1
      <4>1. h \in 1..k
        BY <1>3, <1>4, <2>2, <3>2, <3>3 DEF GivenUp
      <4>2. h \in DOMAIN Q[1] /\ Q[1][h] = x
        BY <1>4, <3>2, <3>3, <4>1
      <4> QED
        BY <1>2, <4>2, LinesOfIs, Zenon
    <3>4. CASE g # 1
      <4>1. g \in 2..Len(P) /\ g \in DOMAIN Q
        BY <1>1, <3>4
      <4>2. Q[g] = P[g]
        BY <4>1
      <4> QED
        BY <3>2, <4>1, <4>2, LinesOfIs, Zenon
    <3> QED
      BY <3>3, <3>4
  <2> QED
    BY <2>1, <2>2
<1>9. L \cup GivenUp(P[1], k) \subseteq 1..n
  <2>1. ASSUME NEW j \in (k + 1)..a PROVE P[1][j] \in 1..n
    <3>1. j \in DOMAIN P[1]
      BY <1>4
    <3> QED
      BY <1>2, <1>6, <3>1
  <2>2. GivenUp(P[1], k) \subseteq 1..n
    BY <1>3, <2>1 DEF GivenUp
  <2> QED
    BY <1>1, <2>2, Zenon
<1>10. LinesOf(Q) = (1..n) \ (L \cup GivenUp(P[1], k))
  BY <1>1, <1>8
<1> QED
  BY <1>1, <1>7, <1>9, <1>10 DEF InPlace

-----------------------------------------------------------------------------
(* The places of the lines.                                                *)

\* The places, one by one: f, the rest of W behind the first u, B and c.
PlacesOf(f, W, u, B, c) == <<f>> \o SubSeq(W, u + 1, Len(W)) \o B \o <<c>>

\* r is t behind s, which has m places.
Joined(s, t, m, r) ==
    /\ r \in Seq(Seq(Nat)) /\ Len(r) = m + Len(t) /\ m \in Nat /\ Len(t) \in Nat
    /\ \A i \in 1..m : r[i] = s[i]
    /\ \A i \in 1..Len(t) : r[m + i] = t[i]

\* One list of places behind another.
LEMMA JoinedPlaces ==
    ASSUME NEW s \in Seq(Seq(Nat)), NEW t \in Seq(Seq(Nat))
    PROVE  Joined(s, t, Len(s), s \o t)
BY DEF Joined

\* P has f, w places of W behind the first u, b places of B, and c.
Laid(P, f, W, u, w, B, b, c) ==
    /\ P \in Seq(Seq(Nat)) /\ w \in Nat /\ b \in Nat /\ Len(P) = (w + b) + 2
    /\ P[1] = f
    /\ \A i \in 1..w : P[1 + i] = W[u + i]
    /\ \A i \in 1..b : P[(1 + w) + i] = B[i]
    /\ P[Len(P)] = c

\* The number of the places, and what each of them is.
LEMMA PlacesAre ==
    ASSUME NEW f \in Seq(Nat), NEW W \in Seq(Seq(Nat)), NEW u \in 0..Len(W),
           NEW B \in Seq(Seq(Nat)), NEW c \in Seq(Nat)
    PROVE  Laid(PlacesOf(f, W, u, B, c), f, W, u, Len(W) - u, B, Len(B), c)
<1> DEFINE S == SubSeq(W, u + 1, Len(W))
           n == Len(W) - u
<1>1. S \in Seq(Seq(Nat)) /\ Len(S) = n /\ n \in Nat /\ \A i \in 1..n : S[i] = W[u + i]
  OBVIOUS
<1> HIDE DEF S, n
<1> DEFINE s1 == <<f>> \o S
<1>2. /\ s1 \in Seq(Seq(Nat)) /\ Len(s1) = 1 + n /\ s1[1] = f
      /\ \A i \in 1..n : s1[1 + i] = S[i]
  <2>1. <<f>> \in Seq(Seq(Nat)) /\ Len(<<f>>) = 1 /\ <<f>>[1] = f
    OBVIOUS
  <2>2. /\ s1 \in Seq(Seq(Nat)) /\ Len(s1) = 1 + Len(S)
        /\ \A i \in 1..1 : s1[i] = <<f>>[i]
        /\ \A i \in 1..Len(S) : s1[1 + i] = S[i]
    <3>1. Joined(<<f>>, S, Len(<<f>>), s1)
      BY <1>1, <2>1, JoinedPlaces, Zenon
    <3> QED
      BY <2>1, <3>1, Zenon DEF Joined
  <2> HIDE DEF s1
  <2> QED
    BY <1>1, <2>1, <2>2, SMTT(30)
<1> HIDE DEF s1
<1> DEFINE s2 == s1 \o B
<1>3. /\ s2 \in Seq(Seq(Nat)) /\ Len(s2) = (1 + n) + Len(B) /\ Len(B) \in Nat
      /\ \A i \in 1..(1 + n) : s2[i] = s1[i]
      /\ \A i \in 1..Len(B) : s2[(1 + n) + i] = B[i]
  <2>1. Joined(s1, B, Len(s1), s2)
    BY <1>2, JoinedPlaces, Zenon
  <2>2. Joined(s1, B, 1 + n, s2)
    BY <1>2, <2>1, Zenon
  <2> QED
    BY <2>2, Zenon DEF Joined
<1> HIDE DEF s2
<1> DEFINE s3 == s2 \o <<c>>
<1>4. /\ s3 \in Seq(Seq(Nat)) /\ Len(s3) = ((1 + n) + Len(B)) + 1
      /\ \A i \in 1..((1 + n) + Len(B)) : s3[i] = s2[i]
      /\ s3[((1 + n) + Len(B)) + 1] = c
  <2>1. <<c>> \in Seq(Seq(Nat)) /\ Len(<<c>>) = 1 /\ <<c>>[1] = c
    OBVIOUS
  <2>2. PICK m : m = (1 + n) + Len(B)
    OBVIOUS
  <2>3. /\ s3 \in Seq(Seq(Nat)) /\ Len(s3) = m + Len(<<c>>)
        /\ \A i \in 1..m : s3[i] = s2[i]
        /\ \A i \in 1..Len(<<c>>) : s3[m + i] = <<c>>[i]
    <3>1. Joined(s2, <<c>>, Len(s2), s3)
      BY <1>3, <2>1, JoinedPlaces, Zenon
    <3>2. Joined(s2, <<c>>, m, s3)
      BY <1>3, <2>2, <3>1, Zenon
    <3> QED
      BY <3>2, Zenon DEF Joined
  <2> HIDE DEF s3
  <2>4. s3[m + 1] = c
    <3>1. 1 \in 1..Len(<<c>>)
      BY <2>1
    <3> QED
      BY <2>1, <2>3, <3>1, Zenon
  <2> QED
    BY <2>1, <2>2, <2>3, <2>4, Zenon
<1> HIDE DEF s3
<1>5. PlacesOf(f, W, u, B, c) = s3
  BY Zenon DEF PlacesOf, s3, s2, s1, S
<1>6. s3[1] = f /\ \A i \in 1..n : s3[1 + i] = W[u + i]
  <2>1. 1 \in 1..(1 + n) /\ 1 \in 1..((1 + n) + Len(B))
    BY <1>1, <1>3
  <2>2. \A i \in 1..n : 1 + i \in 1..(1 + n) /\ 1 + i \in 1..((1 + n) + Len(B))
    BY <1>1, <1>3
  <2>3. s3[1] = s2[1] /\ s2[1] = s1[1]
    BY <1>3, <1>4, <2>1, Zenon
  <2>4. ASSUME NEW i \in 1..n PROVE s3[1 + i] = W[u + i]
    <3>1. s3[1 + i] = s2[1 + i] /\ s2[1 + i] = s1[1 + i] /\ s1[1 + i] = S[i] /\ S[i] = W[u + i]
      BY <1>1, <1>2, <1>3, <1>4, <2>2, Zenon
    <3> QED
      BY <3>1, Zenon
  <2> QED
    BY <1>2, <2>3, <2>4, Zenon
<1>7. \A i \in 1..Len(B) : s3[(1 + n) + i] = B[i]
  <2>1. \A m \in Nat : \A i \in 1..m : (1 + n) + i \in 1..((1 + n) + m)
    BY <1>1
  <2> QED
    BY <1>3, <1>4, <2>1, Zenon
<1>8. Len(s3) = (n + Len(B)) + 2 /\ s3[Len(s3)] = c
  BY <1>1, <1>3, <1>4
<1>9. Laid(s3, f, W, u, n, B, Len(B), c)
  BY <1>1, <1>3, <1>4, <1>6, <1>7, <1>8, Zenon DEF Laid
<1> QED
  BY <1>5, <1>9, Zenon DEF n

\* The first m places are the same.
Agree(P, Q, m) == \A p \in 1..m : Q[p] = P[p]

\* Places that agree but for the end.
LEMMA SameBefore ==
    ASSUME NEW P, NEW Q, NEW f, NEW W, NEW u, NEW w, NEW B, NEW b, NEW c, NEW D, NEW d, NEW e,
           Laid(P, f, W, u, w, B, b, c), Laid(Q, f, W, u, w, D, d, e),
           b <= d, Agree(B, D, b)
    PROVE  Agree(P, Q, (1 + w) + b)
<1> SUFFICES \A p \in 1..((1 + w) + b) : Q[p] = P[p]
  BY Zenon DEF Agree
<1>1. w \in Nat /\ b \in Nat /\ d \in Nat
  BY DEF Laid
<1>2. /\ P[1] = f /\ Q[1] = f
      /\ \A i \in 1..w : P[1 + i] = W[u + i] /\ Q[1 + i] = W[u + i]
      /\ \A i \in 1..b : P[(1 + w) + i] = B[i]
      /\ \A i \in 1..d : Q[(1 + w) + i] = D[i]
      /\ \A i \in 1..b : D[i] = B[i]
  BY Zenon DEF Laid, Agree
<1> TAKE p \in 1..((1 + w) + b)
<1>3. \/ p = 1
      \/ \E i \in 1..w : p = 1 + i
      \/ \E i \in 1..b : p = (1 + w) + i /\ i \in 1..d
  <2>1. CASE p = 1
    BY <2>1
  <2>2. CASE 1 < p /\ p <= 1 + w
    <3>1. p - 1 \in 1..w /\ p = 1 + (p - 1)
      BY <1>1, <2>2
    <3> QED
      BY <3>1
  <2>3. CASE 1 + w < p
    <3>1. p - (1 + w) \in 1..b /\ p - (1 + w) \in 1..d /\ p = (1 + w) + (p - (1 + w))
      BY <1>1, <2>3
    <3> QED
      BY <3>1
  <2> QED
    BY <1>1, <2>1, <2>2, <2>3
<1>4. CASE p = 1
  BY <1>2, <1>4, Zenon
<1>5. ASSUME NEW i \in 1..w, p = 1 + i PROVE Q[p] = P[p]
  BY <1>2, <1>5, Zenon
<1>6. ASSUME NEW i \in 1..b, p = (1 + w) + i, i \in 1..d PROVE Q[p] = P[p]
  BY <1>2, <1>6, Zenon
<1> QED
  BY <1>3, <1>4, <1>5, <1>6, Zenon

\* append() to a buffer that has room.
LEMMA AppendMoves ==
    ASSUME NEW f \in Seq(Nat), NEW W \in Seq(Seq(Nat)), NEW u \in 0..Len(W),
           NEW B \in Seq(Seq(Nat)), NEW c \in Seq(Nat),
           NEW n, NEW L, InPlace(PlacesOf(f, W, u, B, c), n, L)
    PROVE  InPlace(PlacesOf(f, W, u, B, Append(c, n + 1)), n + 1, L)
<1>1. PICK P, Q : P = PlacesOf(f, W, u, B, c) /\ Q = PlacesOf(f, W, u, B, Append(c, n + 1))
  OBVIOUS
<1>2. PICK w, b, e : w = Len(W) - u /\ b = Len(B) /\ e = Append(c, n + 1)
  OBVIOUS
<1>3. InPlace(P, n, L) /\ n \in Nat
  BY <1>1, Zenon DEF InPlace
<1>4. e \in Seq(Nat)
  BY <1>2, <1>3
<1>5. Laid(P, f, W, u, w, B, b, c) /\ Laid(Q, f, W, u, w, B, b, e)
  BY <1>1, <1>2, <1>4, PlacesAre, Zenon
<1>6. /\ Q \in Seq(Seq(Nat)) /\ w \in Nat /\ b \in Nat /\ Len(P) = (w + b) + 2 /\ Len(Q) = (w + b) + 2
      /\ P[Len(P)] = c /\ Q[Len(Q)] = e
  BY <1>5, Zenon DEF Laid
<1>7. Len(P) > 0 /\ Len(Q) = Len(P) /\ Len(P) - 1 = (1 + w) + b /\ b <= b
  BY <1>6
<1>8. \A p \in 1..((1 + w) + b) : Q[p] = P[p]
  <2>1. Agree(B, B, b)
    BY Zenon DEF Agree
  <2>2. Agree(P, Q, (1 + w) + b)
    BY <1>5, <1>7, <2>1, SameBefore, Zenon
  <2> QED
    BY <2>2, Zenon DEF Agree
<1>9. Q[Len(P)] = Append(P[Len(P)], n + 1)
  BY <1>2, <1>6, <1>7, Zenon
<1>10. \A p \in 1..(Len(P) - 1) : Q[p] = P[p]
  BY <1>7, <1>8, Zenon
<1>11. InPlace(Q, n + 1, L)
  BY <1>3, <1>6, <1>7, <1>9, <1>10, NextLine, Zenon
<1> QED
  BY <1>1, <1>11, Zenon

\* A buffer that is pushed, with an empty one behind it.
LEMMA PushMoves ==
    ASSUME NEW f \in Seq(Nat), NEW W \in Seq(Seq(Nat)), NEW u \in 0..Len(W),
           NEW B \in Seq(Seq(Nat)), NEW c \in Seq(Nat),
           NEW n, NEW L, InPlace(PlacesOf(f, W, u, B, c), n, L)
    PROVE  InPlace(PlacesOf(f, W, u, Append(B, c), <<>>), n, L)
<1>1. PICK P, Q : P = PlacesOf(f, W, u, B, c) /\ Q = PlacesOf(f, W, u, Append(B, c), <<>>)
  OBVIOUS
<1>2. PICK w, b, D, d, e : w = Len(W) - u /\ b = Len(B) /\ D = Append(B, c) /\ d = Len(D) /\ e = <<>>
  OBVIOUS
<1>3. InPlace(P, n, L)
  BY <1>1, Zenon
<1>4. /\ D \in Seq(Seq(Nat)) /\ d = b + 1 /\ b \in Nat /\ D[b + 1] = c /\ \A i \in 1..b : D[i] = B[i]
      /\ e \in Seq(Nat)
  BY <1>2
<1>5. Laid(P, f, W, u, w, B, b, c) /\ Laid(Q, f, W, u, w, D, d, e)
  BY <1>1, <1>2, <1>4, PlacesAre, Zenon
<1>6. /\ Q \in Seq(Seq(Nat)) /\ w \in Nat /\ d \in Nat /\ Len(P) = (w + b) + 2 /\ Len(Q) = (w + d) + 2
      /\ P[Len(P)] = c /\ Q[Len(Q)] = e
      /\ \A i \in 1..d : Q[(1 + w) + i] = D[i]
  BY <1>5, Zenon DEF Laid
<1>7. Len(Q) = Len(P) + 1 /\ Len(P) = (1 + w) + (b + 1) /\ b <= d /\ b + 1 \in 1..d
  BY <1>4, <1>6
<1>8. \A p \in 1..((1 + w) + b) : Q[p] = P[p]
  <2>1. Agree(B, D, b)
    BY <1>4, Zenon DEF Agree
  <2>2. Agree(P, Q, (1 + w) + b)
    BY <1>5, <1>7, <2>1, SameBefore, Zenon
  <2> QED
    BY <2>2, Zenon DEF Agree
<1>9. Q[Len(P)] = P[Len(P)]
  BY <1>4, <1>6, <1>7, Zenon
<1>10. ASSUME NEW p \in 1..Len(P) PROVE Q[p] = P[p]
  <2>1. p \in 1..((1 + w) + b) \/ p = Len(P)
    BY <1>4, <1>6, <1>7
  <2> QED
    BY <1>8, <1>9, <2>1, Zenon
<1>11. InPlace(Q, n, L)
  BY <1>2, <1>3, <1>6, <1>7, <1>10, MorePlaces, Zenon
<1> QED
  BY <1>1, <1>11, Zenon

\* The exchange: the buffers are the buffers to write.
LEMMA ExchangeMoves ==
    ASSUME NEW f \in Seq(Nat), NEW B \in Seq(Seq(Nat)), NEW c \in Seq(Nat),
           NEW n, NEW L, InPlace(PlacesOf(f, <<>>, 0, B, c), n, L)
    PROVE  InPlace(PlacesOf(f, Append(B, c), 0, <<>>, <<>>), n, L)
<1>1. PICK P, Q, N : N = <<>> /\ P = PlacesOf(f, N, 0, B, c) /\ Q = PlacesOf(f, Append(B, c), 0, N, N)
  OBVIOUS
<1>2. PICK b, D, d : b = Len(B) /\ D = Append(B, c) /\ d = Len(D)
  OBVIOUS
<1>3. InPlace(P, n, L)
  BY <1>1, Zenon
<1>4. /\ D \in Seq(Seq(Nat)) /\ d = b + 1 /\ b \in Nat /\ D[b + 1] = c /\ \A i \in 1..b : D[i] = B[i]
      /\ d \in Nat
  BY <1>2
<1>5. /\ N \in Seq(Nat) /\ N \in Seq(Seq(Nat)) /\ Len(N) = 0 /\ Len(N) - 0 = 0 /\ 0 \in 0..Len(N)
      /\ 0 \in 0..Len(D) /\ Len(D) - 0 = d
  BY <1>1, <1>2, <1>4
<1>6. Laid(P, f, N, 0, 0, B, b, c) /\ Laid(Q, f, D, 0, d, N, 0, N)
  <2>1. Laid(PlacesOf(f, N, 0, B, c), f, N, 0, Len(N) - 0, B, Len(B), c)
    BY <1>5, PlacesAre, Zenon
  <2>2. Laid(PlacesOf(f, D, 0, N, N), f, D, 0, Len(D) - 0, N, Len(N), N)
    BY <1>4, <1>5, PlacesAre, Zenon
  <2> QED
    BY <1>1, <1>2, <1>5, <2>1, <2>2, Zenon
<1>7. /\ Q \in Seq(Seq(Nat)) /\ Len(P) = (0 + b) + 2 /\ Len(Q) = (d + 0) + 2
      /\ P[1] = f /\ Q[1] = f /\ P[Len(P)] = c /\ Q[Len(Q)] = N
      /\ \A i \in 1..b : P[(1 + 0) + i] = B[i]
      /\ \A i \in 1..d : Q[1 + i] = D[0 + i]
  BY <1>6, Zenon DEF Laid
<1>8. Len(Q) = Len(P) + 1 /\ Len(P) = b + 2
  BY <1>4, <1>7
<1>9. ASSUME NEW p \in 1..Len(P) PROVE Q[p] = P[p]
  <2>1. CASE p = 1
    BY <1>7, <2>1, Zenon
  <2>2. CASE p # 1
    <3>1. PICK i \in 1..d : p = 1 + i /\ p = (1 + 0) + i /\ 0 + i = i
      <4>1. p - 1 \in 1..d /\ p = 1 + (p - 1) /\ p = (1 + 0) + (p - 1) /\ 0 + (p - 1) = p - 1
        BY <1>4, <1>8, <2>2
      <4> QED
        BY <4>1
    <3>2. Q[p] = D[i]
      BY <1>7, <3>1, Zenon
    <3>3. i \in 1..b \/ (i = b + 1 /\ p = Len(P))
      BY <1>4, <1>8, <3>1
    <3> QED
      BY <1>4, <1>7, <3>1, <3>2, <3>3, Zenon
  <2> QED
    BY <2>1, <2>2
<1>10. InPlace(Q, n, L)
  <2>1. Q \in Seq(Seq(Nat)) /\ Len(Q) = Len(P) + 1 /\ Q[Len(Q)] = <<>>
    BY <1>1, <1>7, <1>8, Zenon
  <2> QED
    BY <1>3, <1>9, <2>1, MorePlaces, Zenon
<1> QED
  BY <1>1, <1>10, Zenon

\* What a concatenation holds.
LEMMA Concatenated ==
    ASSUME NEW f \in Seq(Nat), NEW e \in Seq(Nat)
    PROVE  /\ f \o e \in Seq(Nat) /\ Len(f \o e) = Len(f) + Len(e)
           /\ \A i \in 1..Len(f) : (f \o e)[i] = f[i]
           /\ \A i \in 1..Len(e) : (f \o e)[Len(f) + i] = e[i]
<1>1. f \o e \in Seq(Nat) /\ Len(f \o e) = Len(f) + Len(e)
  OBVIOUS
<1>2. \A i \in 1..Len(f) : (f \o e)[i] = f[i]
  OBVIOUS
<1>3. \A i \in 1..Len(e) : (f \o e)[Len(f) + i] = e[i]
  OBVIOUS
<1> QED
  BY <1>1, <1>2, <1>3

\* A buffer is written behind what the file holds.
LEMMA WriteMoves ==
    ASSUME NEW f \in Seq(Nat), NEW W \in Seq(Seq(Nat)), NEW u \in 0..Len(W), u < Len(W),
           NEW B \in Seq(Seq(Nat)), NEW c \in Seq(Nat),
           NEW a, a = W[u + 1],
           NEW n, NEW L, InPlace(PlacesOf(f, W, u, B, c), n, L)
    PROVE  InPlace(PlacesOf(f \o a, W, u + 1, B, c), n, L)
<1>1. PICK g, v, k : g = f \o a /\ v = u + 1 /\ k = Len(a)
  OBVIOUS
<1>2. PICK P, Q : P = PlacesOf(f, W, u, B, c) /\ Q = PlacesOf(g, W, v, B, c)
  OBVIOUS
<1>3. PICK w, x, b : w = Len(W) - u /\ x = Len(W) - v /\ b = Len(B)
  OBVIOUS
<1>4. /\ w \in Nat /\ x = w - 1 /\ w >= 1 /\ b \in Nat /\ v \in 0..Len(W) /\ u \in Nat /\ v = u + 1
  BY <1>1, <1>3
<1>5. a \in Seq(Nat) /\ k \in Nat
  BY <1>1
<1>6. /\ g \in Seq(Nat) /\ Len(g) = Len(f) + k
      /\ \A i \in 1..Len(f) : g[i] = f[i]
      /\ \A i \in 1..k : g[Len(f) + i] = a[i]
  <2>1. f \in Seq(Nat) /\ a \in Seq(Nat)
    BY <1>5
  <2> QED
    BY <1>1, <2>1, Concatenated, ZenonT(40)
<1>7. Laid(P, f, W, u, w, B, b, c) /\ Laid(Q, g, W, v, x, B, b, c)
  <2>1. Laid(P, f, W, u, w, B, b, c)
    BY <1>2, <1>3, PlacesAre, Zenon
  <2>2. Laid(Q, g, W, v, x, B, b, c)
    <3>1. g \in Seq(Nat) /\ v \in 0..Len(W)
      BY <1>4, <1>6, Zenon
    <3>2. Laid(PlacesOf(g, W, v, B, c), g, W, v, Len(W) - v, B, Len(B), c)
      BY <3>1, PlacesAre, Zenon
    <3> QED
      BY <1>2, <1>3, <3>2, Zenon
  <2> QED
    BY <2>1, <2>2
<1>8. /\ Q \in Seq(Seq(Nat)) /\ Len(P) = (w + b) + 2 /\ Len(Q) = (x + b) + 2
      /\ P[1] = f /\ Q[1] = g /\ P[Len(P)] = c /\ Q[Len(Q)] = c
      /\ \A i \in 1..w : P[1 + i] = W[u + i]
      /\ \A i \in 1..x : Q[1 + i] = W[v + i]
      /\ \A i \in 1..b : P[(1 + w) + i] = B[i]
      /\ \A i \in 1..b : Q[(1 + x) + i] = B[i]
  BY <1>7, Zenon DEF Laid
<1>9. P[2] = a
  <2>1. 1 \in 1..w /\ 1 + 1 = 2
    BY <1>4
  <2>2. P[1 + 1] = W[u + 1]
    BY <1>8, <2>1, Zenon
  <2> QED
    BY <2>1, <2>2
<1>10. Len(P) >= 2 /\ Len(Q) = Len(P) - 1 /\ Len(Q) = (w + b) + 1
  BY <1>4, <1>8
<1>11. ASSUME NEW p \in 2..Len(Q) PROVE Q[p] = P[p + 1]
  <2>1. CASE p <= w
    <3>1. PICK i \in 1..x : p = 1 + i /\ i + 1 \in 1..w /\ p + 1 = 1 + (i + 1) /\ v + i = u + (i + 1)
      <4>1. /\ p - 1 \in 1..x /\ p = 1 + (p - 1) /\ (p - 1) + 1 \in 1..w
            /\ p + 1 = 1 + ((p - 1) + 1) /\ v + (p - 1) = u + ((p - 1) + 1)
        BY <1>4, <2>1
      <4> QED
        BY <4>1
    <3>2. Q[1 + i] = W[v + i] /\ P[1 + (i + 1)] = W[u + (i + 1)]
      BY <1>8, <3>1, Zenon
    <3> QED
      BY <3>1, <3>2, Zenon
  <2>2. CASE w < p /\ p < Len(Q)
    <3>1. PICK i \in 1..b : p = (1 + x) + i /\ p + 1 = (1 + w) + i
      <4>1. p - w \in 1..b /\ p = (1 + x) + (p - w) /\ p + 1 = (1 + w) + (p - w)
        BY <1>4, <1>10, <2>2
      <4> QED
        BY <4>1
    <3>2. Q[(1 + x) + i] = B[i] /\ P[(1 + w) + i] = B[i]
      BY <1>8, <3>1, Zenon
    <3> QED
      BY <3>1, <3>2, Zenon
  <2>3. CASE p = Len(Q)
    <3>1. p + 1 = Len(P)
      BY <1>4, <1>8, <2>3
    <3> QED
      BY <1>8, <2>3, <3>1, Zenon
  <2>4. p <= w \/ (w < p /\ p < Len(Q)) \/ p = Len(Q)
    <3>1. \A q \in Nat : \A y \in 2..q : y <= w \/ (w < y /\ y < q) \/ y = q
      BY <1>4
    <3>2. Len(Q) \in Nat
      BY <1>4, <1>10
    <3> QED
      BY <1>11, <3>1, <3>2, Zenon
  <2> QED
    BY <2>1, <2>2, <2>3, <2>4, Zenon
<1>12. Moved(P, Q, k)
  <2>1. k \in 0..Len(a)
    BY <1>1, <1>5
  <2> QED
    BY <1>6, <1>8, <1>9, <1>10, <1>11, <2>1, Zenon DEF Moved
<1>13. InPlace(Q, n, L \cup Lost(P, k))
  BY <1>2, <1>12, WriteFirst, Zenon
<1>14. L \cup Lost(P, k) = L
  <2>1. (k + 1)..Len(P[2]) = {}
    BY <1>1, <1>5, <1>9
  <2> QED
    BY <2>1 DEF Lost, GivenUp
<1> QED
  BY <1>1, <1>2, <1>13, <1>14, Zenon

\* A write fails: only the first k lines of what was filed are left.
LEMMA CutMoves ==
    ASSUME NEW f \in Seq(Nat), NEW W \in Seq(Seq(Nat)), NEW u \in 0..Len(W),
           NEW B \in Seq(Seq(Nat)), NEW c \in Seq(Nat), NEW g, NEW k, Cut(g, f, k),
           NEW n, NEW L, InPlace(PlacesOf(f, W, u, B, c), n, L)
    PROVE  InPlace(PlacesOf(g, W, u, B, c), n, L \cup GivenUp(f, k))
<1>1. PICK P, Q : P = PlacesOf(f, W, u, B, c) /\ Q = PlacesOf(g, W, u, B, c)
  OBVIOUS
<1>2. PICK w, b : w = Len(W) - u /\ b = Len(B)
  OBVIOUS
<1>3. g \in Seq(Nat)
  BY Zenon DEF Cut
<1>4. Laid(P, f, W, u, w, B, b, c) /\ Laid(Q, g, W, u, w, B, b, c)
  BY <1>1, <1>2, <1>3, PlacesAre, Zenon
<1>5. /\ Q \in Seq(Seq(Nat)) /\ w \in Nat /\ b \in Nat /\ Len(P) = (w + b) + 2 /\ Len(Q) = (w + b) + 2
      /\ P[1] = f /\ Q[1] = g /\ P[Len(P)] = c /\ Q[Len(Q)] = c
      /\ \A i \in 1..w : P[1 + i] = W[u + i] /\ Q[1 + i] = W[u + i]
      /\ \A i \in 1..b : P[(1 + w) + i] = B[i] /\ Q[(1 + w) + i] = B[i]
  BY <1>4, Zenon DEF Laid
<1>6. Len(P) >= 1 /\ Len(Q) = Len(P)
  BY <1>5
<1>7. ASSUME NEW p \in 2..Len(P) PROVE Q[p] = P[p]
  <2>1. \/ \E i \in 1..w : p = 1 + i
        \/ \E i \in 1..b : p = (1 + w) + i
        \/ p = Len(P)
    <3>1. CASE p <= 1 + w
      <4>1. p - 1 \in 1..w /\ p = 1 + (p - 1)
        BY <1>5, <3>1
      <4> QED
        BY <4>1
    <3>2. CASE 1 + w < p /\ p < Len(P)
      <4>1. p - (1 + w) \in 1..b /\ p = (1 + w) + (p - (1 + w))
        BY <1>5, <3>2
      <4> QED
        BY <4>1
    <3> QED
      BY <1>5, <3>1, <3>2
  <2> QED
    BY <1>5, <1>6, <2>1, Zenon
<1>8. InPlace(Q, n, L \cup GivenUp(P[1], k))
  BY <1>1, <1>5, <1>6, <1>7, CutFirst, Zenon
<1> QED
  BY <1>1, <1>5, <1>8, Zenon

-----------------------------------------------------------------------------
(* The order of the lines.                                                 *)

\* All lines are in their place, and no file is begun before the thread is.
OrderInv ==
    /\ InPlace(PlacesOf(Filed(output), buffersToWrite, writing, buffers_, currentBuffer_),
               lines, output.lost)
    /\ pc \in {"none", "start"} => Filed(output) = <<>> /\ output.lost = {}

\* The types of the places.
LEMMA PlacesTyped ==
    ASSUME TypeOK
    PROVE  /\ Filed(output) \in Seq(Nat) /\ buffersToWrite \in Seq(Seq(Nat))
           /\ writing \in 0..Len(buffersToWrite) /\ buffers_ \in Seq(Seq(Nat))
           /\ currentBuffer_ \in Seq(Nat) /\ lines \in Nat
<1>1. output.disk \in Seq(Nat) /\ output.stdio \in Seq(Nat)
  BY DEF TypeOK, LogFileType
<1>2. Filed(output) \in Seq(Nat)
  BY <1>1 DEF Filed
<1>3. \A b \in Seq(Contents) : b \in Seq(Seq(Nat))
  BY ContentsAreLines
<1> QED
  BY <1>2, <1>3, ContentsAreLines, LoggingAssumption DEF TypeOK

\* A step that moves no line.
LEMMA NoLineMoves ==
    ASSUME OrderInv, Filed(output') = Filed(output), output'.lost = output.lost,
           UNCHANGED <<buffersToWrite, writing, buffers_, currentBuffer_, lines>>,
           pc' \in {"none", "start"} => pc \in {"none", "start"}
    PROVE  OrderInv'
BY Zenon DEF OrderInv

\* A step that moves no line, but may lose some of the last ones filed.
LEMMA LastLinesLost ==
    ASSUME LogInv, OrderInv, Kept(output', output, Filed(output)),
           UNCHANGED <<buffersToWrite, writing, buffers_, currentBuffer_, lines>>,
           pc' \notin {"none", "start"}
    PROVE  OrderInv'
<1> DEFINE f == Filed(output)
           g == Filed(output')
<1>1. /\ f \in Seq(Nat) /\ buffersToWrite \in Seq(Seq(Nat))
      /\ writing \in 0..Len(buffersToWrite) /\ buffers_ \in Seq(Seq(Nat))
      /\ currentBuffer_ \in Seq(Nat)
  BY PlacesTyped DEF LogInv
<1>2. InPlace(PlacesOf(f, buffersToWrite, writing, buffers_, currentBuffer_), lines, output.lost)
  BY DEF OrderInv
<1>3. PICK k \in Nat : Cut(g, f, k) /\ output'.lost = output.lost \cup GivenUp(f, k)
  BY Zenon DEF Kept
<1> HIDE DEF f, g
<1>4. InPlace(PlacesOf(g, buffersToWrite, writing, buffers_, currentBuffer_), lines,
              output.lost \cup GivenUp(f, k))
  BY <1>1, <1>2, <1>3, CutMoves, Zenon
<1>5. InPlace(PlacesOf(Filed(output'), buffersToWrite', writing', buffers_', currentBuffer_'),
              lines', output'.lost)
  BY <1>3, <1>4, Zenon DEF g
<1> QED
  BY <1>5, Zenon DEF OrderInv

\* It holds at the beginning.
LEMMA OrderInit == Init => OrderInv
<1> SUFFICES ASSUME Init PROVE OrderInv
  OBVIOUS
<1>1. /\ Filed(output) = <<>> /\ output.lost = {} /\ buffersToWrite = <<>> /\ writing = 0
      /\ buffers_ = <<>> /\ currentBuffer_ = <<>> /\ lines = 0
  BY NewLogFileType DEF Init
<1>2. PICK P, N : N = <<>> /\ P = PlacesOf(N, N, 0, N, N)
  OBVIOUS
<1>3. N \in Seq(Nat) /\ N \in Seq(Seq(Nat)) /\ Len(N) = 0 /\ 0 \in 0..Len(N) /\ DOMAIN N = {}
  BY <1>2
<1>4. Laid(P, N, N, 0, Len(N) - 0, N, Len(N), N)
  BY <1>2, <1>3, PlacesAre, Zenon
<1>5. P \in Seq(Seq(Nat)) /\ Len(P) = ((Len(N) - 0) + Len(N)) + 2 /\ P[1] = N /\ P[Len(P)] = N
  BY <1>4, Zenon DEF Laid
<1>6. Len(P) = 2 /\ DOMAIN P = 1..2
  BY <1>3, <1>5
<1>7. \A p \in DOMAIN P : DOMAIN P[p] = {}
  <2>1. \A p \in 1..2 : p = 1 \/ p = 2
    OBVIOUS
  <2> QED
    BY <1>3, <1>5, <1>6, <2>1, Zenon
<1>8. Ascending(P)
  BY <1>7, Zenon DEF Ascending
<1>9. LinesOf(P) = {}
  BY <1>7 DEF LinesOf, Range
<1>10. InPlace(P, 0, {})
  BY <1>5, <1>8, <1>9 DEF InPlace
<1> QED
  BY <1>1, <1>2, <1>10, Zenon DEF OrderInv

\* append() numbers the next line and puts it behind all others.
LEMMA OrderAppend == LogInv /\ OrderInv /\ AppendLine => OrderInv'
<1> SUFFICES ASSUME LogInv, OrderInv, AppendLine PROVE OrderInv'
  OBVIOUS
<1> DEFINE f == Filed(output)
<1>1. /\ f \in Seq(Nat) /\ buffersToWrite \in Seq(Seq(Nat))
      /\ writing \in 0..Len(buffersToWrite) /\ buffers_ \in Seq(Seq(Nat))
      /\ currentBuffer_ \in Seq(Nat)
  BY PlacesTyped DEF LogInv
<1>2. InPlace(PlacesOf(f, buffersToWrite, writing, buffers_, currentBuffer_), lines, output.lost)
  BY DEF OrderInv
<1>3. lines' = lines + 1 /\ UNCHANGED <<output, buffersToWrite, writing, pc>>
  BY DEF AppendLine, threadVars
<1>4. Filed(output)' = f
  BY <1>3, Zenon DEF Filed
<1> HIDE DEF f
<1>5. InPlace(PlacesOf(f, buffersToWrite, writing, buffers_', currentBuffer_'), lines + 1, output.lost)
  <2>1. CASE currentBuffer_' = Append(currentBuffer_, lines + 1) /\ buffers_' = buffers_
    BY <1>1, <1>2, <2>1, AppendMoves
  <2>2. CASE currentBuffer_' = <<lines + 1>> /\ buffers_' = Append(buffers_, currentBuffer_)
    <3>1. PICK B, N : B = Append(buffers_, currentBuffer_) /\ N = <<>>
      OBVIOUS
    <3>2. B \in Seq(Seq(Nat)) /\ N \in Seq(Nat) /\ Append(N, lines + 1) = <<lines + 1>>
      BY <1>1, <3>1
    <3>3. InPlace(PlacesOf(f, buffersToWrite, writing, B, N), lines, output.lost)
      BY <1>1, <1>2, <3>1, PushMoves, Zenon
    <3>4. InPlace(PlacesOf(f, buffersToWrite, writing, B, Append(N, lines + 1)), lines + 1, output.lost)
      BY <1>1, <3>2, <3>3, AppendMoves, Zenon
    <3> QED
      BY <2>2, <3>1, <3>2, <3>4, Zenon
  <2> QED
    BY <2>1, <2>2 DEF AppendLine
<1> QED
  BY <1>3, <1>4, <1>5, Zenon DEF OrderInv, f

\* The exchange takes the buffers as they are.
LEMMA OrderExchange == LogInv /\ OrderInv /\ Exchange => OrderInv'
<1> SUFFICES ASSUME LogInv, OrderInv, Exchange PROVE OrderInv'
  OBVIOUS
<1> DEFINE f == Filed(output)
<1>1. f \in Seq(Nat) /\ buffers_ \in Seq(Seq(Nat)) /\ currentBuffer_ \in Seq(Nat)
  BY PlacesTyped DEF LogInv
<1>2. InPlace(PlacesOf(f, buffersToWrite, writing, buffers_, currentBuffer_), lines, output.lost)
  BY DEF OrderInv
<1>3. /\ buffersToWrite = <<>> /\ writing = 0
      /\ buffersToWrite' = Append(buffers_, currentBuffer_) /\ writing' = 0
      /\ buffers_' = <<>> /\ currentBuffer_' = <<>> /\ pc' = "write"
      /\ UNCHANGED <<output, lines>>
  BY DEF LogInv, Exchange
<1>4. Filed(output)' = f
  BY <1>3, Zenon DEF Filed
<1> HIDE DEF f
<1>5. InPlace(PlacesOf(f, Append(buffers_, currentBuffer_), 0, <<>>, <<>>), lines, output.lost)
  <2>1. InPlace(PlacesOf(f, <<>>, 0, buffers_, currentBuffer_), lines, output.lost)
    BY <1>2, <1>3
  <2> QED
    BY <1>1, <2>1, ExchangeMoves, Zenon
<1>6. pc' \notin {"none", "start"}
  BY <1>3
<1> QED
  BY <1>3, <1>4, <1>5, <1>6, Zenon DEF OrderInv, f

\* A buffer is written behind what was written before.
LEMMA OrderWrite == LogInv /\ OrderInv /\ WriteBuffer => OrderInv'
<1> SUFFICES ASSUME LogInv, OrderInv, WriteBuffer PROVE OrderInv'
  OBVIOUS
<1> DEFINE f == Filed(output)
<1>1. /\ f \in Seq(Nat) /\ buffersToWrite \in Seq(Seq(Nat))
      /\ writing \in 0..Len(buffersToWrite) /\ buffers_ \in Seq(Seq(Nat))
      /\ currentBuffer_ \in Seq(Nat) /\ output \in LogFileType /\ now \in Nat
  BY PlacesTyped DEF LogInv, TypeOK
<1>2. InPlace(PlacesOf(f, buffersToWrite, writing, buffers_, currentBuffer_), lines, output.lost)
  BY DEF OrderInv
<1>3. PICK a, v : a = buffersToWrite[writing + 1] /\ v = writing + 1
  OBVIOUS
<1>4. /\ writing < Len(buffersToWrite) /\ writing' = v /\ pc = "write"
      /\ output' \in AppendUnlock(output, a, now)
      /\ UNCHANGED <<buffersToWrite, buffers_, currentBuffer_, lines, pc>>
  BY <1>3, Zenon DEF WriteBuffer, FileBecomes, frontVars
<1>5. a \in Seq(Nat) /\ v \in 0..Len(buffersToWrite)
  BY <1>1, <1>3, <1>4
<1>6. PICK k \in Nat : /\ Cut(Filed(output'), f \o a, k)
                       /\ output'.lost = output.lost \cup GivenUp(f \o a, k)
  <2>1. Kept(output', output, f \o a)
    BY <1>1, <1>4, <1>5, AppendUnlockType
  <2> QED
    BY <2>1, Zenon DEF Kept
<1> HIDE DEF f
<1>7. f \o a \in Seq(Nat)
  BY <1>1, <1>5
<1>8. InPlace(PlacesOf(f \o a, buffersToWrite, v, buffers_, currentBuffer_), lines, output.lost)
  BY <1>1, <1>2, <1>3, <1>4, WriteMoves, Zenon
<1>9. InPlace(PlacesOf(Filed(output'), buffersToWrite, v, buffers_, currentBuffer_),
              lines, output.lost \cup GivenUp(f \o a, k))
  BY <1>1, <1>5, <1>6, <1>7, <1>8, CutMoves, Zenon
<1>10. pc' \notin {"none", "start"}
  BY <1>4
<1> QED
  BY <1>4, <1>6, <1>9, <1>10, Zenon DEF OrderInv

\* Nothing is left to write at the end of a round.
LEMMA OrderGiveBack == LogInv /\ OrderInv /\ GiveBack => OrderInv'
<1> SUFFICES ASSUME LogInv, OrderInv, GiveBack PROVE OrderInv'
  OBVIOUS
<1> DEFINE f == Filed(output)
<1>1. /\ buffersToWrite \in Seq(Seq(Nat)) /\ writing = Len(buffersToWrite)
      /\ buffersToWrite' = <<>> /\ writing' = 0 /\ pc' = "head"
      /\ UNCHANGED <<buffers_, currentBuffer_, lines>> /\ output' \in Flush(output)
      /\ output \in LogFileType /\ f \in Seq(Nat)
      /\ buffers_ \in Seq(Seq(Nat)) /\ currentBuffer_ \in Seq(Nat)
  BY PlacesTyped DEF LogInv, TypeOK, GiveBack, FileBecomes, frontVars, EndOfRound
<1>2. PICK k \in Nat : Cut(Filed(output'), f, k) /\ output'.lost = output.lost \cup GivenUp(f, k)
  <2>1. Kept(output', output, f)
    BY <1>1, FlushType
  <2> QED
    BY <2>1, Zenon DEF Kept
<1>3. InPlace(PlacesOf(f, buffersToWrite, writing, buffers_, currentBuffer_), lines, output.lost)
  BY DEF OrderInv
<1> HIDE DEF f
<1>4. SubSeq(buffersToWrite', writing' + 1, Len(buffersToWrite'))
      = SubSeq(buffersToWrite, writing + 1, Len(buffersToWrite))
  <2>1. SubSeq(buffersToWrite, writing + 1, Len(buffersToWrite)) = <<>>
    BY <1>1
  <2>2. SubSeq(buffersToWrite', writing' + 1, Len(buffersToWrite')) = <<>>
    BY <1>1
  <2> QED
    BY <2>1, <2>2
<1>5. InPlace(PlacesOf(f, buffersToWrite', writing', buffers_, currentBuffer_), lines, output.lost)
  BY <1>3, <1>4, Zenon DEF PlacesOf
<1>6. buffersToWrite' \in Seq(Seq(Nat)) /\ writing' \in 0..Len(buffersToWrite')
  BY <1>1
<1>7. InPlace(PlacesOf(Filed(output'), buffersToWrite', writing', buffers_, currentBuffer_), lines,
              output.lost \cup GivenUp(f, k))
  BY <1>1, <1>2, <1>5, <1>6, CutMoves, Zenon
<1>8. pc' \notin {"none", "start"}
  BY <1>1
<1> QED
  BY <1>1, <1>2, <1>7, <1>8, Zenon DEF OrderInv

\* Every step keeps the lines in order.
LEMMA OrderStep == LogInv /\ OrderInv /\ [Next]_vars => OrderInv'
<1> SUFFICES ASSUME LogInv, OrderInv, [Next]_vars PROVE OrderInv'
  OBVIOUS
<1>1. output \in LogFileType /\ now \in Nat
  BY DEF LogInv, TypeOK
<1>2. CASE Tick \/ Stop \/ Join \/ UNCHANGED vars
  <2>1. UNCHANGED <<buffersToWrite, writing, buffers_, currentBuffer_, lines, output, pc>>
    BY <1>2, Zenon DEF Tick, Stop, Join, vars, threadVars, frontVars
  <2> QED
    BY <2>1, NoLineMoves, Zenon
<1>3. CASE Start
  <2>1. /\ UNCHANGED <<buffersToWrite, writing, buffers_, currentBuffer_, lines, output>>
        /\ owner = "idle"
    BY <1>3, Zenon DEF Start, frontVars
  <2>2. pc \in {"none", "start"}
    BY <2>1, Zenon DEF LogInv
  <2> QED
    BY <2>1, <2>2, NoLineMoves, Zenon
<1>4. CASE Enter
  <2>1. /\ UNCHANGED <<buffersToWrite, writing, buffers_, currentBuffer_, lines>>
        /\ pc = "start" /\ (output' = output \/ output' = NewLogFile(now))
    BY <1>4 DEF Enter, frontVars
  <2>2. Filed(output) = <<>> /\ output.lost = {}
    BY <2>1, Zenon DEF OrderInv
  <2>3. Filed(output') = Filed(output) /\ output'.lost = output.lost
    BY <1>1, <2>1, <2>2, NewLogFileType, Zenon
  <2> QED
    BY <2>1, <2>3, NoLineMoves, Zenon
<1>5. CASE LoopHead
  <2>1. /\ UNCHANGED <<buffersToWrite, writing, buffers_, currentBuffer_, lines>>
        /\ pc' \notin {"none", "start"} /\ (output' = output \/ output' \in Flush(output))
    BY <1>5 DEF LoopHead, FileBecomes, frontVars
  <2>2. CASE output' = output
    BY <2>1, <2>2, NoLineMoves, Zenon
  <2>3. CASE output' \in Flush(output)
    BY <1>1, <2>1, <2>3, FlushType, LastLinesLost, Zenon
  <2> QED
    BY <2>1, <2>2, <2>3
<1> QED
  BY <1>2, <1>3, <1>4, <1>5, OrderAppend, OrderExchange, OrderWrite, OrderGiveBack
     DEF Next, ThreadFunc

\* The types, the buffers and the order of the lines together.
LEMMA OrderAlways == Spec => [](LogInv /\ OrderInv)
<1>1. LogInv /\ OrderInv /\ [Next]_vars => OrderInv'
  BY OrderStep
<1> QED
  BY <1>1, OrderInit, LoggingInvariant, PTL DEF Spec

\* Every line that was appended is in the files, in stdio or in a buffer,
\* once and in order, or was given up by a failed fwrite, fflush or fclose:
\* for any number of lines, buffers of any size, files that change at any
\* moment and any disk errors.
THEOREM LinesStayInOrder == Spec => []LinesInOrder
<1>1. OrderInv => LinesInOrder
  BY Zenon DEF OrderInv, InPlace, LinesInOrder, Places, PlacesOf, LinesOf
<1> QED
  BY <1>1, OrderAlways, PTL

\* Between its rounds and when it ends, the thread has handed every line it
\* took to the kernel, unless a failing disk made it give up the line: none
\* is left in stdio, whatever the sizes of the files are.
THEOREM IdleMeansWritten == Spec => []WrittenWhenIdle
<1>1. LogInv /\ OrderInv => WrittenWhenIdle
  <2> SUFFICES ASSUME LogInv, OrderInv, pc \in {"head", "wait", "done", "aborted"},
                      NEW line \in 1..lines, line \notin output.lost
               PROVE  \/ line \in Range(output.disk)
                      \/ \E p \in DOMAIN buffers_ : line \in Range(buffers_[p])
                      \/ line \in Range(currentBuffer_)
    BY DEF WrittenWhenIdle
  <2>1. output.stdio = <<>> /\ buffersToWrite = <<>> /\ writing = 0
    BY DEF LogInv
  <2>2. output.disk \in Seq(Nat) /\ Filed(output) = output.disk
    <3>1. output.disk \in Seq(Nat)
      BY FiledType DEF LogInv, TypeOK
    <3>2. output.disk \o <<>> = output.disk
      BY <3>1, ConcatEmptySeq
    <3> QED
      BY <2>1, <3>1, <3>2, Zenon DEF Filed
  <2>3. PICK f, N, P : f = output.disk /\ N = <<>> /\ P = PlacesOf(f, N, 0, buffers_, currentBuffer_)
    OBVIOUS
  <2>4. /\ f \in Seq(Nat) /\ N \in Seq(Seq(Nat)) /\ 0 \in 0..Len(N) /\ Len(N) - 0 = 0
        /\ buffers_ \in Seq(Seq(Nat)) /\ currentBuffer_ \in Seq(Nat)
    BY <2>2, <2>3, PlacesTyped DEF LogInv
  <2>5. Laid(P, f, N, 0, 0, buffers_, Len(buffers_), currentBuffer_)
    BY <2>3, <2>4, PlacesAre, Zenon
  <2>6. LinesOf(P) = (1..lines) \ output.lost
    BY <2>1, <2>2, <2>3, Zenon DEF OrderInv, InPlace
  <2>7. PICK p \in DOMAIN P : line \in Range(P[p])
    <3>1. line \in LinesOf(P)
      BY <2>6
    <3> QED
      BY <3>1 DEF LinesOf
  <2>8. /\ P \in Seq(Seq(Nat)) /\ Len(P) = (0 + Len(buffers_)) + 2 /\ P[1] = f
        /\ P[Len(P)] = currentBuffer_
        /\ \A i \in 1..Len(buffers_) : P[(1 + 0) + i] = buffers_[i]
    BY <2>5, Zenon DEF Laid
  <2>9. /\ Len(buffers_) \in Nat /\ DOMAIN P = 1..(Len(buffers_) + 2) /\ Len(P) = Len(buffers_) + 2
        /\ DOMAIN buffers_ = 1..Len(buffers_)
    BY <2>4, <2>8
  <2>10. p = 1 \/ p = Len(P) \/ \E i \in DOMAIN buffers_ : p = (1 + 0) + i
    <3>1. CASE p # 1 /\ p # Len(P)
      <4>1. p - 1 \in 1..Len(buffers_) /\ p = (1 + 0) + (p - 1)
        BY <2>9, <3>1
      <4> QED
        BY <2>9, <4>1
    <3> QED
      BY <3>1
  <2> QED
    BY <2>3, <2>7, <2>8, <2>9, <2>10, Zenon
<1> QED
  BY <1>1, OrderAlways, PTL
=============================================================================
