--------------------------- MODULE HttpServerProofs ---------------------------
(***************************************************************************)
(* Safety of the HTTP server on one connection, for any stream of the peer *)
(* and however the kernel cuts it into reads: the buffer neither loses nor *)
(* repeats anything on its way to the parser, and the answers follow.      *)
(***************************************************************************)
EXTENDS HttpServer, TcpConnectionProofs, FiniteSetTheorems, WellFoundedInduction

-----------------------------------------------------------------------------
(* Numbers.                                                                *)

\* A set of positions has a first and a last one, and FiniteSetsExt names
\* them.
LEMMA MinMax ==
    ASSUME NEW n \in Nat, NEW S \in SUBSET (0..n), S # {}
    PROVE  /\ Min(S) \in S /\ \A y \in S : Min(S) <= y
           /\ Max(S) \in S /\ \A y \in S : y <= Max(S)
<1> DEFINE R == OpToRel(<, Nat)
<1>1. \A T \in SUBSET Nat : T # {} => \E x \in T : \A y \in T : ~(<<y, x>> \in R)
  BY NatLessThanWellFounded, WFMin
<1>2. \A T \in SUBSET Nat : T # {} => \E x \in T : \A y \in T : x <= y
  <2>0. R = {ss \in Nat \X Nat : ss[1] < ss[2]}
    BY Zenon DEF OpToRel
  <2> HIDE DEF R
  <2> SUFFICES ASSUME NEW T \in SUBSET Nat, T # {}
               PROVE  \E x \in T : \A y \in T : x <= y
    OBVIOUS
  <2>1. PICK x \in T : \A y \in T : ~(<<y, x>> \in R)
    BY <1>1
  <2>2. ASSUME NEW y \in T PROVE x <= y
    <3>1. x \in Nat /\ y \in Nat /\ ~(<<y, x>> \in {ss \in Nat \X Nat : ss[1] < ss[2]})
      BY <2>0, <2>1
    <3> QED
      BY <3>1
  <2> QED
    BY <2>2
<1>3. S \in SUBSET Nat
  OBVIOUS
<1>4. \E x \in S : \A y \in S : x <= y
  BY <1>2, <1>3
<1>5. \E x \in S : \A y \in S : x >= y
  <2> DEFINE T == {n - y : y \in S}
  <2>1. T \in SUBSET Nat /\ T # {}
    OBVIOUS
  <2>2. PICK t \in T : \A u \in T : t <= u
    BY <1>2, <2>1
  <2>3. PICK x \in S : t = n - x
    BY <2>2
  <2>4. ASSUME NEW y \in S PROVE x >= y
    <3>1. n - x <= n - y
      BY <2>2, <2>3
    <3> QED
      BY <3>1
  <2> QED
    BY <2>4
<1>6. Min(S) \in S /\ \A y \in S : Min(S) <= y
  BY <1>4 DEF Min
<1>7. Max(S) \in S /\ \A y \in S : Max(S) >= y
  BY <1>5 DEF Max
<1> QED
  BY <1>3, <1>6, <1>7

-----------------------------------------------------------------------------
(* The buffer.                                                             *)

Cell == Tokens \cup {Unwritten}
BufferType == [readerIndex_ : Nat, writeIndex_ : Nat, cells : Seq(Cell)]

\* The indices are in order.  The last cell may be behind buffer_.size().
Shape(b) ==
    /\ b \in BufferType
    /\ kCheapPrepend <= b.readerIndex_ /\ b.readerIndex_ <= b.writeIndex_
    /\ b.writeIndex_ <= Len(b.cells) /\ Size <= Len(b.cells)

\* What a read leaves behind buffer_.size() is less than what makes
\* writableBytes() come out small again.
BufferOK(b) == Shape(b) /\ b.writeIndex_ <= Size + ExtraSize

\* The unread part of b is d.
Holds(b, d) ==
    /\ b.writeIndex_ = b.readerIndex_ + Len(d)
    /\ \A i \in 1..Len(d) : b.cells[b.readerIndex_ + i] = d[i]

\* Sizes are numbers.
LEMMA Sizes ==
    /\ kCheapPrepend \in Nat /\ Size \in Nat /\ kCheapPrepend < Size
    /\ ExtraSize \in Nat /\ SizeMax \in Nat
    /\ 2 * Size < SizeMax /\ 2 * ExtraSize < SizeMax
BY BufferAssumption DEF Size

\* A new buffer is empty.
LEMMA NewBufferOK == BufferOK(NewBuffer) /\ Holds(NewBuffer, <<>>)
<1> DEFINE c == [i \in 1..Size |-> Unwritten]
<1>1. c \in Seq(Cell) /\ Len(c) = Size
  BY Sizes DEF Cell
<1>2. NewBuffer = [readerIndex_ |-> kCheapPrepend, writeIndex_ |-> kCheapPrepend, cells |-> c]
  BY DEF NewBuffer
<1> HIDE DEF c
<1> QED
  BY <1>1, <1>2, Sizes DEF BufferOK, Shape, BufferType, Holds

\* What readers see of the buffer.
LEMMA ReadableIs ==
    ASSUME NEW b, Shape(b), NEW d \in Seq(Tokens), Holds(b, d)
    PROVE  Readable(b) = d /\ readableBytes(b) = Len(d)
<1> DEFINE s == b.cells
           r == b.readerIndex_
           w == b.writeIndex_
<1>1. /\ s \in Seq(Cell) /\ r \in Nat /\ w = r + Len(d) /\ w <= Len(s)
      /\ \A i \in 1..Len(d) : s[r + i] = d[i]
  BY DEF Shape, Holds, BufferType
<1>2. Readable(b) = SubSeq(s, r + 1, w) /\ readableBytes(b) = w - r
  BY DEF Readable, readableBytes
<1> HIDE DEF s, r, w
<1>3. /\ SubSeq(s, r + 1, w) \in Seq(Cell) /\ Len(SubSeq(s, r + 1, w)) = Len(d)
      /\ \A i \in 1..Len(d) : SubSeq(s, r + 1, w)[i] = s[r + i]
  BY <1>1
<1>4. d \in Seq(Cell)
  BY DEF Cell
<1>5. SubSeq(s, r + 1, w) = d
  BY <1>1, <1>3, <1>4, SeqEqual
<1> QED
  BY <1>1, <1>2, <1>5

\* std::copy of data to a place inside the buffer.
LEMMA CopyToOK ==
    ASSUME NEW s \in Seq(Cell), NEW at \in Nat, NEW d \in Seq(Tokens), at + Len(d) <= Len(s)
    PROVE  LET c == CopyTo(s, at, d) IN
           /\ c \in Seq(Cell) /\ Len(c) = Len(s)
           /\ \A i \in 1..at : c[i] = s[i]
           /\ \A i \in 1..Len(d) : c[at + i] = d[i]
<1> DEFINE end == at + Len(d)
           n == Len(s)
           v(i) == IF i \in (at + 1)..end THEN d[i - at] ELSE s[i]
           c == [i \in 1..n |-> v(i)]
<1>1. CopyTo(s, at, d) = c
  <2>1. DOMAIN s = 1..n
    OBVIOUS
  <2> QED
    BY <2>1 DEF CopyTo
<1>2. n \in Nat /\ end <= n /\ end \in Nat /\ n = Len(s)
  OBVIOUS
<1>3. \A i \in 1..n : v(i) \in Cell
  BY DEF Cell
<1>4. \A i \in 1..at : v(i) = s[i] /\ i \in 1..n
  BY <1>2
<1>5. \A i \in 1..Len(d) : v(at + i) = d[i] /\ at + i \in 1..n
  BY <1>2
<1> HIDE DEF n, v
<1>6. c \in Seq(Cell) /\ Len(c) = n
  BY <1>2, <1>3
<1>7. /\ \A i \in 1..at : c[i] = s[i]
      /\ \A i \in 1..Len(d) : c[at + i] = d[i]
  BY <1>4, <1>5
<1> QED
  BY <1>1, <1>2, <1>6, <1>7

\* Data is written behind the unread part.
Written(b, e) ==
    [b EXCEPT !.cells = CopyTo(b.cells, b.writeIndex_, e),
              !.writeIndex_ = b.writeIndex_ + Len(e)]

\* It is then the end of the unread part, when the capacity is enough.
LEMMA WriteOK ==
    ASSUME NEW b, Shape(b), NEW d \in Seq(Tokens), Holds(b, d), NEW e \in Seq(Tokens),
           b.writeIndex_ + Len(e) <= Len(b.cells)
    PROVE  /\ Shape(Written(b, e)) /\ Holds(Written(b, e), d \o e)
           /\ Written(b, e).writeIndex_ = b.writeIndex_ + Len(e)
<1> DEFINE c == CopyTo(b.cells, b.writeIndex_, e)
           u == Written(b, e)
<1>1. /\ b.cells \in Seq(Cell) /\ b.readerIndex_ \in Nat /\ b.writeIndex_ \in Nat
      /\ kCheapPrepend <= b.readerIndex_ /\ b.readerIndex_ <= b.writeIndex_
      /\ b.writeIndex_ <= Len(b.cells) /\ Size <= Len(b.cells)
      /\ b.writeIndex_ = b.readerIndex_ + Len(d)
      /\ \A i \in 1..Len(d) : b.cells[b.readerIndex_ + i] = d[i]
  BY DEF Shape, BufferType, Holds
<1>2. /\ c \in Seq(Cell) /\ Len(c) = Len(b.cells) /\ b.writeIndex_ + Len(e) <= Len(c)
      /\ \A i \in 1..b.writeIndex_ : c[i] = b.cells[i]
      /\ \A i \in 1..Len(e) : c[b.writeIndex_ + i] = e[i]
  BY <1>1, CopyToOK, ZenonT(40)
<1>3. /\ u \in BufferType /\ u.cells = c /\ u.readerIndex_ = b.readerIndex_
      /\ u.writeIndex_ = b.writeIndex_ + Len(e)
  <2>1. b \in BufferType /\ u = [b EXCEPT !.cells = c, !.writeIndex_ = b.writeIndex_ + Len(e)]
    BY DEF Shape, Written
  <2>2. c \in Seq(Cell) /\ b.writeIndex_ + Len(e) \in Nat
    BY <1>1, <1>2
  <2> HIDE DEF c, u
  <2> QED
    BY <2>1, <2>2 DEF BufferType
<1> HIDE DEF c, u
<1>4. Shape(u)
  BY <1>1, <1>2, <1>3, Sizes DEF Shape
<1>5. Len(d \o e) = Len(d) + Len(e)
  OBVIOUS
<1>6. ASSUME NEW i \in 1..(Len(d) + Len(e))
      PROVE  c[b.readerIndex_ + i] = (d \o e)[i]
  <2>1. CASE i <= Len(d)
    <3>1. b.readerIndex_ + i \in 1..b.writeIndex_ /\ i \in 1..Len(d) /\ (d \o e)[i] = d[i]
      BY <1>1, <2>1
    <3> QED
      BY <1>1, <1>2, <3>1
  <2>2. CASE i > Len(d)
    <3>1. /\ i - Len(d) \in 1..Len(e) /\ (d \o e)[i] = e[i - Len(d)]
          /\ b.readerIndex_ + i = b.writeIndex_ + (i - Len(d))
      BY <1>1, <2>2
    <3> QED
      BY <1>2, <3>1
  <2> QED
    BY <2>1, <2>2
<1>7. Holds(u, d \o e)
  <2>1. u.writeIndex_ = u.readerIndex_ + Len(d \o e)
    BY <1>1, <1>3, <1>5
  <2>2. \A i \in 1..Len(d \o e) : u.cells[u.readerIndex_ + i] = (d \o e)[i]
    BY <1>3, <1>5, <1>6, Zenon
  <2> QED
    BY <2>1, <2>2, Zenon DEF Holds
<1> QED
  BY <1>3, <1>4, <1>7 DEF u

\* writableBytes() before and after the write index has passed size().
LEMMA Writable ==
    ASSUME NEW b, BufferOK(b)
    PROVE  /\ b.writeIndex_ <= Size => writableBytes(b) = Size - b.writeIndex_
           /\ ~ReadvFails(b) => b.writeIndex_ <= Size
<1> DEFINE w == b.writeIndex_
           m == SizeMax + 1
<1>1. w \in Nat /\ w <= Size + ExtraSize
  BY DEF BufferOK, Shape, BufferType
<1>2. writableBytes(b) = (Size - w) % m
  BY DEF writableBytes
<1> HIDE DEF w
<1>3. ASSUME w <= Size PROVE (Size - w) % m = Size - w
  <2>1. \A a \in 0..SizeMax : a % m = a
    BY Sizes
  <2> QED
    BY <1>1, <1>3, <2>1, Sizes
<1>4. ASSUME w > Size PROVE (Size - w) % m > SizeMax \div 2
  <2>1. \A a \in 1..SizeMax : (0 - a) % m = m - a
    BY Sizes
  <2>2. w - Size \in 1..SizeMax /\ Size - w = 0 - (w - Size) /\ m - (w - Size) > SizeMax \div 2
    BY <1>1, <1>4, Sizes
  <2> QED
    BY <2>1, <2>2
<1> QED
  BY <1>1, <1>2, <1>3, <1>4, Sizes DEF ReadvFails, w

\* reserve in a full buffer adds the capacity asked for and keeps what it
\* holds.
LEMMA ReserveOK ==
    ASSUME NEW b, Shape(b), b.writeIndex_ = Size, NEW d \in Seq(Tokens), Holds(b, d), NEW n \in Nat
    PROVE  LET m == reserve(b, n) IN
           Shape(m) /\ Holds(m, d) /\ m.writeIndex_ = Size /\ n <= Len(m.cells)
<1> DEFINE c == [i \in 1..n |-> IF i <= Size THEN b.cells[i] ELSE Unwritten]
           m == [b EXCEPT !.cells = c]
<1>1. /\ b \in BufferType /\ b.cells \in Seq(Cell) /\ b.readerIndex_ \in Nat
      /\ kCheapPrepend <= b.readerIndex_ /\ Size <= Len(b.cells) /\ b.readerIndex_ <= Size
      /\ Size = b.readerIndex_ + Len(d)
      /\ \A i \in 1..Len(d) : b.cells[b.readerIndex_ + i] = d[i]
  BY DEF Shape, BufferType, Holds
<1>2. CASE n <= Len(b.cells)
  BY <1>2 DEF reserve
<1>3. CASE ~(n <= Len(b.cells))
  <2>1. Size < n
    BY <1>1, <1>3, Sizes
  <2>2. ASSUME NEW i \in 1..n PROVE (IF i <= Size THEN b.cells[i] ELSE Unwritten) \in Cell
    <3>1. i <= Size => i \in 1..Len(b.cells)
      BY <1>1, Sizes
    <3> QED
      BY <1>1, <3>1 DEF Cell
  <2>3. /\ c \in Seq(Cell) /\ Len(c) = n
        /\ \A i \in 1..n : i <= Size => c[i] = b.cells[i]
    BY <2>2
  <2> HIDE DEF c
  <2>4. \A i \in 1..Len(d) : c[b.readerIndex_ + i] = d[i]
    <3>0. \A i \in 1..Len(d) : b.readerIndex_ + i \in 1..n /\ b.readerIndex_ + i <= Size
      <4>1. PICK r \in Nat, len \in Nat, s \in Nat :
               r = b.readerIndex_ /\ len = Len(d) /\ s = Size /\ s = r + len /\ s < n
        BY <1>1, <2>1, Sizes
      <4>2. \A i \in 1..len : r + i \in 1..n /\ r + i <= s
        BY <4>1
      <4> QED
        BY <4>1, <4>2
    <3> TAKE i \in 1..Len(d)
    <3>1. b.readerIndex_ + i \in 1..n /\ b.readerIndex_ + i <= Size
      BY <3>0, Zenon
    <3>2. PICK j : j = b.readerIndex_ + i
      OBVIOUS
    <3>3. c[j] = b.cells[j]
      BY <2>3, <3>1, <3>2, Zenon
    <3>4. b.cells[j] = d[i]
      BY <1>1, <3>2, Zenon
    <3> QED
      BY <3>2, <3>3, <3>4, Zenon
  <2>5. /\ m \in BufferType /\ m.cells = c /\ m.readerIndex_ = b.readerIndex_
        /\ m.writeIndex_ = b.writeIndex_
    BY <1>1, <2>3 DEF BufferType
  <2>6. reserve(b, n) = m
    BY <1>3 DEF reserve, c
  <2> HIDE DEF m
  <2>7. Shape(m) /\ Holds(m, d)
    BY <1>1, <2>1, <2>3, <2>4, <2>5, Sizes DEF Shape, Holds
  <2> QED
    BY <2>3, <2>5, <2>6, <2>7
<1> QED
  BY <1>2, <1>3

\* makeSpace in a full buffer moves the unread part to the front when that
\* makes room enough, and adds capacity if not.
LEMMA MakeSpaceOK ==
    ASSUME NEW b, Shape(b), b.writeIndex_ = Size, NEW d \in Seq(Tokens), Holds(b, d),
           NEW len \in Nat
    PROVE  LET m == makeSpace(b, len) IN
           /\ Shape(m) /\ Holds(m, d) /\ (m.writeIndex_ = Size \/ m.writeIndex_ + len <= Size)
           /\ m.writeIndex_ + len <= Len(m.cells)
<1>1. /\ b.cells \in Seq(Cell) /\ b.readerIndex_ \in Nat
      /\ kCheapPrepend <= b.readerIndex_ /\ Size <= Len(b.cells)
      /\ Size = b.readerIndex_ + Len(d)
  BY DEF Shape, BufferType, Holds
<1>2. writableBytes(b) = 0 /\ prependableBytes(b) = b.readerIndex_
  BY Sizes, Writable DEF prependableBytes, BufferOK
<1>3. Readable(b) = d /\ readableBytes(b) = Len(d)
  BY ReadableIs
<1>4. CASE b.readerIndex_ < len + kCheapPrepend
  <2>1. makeSpace(b, len) = reserve(b, Size + len) /\ Size + len \in Nat
    BY <1>1, <1>2, <1>4, Sizes, SMTT(30) DEF makeSpace
  <2> QED
    BY <2>1, ReserveOK
<1>5. CASE ~(b.readerIndex_ < len + kCheapPrepend)
  <2>1. PICK c : c = CopyTo(b.cells, kCheapPrepend, d)
    OBVIOUS
  <2>2. PICK m : m = [readerIndex_ |-> kCheapPrepend,
                      writeIndex_ |-> kCheapPrepend + Len(d), cells |-> c]
    OBVIOUS
  <2>3. makeSpace(b, len) = m
    BY <1>1, <1>2, <1>3, <1>5, <2>1, <2>2, Sizes DEF makeSpace
  <2>4. /\ c \in Seq(Cell) /\ Len(c) = Len(b.cells) /\ kCheapPrepend + Len(d) <= Len(c)
        /\ \A i \in 1..Len(d) : c[kCheapPrepend + i] = d[i]
    <3>1. kCheapPrepend \in Nat /\ kCheapPrepend + Len(d) <= Len(b.cells)
      BY <1>1, Sizes, SMTT(30)
    <3>2. /\ c \in Seq(Cell) /\ Len(c) = Len(b.cells)
          /\ \A i \in 1..Len(d) : c[kCheapPrepend + i] = d[i]
      BY <1>1, <2>1, <3>1, CopyToOK, Zenon
    <3> QED
      BY <3>1, <3>2
  <2>5. Shape(m)
    BY <1>1, <2>2, <2>4, Sizes DEF Shape, BufferType
  <2>6. Holds(m, d)
    BY <2>2, <2>4 DEF Holds
  <2>7. m.writeIndex_ + len <= Size
    BY <1>1, <1>5, <2>2, Sizes
  <2>8. m.writeIndex_ + len <= Len(m.cells)
    <3>1. m.cells = c /\ Len(c) = Len(b.cells) /\ m.writeIndex_ = kCheapPrepend + Len(d)
      BY <2>2, <2>4
    <3> QED
      BY <1>1, <2>7, <3>1, Sizes, SMTT(30)
  <2> QED
    BY <2>3, <2>5, <2>6, <2>7, <2>8
<1> QED
  BY <1>4, <1>5

\* append to a full buffer.
LEMMA AppendOK ==
    ASSUME NEW b, Shape(b), b.writeIndex_ = Size, NEW d \in Seq(Tokens), Holds(b, d),
           NEW e \in Seq(Tokens), e # <<>>
    PROVE  LET u == append(b, e) IN
           Shape(u) /\ Holds(u, d \o e) /\ u.writeIndex_ <= Size + Len(e)
<1>1. PICK m : m = makeSpace(b, Len(e))
  OBVIOUS
<1>2. /\ Shape(m) /\ Holds(m, d) /\ (m.writeIndex_ = Size \/ m.writeIndex_ + Len(e) <= Size)
      /\ m.writeIndex_ + Len(e) <= Len(m.cells)
  BY <1>1, MakeSpaceOK
<1>3. writableBytes(b) = 0 /\ Len(e) > 0 /\ Len(e) \in Nat
  BY Sizes, Writable, EmptySeq DEF BufferOK
<1>4. append(b, e) = Written(m, e)
  <2>1. writableBytes(b) < Len(e)
    BY <1>3
  <2> QED
    BY <1>1, <2>1, Zenon DEF append, Written
<1>5. /\ Shape(Written(m, e)) /\ Holds(Written(m, e), d \o e)
      /\ Written(m, e).writeIndex_ = m.writeIndex_ + Len(e)
  BY <1>2, WriteOK
<1>6. m.writeIndex_ \in Nat
  BY <1>2 DEF Shape, BufferType
<1> QED
  BY <1>2, <1>3, <1>4, <1>5, <1>6, Sizes

\* Concatenation is associative.
LEMMA TokensJoin ==
    ASSUME NEW b \in Seq(Tokens), NEW c \in Seq(Tokens), NEW d \in Seq(Tokens)
    PROVE  (b \o c) \o d = b \o (c \o d)
BY ConcatAssociative, SMTT(30)

\* readFd: what was read comes behind the unread part, all of it, whether
\* it fits the buffer or a part of it takes the way through extrabuf.
LEMMA ReadFdOK ==
    ASSUME NEW b, BufferOK(b), ~ReadvFails(b), NEW d \in Seq(Tokens), Holds(b, d),
           NEW e \in Seq(Tokens), Len(e) <= ReadvLimit(b)
    PROVE  BufferOK(readFd(b, e)) /\ Holds(readFd(b, e), d \o e)
<1> DEFINE w == Size - b.writeIndex_
<1>1. /\ b \in BufferType /\ b.writeIndex_ \in Nat /\ b.writeIndex_ <= Size /\ writableBytes(b) = w
      /\ Shape(b)
  BY Writable DEF BufferOK, Shape, BufferType
<1>2. w \in Nat /\ Len(e) \in Nat /\ Len(e) <= w + ExtraSize
  BY <1>1, Sizes DEF ReadvLimit
<1>3. CASE Len(e) <= w
  <2>1. readFd(b, e) = Written(b, e)
    <3>1. Len(e) <= writableBytes(b)
      BY <1>1, <1>3
    <3> QED
      BY <3>1, Zenon DEF readFd, Written
  <2>2. /\ Shape(Written(b, e)) /\ Holds(Written(b, e), d \o e)
        /\ Written(b, e).writeIndex_ = b.writeIndex_ + Len(e)
    <3>1. b.writeIndex_ + Len(e) <= Len(b.cells)
      BY <1>1, <1>3, Sizes DEF Shape, BufferType
    <3> QED
      BY <1>1, <3>1, WriteOK
  <2>3. b.writeIndex_ + Len(e) <= Size + ExtraSize
    BY <1>1, <1>3, Sizes
  <2> QED
    BY <2>1, <2>2, <2>3, Zenon DEF BufferOK
<1>4. CASE ~(Len(e) <= w)
  <2> DEFINE f == SubSeq(e, 1, w)
             g == SubSeq(e, w + 1, Len(e))
  <2>1. /\ f \in Seq(Tokens) /\ g \in Seq(Tokens) /\ Len(f) = w /\ Len(g) = Len(e) - w
        /\ g # <<>> /\ f \o g = e
    <3>1. f \in Seq(Tokens) /\ Len(f) = w /\ \A i \in 1..w : f[i] = e[i]
      BY <1>2, <1>4
    <3>2. g \in Seq(Tokens) /\ Len(g) = Len(e) - w /\ \A i \in 1..(Len(e) - w) : g[i] = e[w + i]
      BY <1>2, <1>4, SMTT(30)
    <3> HIDE DEF f, g
    <3>3. f \o g \in Seq(Tokens) /\ Len(f \o g) = Len(e)
      BY <1>2, <1>4, <3>1, <3>2
    <3> HIDE DEF w
    <3>4. ASSUME NEW i \in 1..Len(e) PROVE (f \o g)[i] = e[i]
      <4>0. i \in Nat /\ 1 <= i /\ i <= w + Len(g)
        BY <1>2, <3>2
      <4>1. CASE i <= w
        <5>1. (f \o g)[i] = f[i] /\ i \in 1..w
          BY <1>2, <3>1, <3>2, <4>0, <4>1
        <5> QED
          BY <3>1, <5>1
      <4>2. CASE i > w
        <5>1. (f \o g)[i] = g[i - w]
          BY <1>2, <3>1, <3>2, <4>0, <4>2
        <5>2. i - w \in 1..(Len(e) - w) /\ w + (i - w) = i
          BY <1>2, <4>2
        <5> QED
          BY <3>2, <5>1, <5>2
      <4>3. i <= w \/ i > w
        BY <1>2, <4>0
      <4> QED
        BY <4>1, <4>2, <4>3, Zenon
    <3>5. f \o g = e
      BY <3>3, <3>4, SeqEqual
    <3>6. g # <<>>
      BY <1>2, <1>4, <3>2
    <3> QED
      BY <3>1, <3>2, <3>5, <3>6
  <2> HIDE DEF f, g
  <2>2. b.writeIndex_ + Len(f) = Size
    BY <1>1, <2>1, Sizes
  <2>3. readFd(b, e) = append(Written(b, f), g)
    <3>1. ~(Len(e) <= writableBytes(b))
      BY <1>1, <1>4
    <3>2. Written(b, f) = [b EXCEPT !.cells = CopyTo(b.cells, b.writeIndex_, f), !.writeIndex_ = Size]
      BY <2>2, Zenon DEF Written
    <3> QED
      BY <1>1, <3>1, <3>2, Zenon DEF readFd, f, g
  <2>4. /\ Shape(Written(b, f)) /\ Holds(Written(b, f), d \o f)
        /\ Written(b, f).writeIndex_ = Size /\ d \o f \in Seq(Tokens)
    <3>1. b.writeIndex_ + Len(f) <= Len(b.cells)
      BY <1>1, <2>2 DEF Shape
    <3> QED
      BY <1>1, <2>1, <2>2, <3>1, WriteOK, SMTT(30)
  <2>5. /\ Shape(append(Written(b, f), g)) /\ Holds(append(Written(b, f), g), (d \o f) \o g)
        /\ append(Written(b, f), g).writeIndex_ <= Size + Len(g)
    <3>1. \A v, h : /\ Shape(v) /\ Holds(v, h) /\ v.writeIndex_ = Size /\ h \in Seq(Tokens)
                    => /\ Shape(append(v, g)) /\ Holds(append(v, g), h \o g)
                       /\ append(v, g).writeIndex_ <= Size + Len(g)
      BY <2>1, AppendOK
    <3> QED
      BY <2>4, <3>1, Zenon
  <2>6. (d \o f) \o g = d \o e
    <3>1. f \in Seq(Tokens) /\ g \in Seq(Tokens)
      BY <2>1
    <3>2. d \in Seq(Tokens)
      OBVIOUS
    <3>3. (d \o f) \o g = d \o (f \o g)
      BY <3>1, <3>2, TokensJoin, Zenon
    <3> QED
      BY <2>1, <3>3
  <2>7. append(Written(b, f), g).writeIndex_ <= Size + ExtraSize
    <3>1. append(Written(b, f), g).writeIndex_ \in Nat
      BY <2>5 DEF Shape, BufferType
    <3> QED
      BY <1>2, <2>1, <2>5, <3>1, Sizes, SMTT(30)
  <2> QED
    BY <2>3, <2>5, <2>6, <2>7, Zenon DEF BufferOK
<1> QED
  BY <1>3, <1>4

\* retrieve takes the front of the unread part.
LEMMA RetrieveOK ==
    ASSUME NEW b, BufferOK(b), NEW d \in Seq(Tokens), Holds(b, d), NEW n \in 0..Len(d)
    PROVE  BufferOK(retrieve(b, n)) /\ Holds(retrieve(b, n), SubSeq(d, n + 1, Len(d)))
<1> DEFINE u == retrieve(b, n)
           e == SubSeq(d, n + 1, Len(d))
<1>1. /\ b \in BufferType /\ b.cells \in Seq(Cell) /\ b.readerIndex_ \in Nat /\ b.writeIndex_ \in Nat
      /\ kCheapPrepend <= b.readerIndex_ /\ b.writeIndex_ <= Len(b.cells) /\ Size <= Len(b.cells)
      /\ b.writeIndex_ <= Size + ExtraSize /\ b.writeIndex_ = b.readerIndex_ + Len(d)
      /\ \A i \in 1..Len(d) : b.cells[b.readerIndex_ + i] = d[i]
  BY DEF BufferOK, Shape, BufferType, Holds
<1>2. /\ e \in Seq(Tokens) /\ Len(e) = Len(d) - n
      /\ \A i \in 1..(Len(d) - n) : e[i] = d[n + i]
  OBVIOUS
<1>3. readableBytes(b) = Len(d)
  BY ReadableIs DEF BufferOK
<1> HIDE DEF e
<1>4. CASE n < Len(d)
  <2>1. u = [b EXCEPT !.readerIndex_ = b.readerIndex_ + n]
    BY <1>3, <1>4 DEF retrieve
  <2> HIDE DEF u
  <2>2. /\ u \in BufferType /\ u.cells = b.cells /\ u.writeIndex_ = b.writeIndex_
        /\ u.readerIndex_ = b.readerIndex_ + n
    BY <1>1, <2>1, SMTT(30) DEF BufferType
  <2>3. BufferOK(u)
    BY <1>1, <1>4, <2>2, Sizes DEF BufferOK, Shape
  <2>4. u.writeIndex_ = u.readerIndex_ + Len(e)
    BY <1>1, <1>2, <2>2
  <2>5. ASSUME NEW i \in 1..Len(e) PROVE u.cells[u.readerIndex_ + i] = e[i]
    <3>1. n + i \in 1..Len(d) /\ u.readerIndex_ + i = b.readerIndex_ + (n + i)
      BY <1>1, <1>2, <2>2
    <3> QED
      BY <1>1, <1>2, <2>2, <3>1
  <2> QED
    BY <2>3, <2>4, <2>5, Zenon DEF Holds, u, e
<1>5. CASE n = Len(d)
  <2>1. u = [b EXCEPT !.readerIndex_ = kCheapPrepend, !.writeIndex_ = kCheapPrepend]
    BY <1>3, <1>5 DEF retrieve, retrieveall
  <2> HIDE DEF u
  <2>2. /\ u \in BufferType /\ u.cells = b.cells /\ u.writeIndex_ = kCheapPrepend
        /\ u.readerIndex_ = kCheapPrepend
    BY <1>1, <2>1, Sizes DEF BufferType
  <2>3. BufferOK(u)
    BY <1>1, <2>2, Sizes DEF BufferOK, Shape
  <2>4. Holds(u, e)
    BY <1>2, <1>5, <2>2, Sizes DEF Holds
  <2> QED
    BY <2>3, <2>4 DEF u, e
<1> QED
  BY <1>4, <1>5

-----------------------------------------------------------------------------
(* The parser.                                                             *)

\* The positions the parser looks for are positions of the data.
LEMMA Positions ==
    ASSUME NEW d \in Seq(Tokens)
    PROVE  /\ Crlfs(d) \in SUBSET (0..Len(d)) /\ Crlfs(d) \subseteq 1..Len(d)
           /\ HeaderEnds(d) \in SUBSET (0..Len(d)) /\ HeaderEnds(d) \subseteq Crlfs(d)
BY DEF Crlfs, HeaderEnds

\* They have a first and a last one.
LEMMA FirstLast ==
    ASSUME NEW d \in Seq(Tokens)
    PROVE  \A S \in SUBSET (0..Len(d)) : S # {} =>
              /\ Min(S) \in S /\ \A y \in S : Min(S) <= y
              /\ Max(S) \in S /\ \A y \in S : y <= Max(S)
<1>1. Len(d) \in Nat
  OBVIOUS
<1>2. ASSUME NEW S \in SUBSET (0..Len(d)), S # {}
      PROVE  /\ Min(S) \in S /\ \A y \in S : Min(S) <= y
             /\ Max(S) \in S /\ \A y \in S : y <= Max(S)
  BY <1>1, <1>2, MinMax
<1> QED
  BY <1>2, Zenon

\* The line that ends at position j begins behind the end before it.
LEMMA LineBegin ==
    ASSUME NEW d \in Seq(Tokens), NEW j \in Crlfs(d), NEW i \in 0..(j - 1),
           i = 0 \/ i \in Crlfs(d), \A m \in Crlfs(d) : m < j => m <= i
    PROVE  LineEnding(d, j) = SubSeq(d, i + 1, j - 1)
<1> DEFINE B == {0} \cup {m \in Crlfs(d) : m < j}
<1>1. B \in SUBSET (0..Len(d)) /\ B # {} /\ i \in B /\ \A m \in B : m <= i
  BY Positions
<1>2. LineEnding(d, j) = SubSeq(d, Max(B) + 1, j - 1)
  BY DEF LineEnding
<1> HIDE DEF B
<1>3. Max(B) \in B /\ \A m \in B : m <= Max(B)
  BY <1>1, FirstLast, Zenon
<1>4. Max(B) = i
  <2>1. PICK x : x = Max(B)
    OBVIOUS
  <2>2. x \in B /\ i <= x /\ x <= i
    BY <1>1, <1>3, <2>1, Zenon
  <2>3. x \in Nat /\ i \in Nat
    BY <1>1, <2>2
  <2> QED
    BY <2>1, <2>2, <2>3
<1> QED
  BY <1>2, <1>4

\* What parseRequest returns: a request begins with its request line, and
\* ends with the first line behind that has no colon.
LEMMA ParseOK ==
    ASSUME NEW d \in Seq(Tokens)
    PROVE  LET p == ParseRequest(d) IN
           /\ p.ok \in BOOLEAN /\ p.over \in BOOLEAN /\ p.taken \in 0..Len(d)
           /\ ~p.ok => p.taken = 0 /\ ~p.over
           /\ p.ok => /\ p.taken > 0 /\ Len(d) >= 2 /\ setMethod(d[1]) /\ d[2] = "crlf"
                      /\ Min(Crlfs(d)) = 2
           /\ p.over => p.taken \in HeaderEnds(d) /\ \A j \in HeaderEnds(d) : p.taken <= j
           /\ p.ok /\ ~p.over => HeaderEnds(d) = {}
<1> DEFINE first == Min(Crlfs(d))
           ok == Crlfs(d) # {} /\ IsRequestLine(LineEnding(d, Min(Crlfs(d))))
           over == ok /\ HeaderEnds(d) # {}
           taken == IF ~ok THEN 0 ELSE IF over THEN Min(HeaderEnds(d)) ELSE Max(Crlfs(d))
           p == ParseRequest(d)
<1>1. p.ok = ok /\ p.over = over /\ p.taken = taken
  BY DEF ParseRequest
<1>2. ASSUME ok
      PROVE  Len(d) >= 2 /\ setMethod(d[1]) /\ d[2] = "crlf" /\ first = 2
  <2>1. first \in Crlfs(d) /\ \A j \in Crlfs(d) : first <= j
    BY <1>2, FirstLast, Positions, Zenon
  <2> HIDE DEF first
  <2>2. first \in 1..Len(d) /\ d[first] = "crlf"
    BY <2>1 DEF Crlfs
  <2>3. LineEnding(d, first) = SubSeq(d, 0 + 1, first - 1)
    <3>1. 0 \in 0..(first - 1) /\ \A m \in Crlfs(d) : m < first => m <= 0
      BY <2>1, <2>2, Positions
    <3> QED
      BY <2>1, <3>1, LineBegin
  <2>4. Len(LineEnding(d, first)) = 1 /\ setMethod(LineEnding(d, first)[1])
    BY <1>2 DEF IsRequestLine, first
  <2>5. Len(SubSeq(d, 0 + 1, first - 1)) = first - 1
    BY <2>2
  <2>6. first = 2
    BY <2>2, <2>3, <2>4, <2>5
  <2>7. SubSeq(d, 0 + 1, first - 1)[1] = d[1]
    BY <2>2, <2>6
  <2> QED
    BY <2>2, <2>3, <2>4, <2>6, <2>7
<1>3. ASSUME ok PROVE Max(Crlfs(d)) \in Crlfs(d)
  BY <1>3, FirstLast, Positions, Zenon
<1>4. ASSUME over
      PROVE  Min(HeaderEnds(d)) \in HeaderEnds(d) /\ \A j \in HeaderEnds(d) : Min(HeaderEnds(d)) <= j
  BY <1>4, FirstLast, Positions, Zenon
<1>5. taken \in 0..Len(d) /\ (ok => taken > 0)
  BY <1>3, <1>4, Positions
<1> HIDE DEF p
<1>6. /\ p.ok \in BOOLEAN /\ p.over \in BOOLEAN /\ (p.ok <=> ok) /\ (p.over <=> over)
  BY <1>1, Zenon
<1> QED
  BY <1>1, <1>2, <1>4, <1>5, <1>6 DEF p

\* An empty line behind the request line ends the headers.
LEMMA BlankEnds ==
    ASSUME NEW d \in Seq(Tokens), NEW k \in 2..Len(d), d[k - 1] = "crlf", d[k] = "crlf"
    PROVE  k \in HeaderEnds(d)
<1>1. k \in Crlfs(d) /\ k - 1 \in Crlfs(d)
  BY DEF Crlfs
<1>2. Min(Crlfs(d)) <= k - 1 /\ Min(Crlfs(d)) \in 1..Len(d)
  <2>1. Crlfs(d) # {}
    BY <1>1
  <2> QED
    <3>1. Min(Crlfs(d)) \in Crlfs(d) /\ Min(Crlfs(d)) <= k - 1
      BY <1>1, <2>1, FirstLast, Positions, Zenon
    <3> QED
      BY <3>1, Positions
<1>3. LineEnding(d, k) = SubSeq(d, (k - 1) + 1, k - 1)
  <2>1. k - 1 \in 0..(k - 1) /\ \A m \in Crlfs(d) : m < k => m <= k - 1
    BY Positions
  <2> QED
    BY <1>1, <2>1, LineBegin
<1>4. SubSeq(d, (k - 1) + 1, k - 1) = <<>>
  OBVIOUS
<1>5. ~HasColon(<<>>)
  BY DEF HasColon
<1>6. ~HasColon(LineEnding(d, k))
  BY <1>3, <1>4, <1>5
<1> QED
  BY <1>1, <1>2, <1>6 DEF HeaderEnds

-----------------------------------------------------------------------------
(* Answering.                                                              *)

ReplyType == [n : Nat, closing : BOOLEAN]

\* The connection is up with its channel in epoll, or down.
Up(k) == ConnOK(k) /\ (Ready(k) \/ k.state = kDisconnected)

Good(r) == r \in [k : ConnectionType, replies : Seq(ReplyType)] /\ Up(r.k)
AllGood(rs) == \A r \in rs : Good(r)

\* Result a is result r with reply y sent, which counts while connected.
Answered(r, y, a) ==
    /\ a.k.state = r.k.state
    /\ r.k.state = kConnected => a.replies = Append(r.replies, y)
    /\ r.k.state # kConnected => a = r

\* A handler that neither opens nor closes the connection leaves it up.
LEMMA KeepsUp ==
    ASSUME NEW k, Up(k), NEW m, ConnOK(m), Keeps(k, m)
    PROVE  Up(m)
BY StatesDiffer, Zenon DEF Up, Keeps, Ready, Live

\* send() of one reply.
LEMMA AnswerOK ==
    ASSUME NEW rs, AllGood(rs), NEW y \in ReplyType, NEW a \in Answer(rs, y)
    PROVE  Good(a) /\ \E r \in rs : Answered(r, y, a)
<1>1. PICK r \in rs :
         a \in IF r.k.state = kConnected
               THEN {[k |-> s.k, replies |-> Append(r.replies, y)] : s \in Send(r.k)}
               ELSE {r}
  BY DEF Answer
<1>2. Good(r)
  BY <1>1 DEF AllGood
<1>3. CASE r.k.state = kConnected
  <2>1. PICK s \in Send(r.k) : a = [k |-> s.k, replies |-> Append(r.replies, y)]
    BY <1>1, <1>3
  <2>2. ConnOK(s.k) /\ Keeps(r.k, s.k) /\ s.k.state = r.k.state
    BY <1>2, <2>1, SendOK DEF Good, Up
  <2>3. Up(s.k) /\ s.k \in ConnectionType
    BY <1>2, <2>2, KeepsUp DEF Good, ConnOK
  <2>4. a.k = s.k /\ a.replies = Append(r.replies, y)
    BY <2>1
  <2>5. a \in [k : ConnectionType, replies : Seq(ReplyType)]
    BY <1>2, <2>1, <2>3 DEF Good
  <2> QED
    BY <1>1, <1>3, <2>2, <2>3, <2>4, <2>5, Zenon DEF Good, Answered
<1>4. CASE r.k.state # kConnected
  BY <1>1, <1>2, <1>4, Zenon DEF Answered
<1> QED
  BY <1>3, <1>4

\* The same of a single result.
LEMMA AnsweredOK ==
    ASSUME NEW r, Good(r), NEW y \in ReplyType
    PROVE  /\ AllGood({r}) /\ AllGood(Answer({r}, y))
           /\ \A b \in Answer({r}, y) : Answered(r, y, b)
<1>1. AllGood({r})
  BY DEF AllGood
<1>2. ASSUME NEW b \in Answer({r}, y) PROVE Good(b) /\ \E q \in {r} : Answered(q, y, b)
  BY <1>1, AnswerOK
<1> QED
  BY <1>1, <1>2, Zenon DEF AllGood

\* shutdown() after it.
LEMMA CloseOK ==
    ASSUME NEW rs, AllGood(rs), NEW a \in Close(rs)
    PROVE  /\ Good(a) /\ a.k.state # kConnected
           /\ \E r \in rs : a.replies = r.replies
<1>1. PICK r \in rs : a = [r EXCEPT !.k = Shutdown(r.k)]
  BY DEF Close
<1>2. Good(r) /\ r \in [k : ConnectionType, replies : Seq(ReplyType)] /\ Up(r.k) /\ ConnOK(r.k)
  BY <1>1 DEF Good, Up, AllGood
<1>3. PICK m : m = Shutdown(r.k)
  OBVIOUS
<1>4. ConnOK(m) /\ Keeps(r.k, m) /\ m.state # kConnected
  BY <1>2, <1>3, ShutdownOK
<1>5. Up(m) /\ m \in ConnectionType
  BY <1>2, <1>4, KeepsUp DEF ConnOK
<1>6. a \in [k : ConnectionType, replies : Seq(ReplyType)] /\ a.k = m /\ a.replies = r.replies
  BY <1>1, <1>2, <1>3, <1>5
<1> QED
  BY <1>1, <1>4, <1>5, <1>6, Zenon DEF Good

\* The answer to a request: one reply, and the connection closes when the
\* reply says so.
LEMMA OnRequestOK ==
    ASSUME NEW r, Good(r), NEW d, NEW n \in Nat, NEW a \in OnRequest({r}, d, n)
    PROVE  /\ Good(a)
           /\ r.k.state = kConnected =>
                 \E closing \in BOOLEAN :
                    /\ a.replies = Append(r.replies, Reply(n, closing))
                    /\ closing => a.k.state # kConnected
           /\ r.k.state # kConnected => a.replies = r.replies /\ a.k.state # kConnected
<1>1. PICK closing \in BOOLEAN :
         a \in IF closing THEN Close(Answer({r}, Reply(n, closing)))
               ELSE Answer({r}, Reply(n, closing))
  BY Zenon DEF OnRequest, httpCallback
<1>2. Reply(n, closing) \in ReplyType
  BY DEF Reply, ReplyType
<1>3. PICK y \in ReplyType : y = Reply(n, closing)
  BY <1>2
<1>4. AllGood({r}) /\ AllGood(Answer({r}, y))
      /\ \A b \in Answer({r}, y) : Answered(r, y, b)
  BY AnsweredOK
<1>5. CASE closing
  <2>1. a \in Close(Answer({r}, y))
    BY <1>1, <1>3, <1>5
  <2>2. PICK b \in Answer({r}, y) : a.replies = b.replies /\ Good(a) /\ a.k.state # kConnected
    BY <1>4, <2>1, CloseOK
  <2> QED
    BY <1>3, <1>4, <2>2, Zenon DEF Answered
<1>6. CASE ~closing
  <2>1. a \in Answer({r}, y)
    BY <1>1, <1>3, <1>6
  <2> QED
    BY <1>3, <1>4, <1>6, <2>1, Zenon DEF Answered, AllGood
<1> QED
  BY <1>5, <1>6

\* The answer to what is no request: two replies, and the end.
LEMMA BadRequestOK ==
    ASSUME NEW r, Good(r), NEW y, y = Reply(0, TRUE), NEW a \in Close(Answer(Answer({r}, y), y))
    PROVE  /\ Good(a) /\ a.k.state # kConnected
           /\ r.k.state = kConnected => a.replies = Append(Append(r.replies, y), y)
           /\ r.k.state # kConnected => a.replies = r.replies
<1>1. y \in ReplyType
  BY DEF Reply, ReplyType
<1>2. /\ AllGood(Answer({r}, y))
      /\ \A b \in Answer({r}, y) : Answered(r, y, b)
  BY <1>1, AnsweredOK
<1>3. ASSUME NEW c \in Answer(Answer({r}, y), y)
      PROVE  /\ Good(c)
             /\ r.k.state = kConnected => c.replies = Append(Append(r.replies, y), y)
             /\ r.k.state # kConnected => c.replies = r.replies
  <2>1. Good(c) /\ \E b \in Answer({r}, y) : Answered(b, y, c)
    BY <1>1, <1>2, AnswerOK
  <2> QED
    BY <1>2, <2>1, Zenon DEF Answered
<1>4. /\ Good(a) /\ a.k.state # kConnected
      /\ \E c \in Answer(Answer({r}, y), y) : a.replies = c.replies
  <2>1. AllGood(Answer(Answer({r}, y), y))
    BY <1>3 DEF AllGood
  <2> QED
    BY <2>1, CloseOK
<1> QED
  BY <1>3, <1>4, Zenon

-----------------------------------------------------------------------------
(* The inductive invariant.                                                *)

\* A part of a stream.
LEMMA Part ==
    ASSUME NEW s \in Seq(Tokens), NEW a \in Nat, NEW c \in Nat, a <= c, c <= Len(s)
    PROVE  LET p == SubSeq(s, a + 1, c) IN
           p \in Seq(Tokens) /\ Len(p) = c - a /\ \A i \in 1..(c - a) : p[i] = s[a + i]
OBVIOUS

\* Two parts that follow each other.
LEMMA PartJoin ==
    ASSUME NEW s \in Seq(Tokens), NEW a \in Nat, NEW b \in Nat, NEW c \in Nat,
           a <= b, b <= c, c <= Len(s)
    PROVE  SubSeq(s, a + 1, b) \o SubSeq(s, b + 1, c) = SubSeq(s, a + 1, c)
<1> DEFINE p == SubSeq(s, a + 1, b)
           q == SubSeq(s, b + 1, c)
           u == SubSeq(s, a + 1, c)
<1>1. p \in Seq(Tokens) /\ Len(p) = b - a /\ \A i \in 1..(b - a) : p[i] = s[a + i]
  BY Part
<1>2. q \in Seq(Tokens) /\ Len(q) = c - b /\ \A i \in 1..(c - b) : q[i] = s[b + i]
  BY Part
<1>3. u \in Seq(Tokens) /\ Len(u) = c - a /\ \A i \in 1..(c - a) : u[i] = s[a + i]
  BY Part
<1> HIDE DEF p, q, u
<1>4. p \o q \in Seq(Tokens) /\ Len(p \o q) = Len(u)
  <2>1. p \o q \in Seq(Tokens) /\ Len(p \o q) = Len(p) + Len(q)
    <3>1. p \in Seq(Tokens) /\ q \in Seq(Tokens)
      BY <1>1, <1>2, Zenon
    <3> QED
      BY <3>1
  <2>2. Len(p) + Len(q) = Len(u)
    BY <1>1, <1>2, <1>3
  <2> QED
    BY <2>1, <2>2
<1>5. ASSUME NEW i \in 1..Len(u) PROVE (p \o q)[i] = u[i]
  <2>0. i \in Nat /\ 1 <= i /\ i <= c - a /\ u[i] = s[a + i]
    BY <1>3
  <2>1. CASE i <= b - a
    <3>1. (p \o q)[i] = p[i] /\ i \in 1..(b - a)
      BY <1>1, <1>2, <2>0, <2>1
    <3> QED
      BY <1>1, <2>0, <3>1
  <2>2. CASE i > b - a
    <3>1. (p \o q)[i] = q[i - (b - a)]
      BY <1>1, <1>2, <2>0, <2>2, SMTT(30)
    <3>2. i - (b - a) \in 1..(c - b) /\ b + (i - (b - a)) = a + i
      BY <2>0, <2>2
    <3>3. q[i - (b - a)] = s[b + (i - (b - a))]
      BY <1>2, <3>2
    <3> QED
      BY <2>0, <3>1, <3>2, <3>3
  <2>3. i <= b - a \/ i > b - a
    BY <2>0
  <2> QED
    BY <2>1, <2>2, <2>3, Zenon
<1>6. p \o q = u
  BY <1>3, <1>4, <1>5, SeqEqual
<1> QED
  BY <1>6 DEF p, q, u

\* The rest of a part.
LEMMA PartRest ==
    ASSUME NEW s \in Seq(Tokens), NEW a \in Nat, NEW c \in Nat, a <= c, c <= Len(s),
           NEW m \in 0..(c - a)
    PROVE  SubSeq(SubSeq(s, a + 1, c), m + 1, c - a) = SubSeq(s, (a + m) + 1, c)
<1> DEFINE p == SubSeq(s, a + 1, c)
           q == SubSeq(p, m + 1, c - a)
           u == SubSeq(s, (a + m) + 1, c)
<1>1. p \in Seq(Tokens) /\ Len(p) = c - a /\ \A i \in 1..(c - a) : p[i] = s[a + i]
  BY Part
<1>2. u \in Seq(Tokens) /\ Len(u) = c - (a + m) /\ \A i \in 1..(c - (a + m)) : u[i] = s[(a + m) + i]
  <2>1. a + m \in Nat /\ a + m <= c
    OBVIOUS
  <2> QED
    BY <2>1, Part
<1> HIDE DEF p, u
<1>3. q \in Seq(Tokens) /\ Len(q) = (c - a) - m /\ \A i \in 1..((c - a) - m) : q[i] = p[m + i]
  <2>1. m \in Nat /\ c - a \in Nat /\ m <= c - a /\ c - a <= Len(p)
    BY <1>1
  <2> QED
    BY <1>1, <2>1, Part
<1> HIDE DEF q
<1>4. Len(q) = Len(u)
  BY <1>2, <1>3
<1>5. ASSUME NEW i \in 1..Len(u) PROVE q[i] = u[i]
  <2>1. i \in 1..((c - a) - m) /\ m + i \in 1..(c - a) /\ a + (m + i) = (a + m) + i
        /\ i \in 1..(c - (a + m))
    BY <1>2
  <2> QED
    BY <1>1, <1>2, <1>3, <2>1
<1>6. q = u
  BY <1>2, <1>3, <1>4, <1>5, SeqEqual
<1> QED
  BY <1>6 DEF p, q, u

\* The numbers of requests are numbers.
LEMMA Numbers ==
    ASSUME NEW p \in Nat
    PROVE  IsFiniteSet({i \in 1..p : stream[i] \in {Http11, Http10}}) /\ RequestNumber(p) \in Nat
<1>1. IsFiniteSet(1..p)
  BY FS_Interval
<1>2. IsFiniteSet({i \in 1..p : stream[i] \in {Http11, Http10}})
  BY <1>1, FS_Subset
<1> QED
  BY <1>2, FS_CardinalityType DEF RequestNumber

\* Nothing follows a last reply.
ClosesLast ==
    /\ \A i, j \in DOMAIN replies : i < j /\ replies[i].closing =>
          replies[i].n = 0 /\ replies[j].n = 0 /\ j = i + 1
    /\ conn.state = kConnected => \A i \in DOMAIN replies : ~replies[i].closing

\* The unread part of the buffer is what was read and not taken; the
\* connection is up or down for good; nothing follows a last reply.
HttpInv ==
    /\ TypeOK
    /\ BufferOK(input)
    /\ Holds(input, SubSeq(stream, retrieved + 1, received))
    /\ Up(conn)
    /\ ClosesLast

\* A read, from the buffer's side.
LEMMA ReadOK ==
    ASSUME HttpInv, NEW n \in 1..(Len(stream) - received), HandleReadData(n),
           NEW d, d = SubSeq(stream, retrieved + 1, received + n)
    PROVE  /\ d \in Seq(Tokens) /\ Len(d) = (received + n) - retrieved
           /\ \A i \in 1..Len(d) : d[i] = stream[retrieved + i]
           /\ received' = received + n /\ retrieved' = retrieved + ParseRequest(d).taken
           /\ stream' = stream /\ lastRead' = "data"
           /\ BufferOK(input') /\ Holds(input', SubSeq(stream', retrieved' + 1, received'))
           /\ \E r \in OnMessage(conn, d) : conn' = r.k /\ replies' = r.replies
<1> DEFINE old == SubSeq(stream, retrieved + 1, received)
           new == SubSeq(stream, received + 1, received + n)
           filled == readFd(input, new)
           taken == ParseRequest(Readable(filled)).taken
<1>1. /\ stream \in Seq(Tokens) /\ received \in Nat /\ retrieved \in Nat /\ retrieved <= received
      /\ received + n \in Nat /\ received <= received + n /\ received + n <= Len(stream)
      /\ BufferOK(input) /\ Holds(input, old)
  BY StreamsAssumption DEF HttpInv, TypeOK
<1>2. /\ ~ReadvFails(input) /\ n <= ReadvLimit(input)
      /\ received' = received + n /\ retrieved' = retrieved + taken
      /\ input' = (IF taken = 0 THEN filled ELSE retrieve(filled, taken))
      /\ lastRead' = "data" /\ stream' = stream
      /\ \E r \in OnMessage(conn, Readable(filled)) : conn' = r.k /\ replies' = r.replies
  BY Zenon DEF HandleReadData
<1>3. old \in Seq(Tokens) /\ new \in Seq(Tokens) /\ Len(new) = n
  BY <1>1, Part, SMTT(30)
<1>4. /\ d \in Seq(Tokens) /\ Len(d) = (received + n) - retrieved
      /\ \A i \in 1..((received + n) - retrieved) : d[i] = stream[retrieved + i]
  BY <1>1, Part
<1>5. old \o new = d
  BY <1>1, PartJoin
<1> HIDE DEF old, new
<1>6. BufferOK(filled) /\ Holds(filled, d)
  <2>1. BufferOK(filled) /\ Holds(filled, old \o new)
    BY <1>1, <1>2, <1>3, ReadFdOK
  <2> QED
    BY <1>5, <2>1
<1> HIDE DEF filled
<1>7. Readable(filled) = d
  BY <1>4, <1>6, ReadableIs DEF BufferOK
<1>8. taken = ParseRequest(d).taken
  BY <1>7
<1>9. taken \in 0..Len(d)
  BY <1>4, <1>8, ParseOK
<1> HIDE DEF taken
<1>10. SubSeq(d, taken + 1, Len(d)) = SubSeq(stream', retrieved' + 1, received')
  <2>1. SubSeq(SubSeq(stream, retrieved + 1, received + n), taken + 1, (received + n) - retrieved)
        = SubSeq(stream, (retrieved + taken) + 1, received + n)
    BY <1>1, <1>4, <1>9, PartRest
  <2> QED
    BY <1>2, <1>4, <2>1
<1>11. BufferOK(input') /\ Holds(input', SubSeq(d, taken + 1, Len(d)))
  <2>1. CASE taken = 0
    <3>1. SubSeq(d, taken + 1, Len(d)) = d
      BY <1>4, <2>1, SMTT(30)
    <3> QED
      BY <1>2, <1>6, <2>1, <3>1
  <2>2. CASE taken # 0
    <3>1. input' = retrieve(filled, taken)
      BY <1>2, <2>2
    <3> QED
      BY <1>4, <1>6, <1>9, <3>1, RetrieveOK
  <2> QED
    BY <2>1, <2>2
<1> QED
  BY <1>2, <1>4, <1>7, <1>8, <1>10, <1>11

\* A read, from the user's side: what is sent in answer to data d.
LEMMA AnswersOK ==
    ASSUME HttpInv, NEW d \in Seq(Tokens), NEW r \in OnMessage(conn, d)
    PROVE  /\ Up(r.k) /\ r.replies \in Seq(ReplyType)
           /\ conn.state # kConnected => r.replies = replies /\ r.k.state # kConnected
           /\ conn.state = kConnected =>
                 \/ /\ ~ParseRequest(d).ok /\ r.k.state # kConnected
                    /\ r.replies = Append(Append(replies, Reply(0, TRUE)), Reply(0, TRUE))
                 \/ /\ ParseRequest(d).over
                    /\ \E closing \in BOOLEAN :
                          /\ r.replies = Append(replies, Reply(RequestNumber(retrieved + 1), closing))
                          /\ closing => r.k.state # kConnected
                 \/ /\ ParseRequest(d).ok /\ ~ParseRequest(d).over
                    /\ r.replies = replies
<1> DEFINE q == [k |-> conn, replies |-> replies]
           p == ParseRequest(d)
           m == RequestNumber(retrieved + 1)
           cut == SubSeq(d, 1, p.taken)
           y == Reply(0, TRUE)
<1>1. conn \in ConnectionType /\ replies \in Seq(ReplyType) /\ Up(conn) /\ retrieved + 1 \in Nat
  BY DEF HttpInv, TypeOK, ReplyType
<1>2. Good(q) /\ q.k = conn /\ q.replies = replies
  <2>1. q \in [k : ConnectionType, replies : Seq(ReplyType)] /\ q.k = conn /\ q.replies = replies
    BY <1>1
  <2> QED
    BY <1>1, <2>1, Zenon DEF Good
<1>3. m \in Nat
  BY <1>1, Numbers
<1>4. r \in IF ~p.ok THEN Close(Answer(Answer({q}, y), y))
            ELSE IF p.over THEN OnRequest({q}, cut, m) ELSE {q}
  BY Zenon DEF OnMessage
<1> HIDE DEF q, p, m, cut, y
<1>5. CASE ~p.ok
  <2>1. r \in Close(Answer(Answer({q}, y), y))
    BY <1>4, <1>5
  <2>2. /\ Good(r) /\ r.k.state # kConnected
        /\ q.k.state = kConnected => r.replies = Append(Append(q.replies, y), y)
        /\ q.k.state # kConnected => r.replies = q.replies
    BY <1>2, <2>1, BadRequestOK DEF y
  <2>3. Up(r.k) /\ r.replies \in Seq(ReplyType)
    BY <2>2 DEF Good
  <2> QED
    BY <1>2, <1>5, <2>2, <2>3, Zenon DEF p, y
<1>6. CASE p.ok /\ p.over
  <2>1. r \in OnRequest({q}, cut, m)
    BY <1>4, <1>6
  <2>2. /\ Good(r)
        /\ q.k.state = kConnected =>
              \E closing \in BOOLEAN :
                 /\ r.replies = Append(q.replies, Reply(m, closing))
                 /\ closing => r.k.state # kConnected
        /\ q.k.state # kConnected => r.replies = q.replies /\ r.k.state # kConnected
    BY <1>2, <1>3, <2>1, OnRequestOK
  <2>3. Up(r.k) /\ r.replies \in Seq(ReplyType)
    BY <2>2 DEF Good
  <2> QED
    BY <1>2, <1>6, <2>2, <2>3, Zenon DEF p, m
<1>7. CASE p.ok /\ ~p.over
  <2>1. r = q
    BY <1>4, <1>7
  <2> QED
    BY <1>1, <1>2, <1>7, <2>1, Zenon DEF p
<1> QED
  BY <1>5, <1>6, <1>7

\* Nothing but the rest of an error message follows a last reply.
LastIsLast(s) ==
    \A i, j \in DOMAIN s : i < j /\ s[i].closing => s[i].n = 0 /\ s[j].n = 0 /\ j = i + 1

\* A reply, or the two parts of an error message, after replies that were
\* not the last.
LEMMA LastOK ==
    ASSUME NEW s \in Seq(ReplyType), \A i \in DOMAIN s : ~s[i].closing, NEW y \in ReplyType
    PROVE  /\ LastIsLast(Append(s, y))
           /\ ~y.closing => \A i \in DOMAIN Append(s, y) : ~Append(s, y)[i].closing
           /\ y.n = 0 => LastIsLast(Append(Append(s, y), y))
<1> DEFINE n == Len(s)
           t == Append(s, y)
           u == Append(t, y)
<1>1. /\ n \in Nat /\ DOMAIN s = 1..n
      /\ t \in Seq(ReplyType) /\ DOMAIN t = 1..(n + 1) /\ Len(t) = n + 1
      /\ t[n + 1] = y /\ \A i \in 1..n : t[i] = s[i]
  OBVIOUS
<1> HIDE DEF t
<1>2. /\ DOMAIN u = 1..(n + 2) /\ u[n + 2] = y /\ \A i \in 1..(n + 1) : u[i] = t[i]
  BY <1>1
<1> HIDE DEF u, n
<1>3. \A i \in 1..n : ~t[i].closing /\ ~u[i].closing
  <2> TAKE i \in 1..n
  <2>1. i \in DOMAIN s /\ t[i] = s[i] /\ u[i] = s[i]
    BY <1>1, <1>2
  <2> QED
    BY <2>1, Zenon
<1>4. LastIsLast(t)
  <2> SUFFICES ASSUME NEW i \in DOMAIN t, NEW j \in DOMAIN t, i < j PROVE ~t[i].closing
    BY Zenon DEF LastIsLast
  <2>1. i \in 1..n
    BY <1>1
  <2> QED
    BY <1>3, <2>1, Zenon
<1>5. ASSUME ~y.closing, NEW i \in DOMAIN t PROVE ~t[i].closing
  <2>1. i \in 1..n \/ i = n + 1
    BY <1>1
  <2> QED
    BY <1>1, <1>3, <1>5, <2>1, Zenon
<1>6. ASSUME y.n = 0 PROVE LastIsLast(u)
  <2> SUFFICES ASSUME NEW i \in DOMAIN u, NEW j \in DOMAIN u, i < j, u[i].closing
               PROVE  u[i].n = 0 /\ u[j].n = 0 /\ j = i + 1
    BY Zenon DEF LastIsLast
  <2>1. i \notin 1..n
    BY <1>3, Zenon
  <2>2. i = n + 1 /\ j = n + 2
    BY <1>1, <1>2, <2>1
  <2>3. u[i] = y /\ u[j] = y
    BY <1>1, <1>2, <2>2
  <2> QED
    BY <1>1, <1>6, <2>2, <2>3
<1> QED
  BY <1>4, <1>5, <1>6 DEF t, u

\* The parts of TypeOK that follow from the rest of the invariant.
LEMMA TypesFrom ==
    ASSUME NEW b, BufferOK(b), NEW k, Up(k)
    PROVE  /\ b.readerIndex_ \in Nat /\ b.writeIndex_ \in Nat
           /\ b.cells \in Seq(Tokens \cup {Unwritten}) /\ k \in ConnectionType
<1>1. /\ b.readerIndex_ \in Nat /\ b.writeIndex_ \in Nat
      /\ b.cells \in Seq(Tokens \cup {Unwritten})
  BY DEF BufferOK, Shape, BufferType, Cell
<1>2. k \in ConnectionType
  BY DEF Up, ConnOK
<1> QED
  BY <1>1, <1>2

\* The connection after connectEstablished, with nothing read.
LEMMA HttpInit ==
    ASSUME Init
    PROVE  HttpInv
<1>1. /\ stream \in Streams /\ stream \in Seq(Tokens) /\ received = 0 /\ retrieved = 0
      /\ input = NewBuffer /\ replies = <<>> /\ lastRead = "none"
      /\ conn = [NewConnection EXCEPT !.state = kConnected, !.ch = EnableReading(@)]
  BY StreamsAssumption DEF Init
<1>2. Up(conn)
  <2>1. conn = [NewConnection EXCEPT !.state = kConnected, !.ch = EnableReading(NewConnection.ch)]
    BY <1>1, Zenon
  <2>2. ConnOK(conn) /\ Ready(conn)
    BY <2>1, NewConnectionOK, EnabledOK
  <2> QED
    BY <2>2 DEF Up
<1>3. BufferOK(input) /\ Holds(input, SubSeq(stream, retrieved + 1, received))
  <2>1. SubSeq(stream, retrieved + 1, received) = <<>>
    BY <1>1
  <2> QED
    BY <1>1, <2>1, NewBufferOK
<1>4. ClosesLast
  BY <1>1 DEF ClosesLast
<1>5. TypeOK
  <2>1. /\ received \in 0..Len(stream) /\ retrieved \in 0..received /\ replies \in Seq(ReplyType)
        /\ lastRead \in {"none", "data", "error", "eof"}
    BY <1>1
  <2>2. /\ input.readerIndex_ \in Nat /\ input.writeIndex_ \in Nat
        /\ input.cells \in Seq(Tokens \cup {Unwritten}) /\ conn \in ConnectionType
    BY <1>2, <1>3, TypesFrom
  <2> QED
    BY <1>1, <2>1, <2>2, Zenon DEF TypeOK, ReplyType
<1> QED
  BY <1>2, <1>3, <1>4, <1>5 DEF HttpInv

\* handleRead with data.
LEMMA ReadStep ==
    ASSUME HttpInv, NEW n \in 1..(Len(stream) - received), HandleReadData(n)
    PROVE  HttpInv'
<1> DEFINE y == Reply(0, TRUE)
           m == RequestNumber(retrieved + 1)
<1>1. PICK d : d = SubSeq(stream, retrieved + 1, received + n)
  OBVIOUS
<1>2. /\ d \in Seq(Tokens) /\ Len(d) = (received + n) - retrieved
      /\ received' = received + n /\ retrieved' = retrieved + ParseRequest(d).taken
      /\ stream' = stream /\ lastRead' = "data"
      /\ BufferOK(input') /\ Holds(input', SubSeq(stream', retrieved' + 1, received'))
      /\ \E r \in OnMessage(conn, d) : conn' = r.k /\ replies' = r.replies
  BY <1>1, ReadOK
<1>3. /\ stream \in Streams /\ stream \in Seq(Tokens) /\ received \in Nat /\ retrieved \in Nat
      /\ retrieved <= received /\ replies \in Seq(ReplyType)
  BY StreamsAssumption DEF HttpInv, TypeOK, ReplyType
<1>4. PICK r \in OnMessage(conn, d) : conn' = r.k /\ replies' = r.replies
  BY <1>2
<1>5. /\ Up(conn') /\ replies' \in Seq(ReplyType)
      /\ conn.state # kConnected => replies' = replies /\ conn'.state # kConnected
      /\ conn.state = kConnected =>
            \/ conn'.state # kConnected /\ replies' = Append(Append(replies, y), y)
            \/ \E closing \in BOOLEAN : /\ replies' = Append(replies, Reply(m, closing))
                                        /\ closing => conn'.state # kConnected
            \/ replies' = replies
  BY <1>2, <1>4, AnswersOK
<1>6. TypeOK'
  <2>1. ParseRequest(d).taken \in 0..Len(d)
    BY <1>2, ParseOK
  <2>2. /\ received' \in 0..Len(stream') /\ retrieved' \in 0..received'
        /\ lastRead' \in {"none", "data", "error", "eof"}
    BY <1>2, <1>3, <2>1
  <2>3. /\ input'.readerIndex_ \in Nat /\ input'.writeIndex_ \in Nat
        /\ input'.cells \in Seq(Tokens \cup {Unwritten}) /\ conn' \in ConnectionType
    BY <1>2, <1>5, TypesFrom
  <2> QED
    BY <1>2, <1>3, <1>5, <2>2, <2>3, Zenon DEF TypeOK, ReplyType
<1>7. y \in ReplyType /\ y.n = 0 /\ \A closing \in BOOLEAN : Reply(m, closing) \in ReplyType
  <2>1. retrieved + 1 \in Nat
    BY <1>3
  <2>2. m \in Nat
    BY <2>1, Numbers
  <2> HIDE DEF m
  <2> QED
    BY <2>2 DEF Reply, ReplyType
<1>8. \A closing \in BOOLEAN : Reply(m, closing).closing = closing
  BY Zenon DEF Reply
<1> HIDE DEF y, m
<1>9. ClosesLast'
  <2>1. /\ LastIsLast(replies)
        /\ conn.state = kConnected => \A i \in DOMAIN replies : ~replies[i].closing
    BY Zenon DEF HttpInv, ClosesLast, LastIsLast
  <2>2. CASE replies' = replies /\ (conn.state # kConnected => conn'.state # kConnected)
    BY <2>1, <2>2, Zenon DEF ClosesLast, LastIsLast
  <2>3. CASE conn.state = kConnected /\ conn'.state # kConnected
             /\ replies' = Append(Append(replies, y), y)
    <3>1. LastIsLast(replies')
      BY <1>3, <1>7, <2>1, <2>3, LastOK
    <3> QED
      BY <2>3, <3>1, Zenon DEF ClosesLast, LastIsLast
  <2>4. ASSUME conn.state = kConnected, NEW closing \in BOOLEAN,
               replies' = Append(replies, Reply(m, closing)), closing => conn'.state # kConnected
        PROVE  ClosesLast'
    <3>1. PICK x \in ReplyType : x = Reply(m, closing) /\ x.closing = closing
      BY <1>7, <1>8, Zenon
    <3>2. LastIsLast(replies')
      BY <1>3, <2>1, <2>4, <3>1, LastOK
    <3>3. ~closing => \A i \in DOMAIN replies' : ~replies'[i].closing
      <4>1. ~x.closing => \A i \in DOMAIN Append(replies, x) : ~Append(replies, x)[i].closing
        BY <1>3, <2>1, <2>4, LastOK, Zenon
      <4> QED
        BY <2>4, <3>1, <4>1, Zenon
    <3> QED
      BY <2>4, <3>2, <3>3, Zenon DEF ClosesLast, LastIsLast
  <2> QED
    BY <1>5, <2>2, <2>3, <2>4, Zenon
<1> QED
  BY <1>2, <1>5, <1>6, <1>9, Zenon DEF HttpInv

\* The handlers that leave the buffer and the replies alone do not connect
\* a connection again.
LEMMA StateKept ==
    ASSUME HttpInv, HandleReadError \/ HandleReadEof \/ Flush
    PROVE  /\ UNCHANGED <<stream, received, retrieved, input, replies>>
           /\ lastRead' \in {lastRead, "error", "eof"}
           /\ Up(conn') /\ (conn'.state = kConnected => conn.state = kConnected)
<1>1. /\ UNCHANGED <<stream, received, retrieved, input, replies>> /\ Open
      /\ \/ conn' = HandleError(conn) /\ lastRead' = "error"
         \/ conn' = HandleClose(conn).k /\ lastRead' = "eof"
         \/ lastRead' = lastRead /\ \E r \in HandleWrite(conn) : conn' = r.k
  BY DEF HandleReadError, HandleReadEof, Flush
<1>2. Up(conn) /\ ConnOK(conn) /\ Ready(conn)
  BY <1>1, StatesDiffer, Zenon DEF HttpInv, Up, Open
<1>3. Up(conn') /\ (conn'.state = kConnected => conn.state = kConnected)
  <2>1. CASE conn' = HandleError(conn)
    <3>1. ConnOK(conn') /\ Keeps(conn, conn') /\ conn'.state = conn.state
      BY <1>2, <2>1, HandleErrorOK
    <3> QED
      BY <1>2, <3>1, KeepsUp
  <2>2. CASE conn' = HandleClose(conn).k
    <3>1. ConnOK(conn') /\ conn'.state = kDisconnected
      BY <1>2, <2>2, HandleCloseOK
    <3> QED
      BY <3>1, StatesDiffer, Zenon DEF Up
  <2>3. ASSUME NEW r \in HandleWrite(conn), conn' = r.k
        PROVE  Up(conn') /\ conn'.state = conn.state
    <3>1. ConnOK(conn') /\ Keeps(conn, conn') /\ conn'.state = conn.state
      BY <1>2, <2>3, HandleWriteOK
    <3> QED
      BY <1>2, <3>1, KeepsUp
  <2> QED
    BY <1>1, <2>1, <2>2, <2>3
<1> QED
  BY <1>1, <1>3

\* They keep the invariant.
LEMMA OtherStep ==
    ASSUME HttpInv, HandleReadError \/ HandleReadEof \/ Flush
    PROVE  HttpInv'
<1>1. /\ UNCHANGED <<stream, received, retrieved, input, replies>>
      /\ lastRead' \in {lastRead, "error", "eof"}
  BY StateKept
<1>2. Up(conn') /\ (conn'.state = kConnected => conn.state = kConnected)
  BY StateKept
<1>3. TypeOK'
  <2>1. lastRead' \in {"none", "data", "error", "eof"}
    BY <1>1 DEF HttpInv, TypeOK
  <2>2. /\ stream' \in Streams /\ received' \in 0..Len(stream') /\ retrieved' \in 0..received'
        /\ BufferOK(input') /\ replies' \in Seq(ReplyType)
    BY <1>1 DEF HttpInv, TypeOK, ReplyType
  <2>3. /\ input'.readerIndex_ \in Nat /\ input'.writeIndex_ \in Nat
        /\ input'.cells \in Seq(Tokens \cup {Unwritten}) /\ conn' \in ConnectionType
    BY <1>2, <2>2, TypesFrom
  <2> QED
    BY <2>1, <2>2, <2>3, Zenon DEF TypeOK, ReplyType
<1>4. ClosesLast'
  BY <1>1, <1>2, Zenon DEF HttpInv, ClosesLast
<1> QED
  BY <1>1, <1>2, <1>3, <1>4, Zenon DEF HttpInv

\* Every step keeps the invariant.
LEMMA HttpNext ==
    ASSUME HttpInv, [Next]_vars
    PROVE  HttpInv'
<1>1. ASSUME NEW n \in 1..(Len(stream) - received), HandleReadData(n) PROVE HttpInv'
  BY <1>1, ReadStep
<1>2. CASE HandleReadError \/ HandleReadEof \/ Flush
  BY <1>2, OtherStep
<1>3. CASE UNCHANGED vars
  BY <1>3, Zenon DEF vars, HttpInv, TypeOK, ClosesLast
<1> QED
  BY <1>1, <1>2, <1>3, Zenon DEF Next

-----------------------------------------------------------------------------
(* The theorems.                                                           *)

(* Every state of the connection satisfies the inductive invariant.        *)
THEOREM HttpInvariant == Spec => []HttpInv
<1>1. Init => HttpInv
  BY HttpInit
<1>2. HttpInv /\ [Next]_vars => HttpInv'
  BY HttpNext
<1> QED
  BY <1>1, <1>2, PTL DEF Spec

(* Every variable keeps its type: the parser takes out no more than was    *)
(* read, and no more is read than was sent.                                *)
THEOREM HttpTypes == Spec => []TypeOK
<1>1. HttpInv => TypeOK
  BY DEF HttpInv
<1> QED
  BY <1>1, HttpInvariant, PTL

(* Whatever the reads and the requests are, the buffer offers exactly what *)
(* was read and not yet retrieved, also when makeSpace has moved it or has *)
(* put the write index behind size(), and the vector's capacity is never   *)
(* overrun.                                                                *)
THEOREM HttpBufferKeepsStream == Spec => []BufferKeepsStream
<1>1. ASSUME HttpInv PROVE BufferKeepsStream
  <2> DEFINE d == SubSeq(stream, retrieved + 1, received)
  <2>1. /\ stream \in Seq(Tokens) /\ received \in Nat /\ retrieved \in Nat /\ retrieved <= received
        /\ received <= Len(stream) /\ Shape(input) /\ Holds(input, d)
    BY <1>1, StreamsAssumption DEF HttpInv, TypeOK, BufferOK
  <2>2. d \in Seq(Tokens) /\ Len(d) = received - retrieved
    BY <2>1, Part
  <2> HIDE DEF d
  <2>3. Readable(input) = d /\ readableBytes(input) = Len(d)
    BY <2>1, <2>2, ReadableIs
  <2> QED
    BY <2>1, <2>2, <2>3 DEF BufferKeepsStream, Shape, d
<1> QED
  BY <1>1, HttpInvariant, PTL

(* After a reply that ends the connection nothing is sent but the rest of  *)
(* the same error message, and the FIN goes out exactly when all of it has *)
(* left outputBuffer_.                                                     *)
THEOREM HttpClosingReplyIsLast == Spec => []ClosingReplyIsLast
<1>1. ASSUME HttpInv PROVE ClosingReplyIsLast
  <2>1. ClosesLast /\ Drains(conn)
    BY <1>1, Zenon DEF HttpInv, Up, ConnOK
  <2>2. conn.state = kDisconnecting => (conn.fin <=> conn.out = 0)
    BY <2>1, Zenon DEF Drains
  <2> QED
    BY <2>1, <2>2, Zenon DEF ClosesLast, ClosingReplyIsLast
<1> QED
  BY <1>1, HttpInvariant, PTL

-----------------------------------------------------------------------------
(* A request that is read at once.                                         *)

\* The parser finds its request line and its end.
LEMMA WholeParsed ==
    ASSUME NEW d \in Seq(Tokens), WholeRequest(d)
    PROVE  ParseRequest(d).over /\ d[1] \in {Http11, Http10}
<1>1. /\ Len(d) \in Nat /\ Len(d) >= 3 /\ IsRequestLine(<<d[1]>>) /\ d[2] = "crlf"
      /\ d[Len(d) - 1] = "crlf" /\ d[Len(d)] = "crlf"
  BY DEF WholeRequest
<1>2. d[1] \in {Http11, Http10} /\ d[1] # "crlf"
  BY <1>1 DEF IsRequestLine, setMethod, Http11, Http10
<1>3. 2 \in Crlfs(d) /\ \A j \in Crlfs(d) : 2 <= j
  BY <1>1, <1>2 DEF Crlfs
<1>4. Min(Crlfs(d)) = 2
  <2>1. PICK x : x = Min(Crlfs(d))
    OBVIOUS
  <2>2. x \in Crlfs(d) /\ x <= 2 /\ 2 <= x
    BY <1>3, <2>1, FirstLast, Positions, Zenon
  <2>3. x \in Nat
    BY <2>2, Positions
  <2> QED
    BY <2>1, <2>2, <2>3
<1>5. LineEnding(d, 2) = <<d[1]>>
  <2>1. 0 \in 0..(2 - 1) /\ \A m \in Crlfs(d) : m < 2 => m <= 0
    BY <1>3, Positions
  <2>2. LineEnding(d, 2) = SubSeq(d, 0 + 1, 2 - 1)
    BY <1>3, <2>1, LineBegin
  <2> QED
    BY <1>1, <2>2
<1>6. Len(d) \in HeaderEnds(d)
  BY <1>1, BlankEnds
<1>7. Crlfs(d) # {} /\ IsRequestLine(LineEnding(d, Min(Crlfs(d)))) /\ HeaderEnds(d) # {}
  BY <1>1, <1>3, <1>4, <1>5, <1>6
<1> QED
  BY <1>2, <1>7, Zenon DEF ParseRequest

\* A request line has a number from 1.
LEMMA NumberAtLine ==
    ASSUME NEW p \in Nat, p >= 1, stream[p] \in {Http11, Http10}
    PROVE  RequestNumber(p) # 0
<1> DEFINE S == {i \in 1..p : stream[i] \in {Http11, Http10}}
<1>1. IsFiniteSet(S)
  BY Numbers
<1>2. p \in S
  OBVIOUS
<1> HIDE DEF S
<1>3. Cardinality(S) # 0
  BY <1>1, <1>2, FS_EmptySet
<1> QED
  BY <1>3 DEF RequestNumber, S

\* What the handler makes of it.
LEMMA WholeStep ==
    ASSUME HttpInv, NEW n \in 1..(Len(stream) - received), HandleReadData(n),
           readableBytes(input) = 0, conn.state = kConnected,
           WholeRequest(SubSeq(stream, received + 1, received + n))
    PROVE  Len(replies') = Len(replies) + 1 /\ replies'[Len(replies')].n # 0
<1> DEFINE m == RequestNumber(retrieved + 1)
           old == SubSeq(stream, retrieved + 1, received)
<1>1. /\ stream \in Seq(Tokens) /\ received \in Nat /\ retrieved \in Nat /\ retrieved <= received
      /\ received <= Len(stream) /\ Shape(input) /\ Holds(input, old) /\ replies \in Seq(ReplyType)
  BY StreamsAssumption DEF HttpInv, TypeOK, BufferOK, ReplyType
<1>2. retrieved = received
  <2>1. old \in Seq(Tokens) /\ Len(old) = received - retrieved
    BY <1>1, Part
  <2> HIDE DEF old
  <2>2. readableBytes(input) = Len(old)
    BY <1>1, <2>1, ReadableIs
  <2> QED
    BY <1>1, <2>1, <2>2
<1>3. PICK d : d = SubSeq(stream, retrieved + 1, received + n)
  OBVIOUS
<1>4. WholeRequest(d)
  BY <1>2, <1>3
<1>5. /\ d \in Seq(Tokens) /\ Len(d) = (received + n) - retrieved
      /\ \E r \in OnMessage(conn, d) : conn' = r.k /\ replies' = r.replies
  BY <1>3, ReadOK
<1>6. PICK r \in OnMessage(conn, d) : conn' = r.k /\ replies' = r.replies
  BY <1>5
<1>7. ParseRequest(d).over /\ d[1] \in {Http11, Http10}
  BY <1>4, <1>5, WholeParsed
<1>8. \E closing \in BOOLEAN : replies' = Append(replies, Reply(m, closing))
  <2>1. ParseRequest(d).ok
    BY <1>5, <1>7, ParseOK
  <2> QED
    BY <1>5, <1>6, <1>7, <2>1, AnswersOK
<1>9. m # 0
  <2>1. stream[retrieved + 1] \in {Http11, Http10} /\ retrieved + 1 \in Nat /\ retrieved + 1 >= 1
    <3>1. d[1] = stream[retrieved + 1]
      BY <1>1, <1>2, <1>3
    <3> QED
      BY <1>1, <1>7, <3>1
  <2> QED
    BY <2>1, NumberAtLine
<1> HIDE DEF m
<1>10. PICK closing \in BOOLEAN : replies' = Append(replies, Reply(m, closing))
  BY <1>8
<1>11. Reply(m, closing).n = m
  BY DEF Reply
<1>12. \A y : Len(Append(replies, y)) = Len(replies) + 1 /\ Append(replies, y)[Len(replies) + 1] = y
  BY <1>1
<1> QED
  BY <1>9, <1>10, <1>11, <1>12, Zenon

(* On an open connection with an empty buffer, the handler that reads a    *)
(* whole request answers it, and not with an error, whatever the size of   *)
(* the request and of the buffer.                                          *)
THEOREM HttpWholeRequestAnswered == Spec => WholeRequestAnswered
<1>1. ASSUME HttpInv, [Next]_vars PROVE [ReadAndAnswer]_vars
  <2> SUFFICES ASSUME received' # received, readableBytes(input) = 0, conn.state = kConnected,
                      WholeRequest(SubSeq(stream, received + 1, received'))
               PROVE  Len(replies') = Len(replies) + 1 /\ replies'[Len(replies')].n # 0
    BY Zenon DEF ReadAndAnswer
  <2>1. PICK n \in 1..(Len(stream) - received) : HandleReadData(n)
    BY <1>1, Zenon DEF Next, HandleReadError, HandleReadEof, Flush, vars
  <2>2. received' = received + n
    BY <2>1 DEF HandleReadData
  <2> QED
    BY <1>1, <2>1, <2>2, WholeStep
<1> QED
  BY <1>1, HttpInvariant, PTL DEF Spec, WholeRequestAnswered

-----------------------------------------------------------------------------
(* The order of the answers.                                               *)

Methods == {Http11, Http10}
Blank(s, k) == s[k - 1] = "crlf" /\ s[k] = "crlf"
Lines(s, p) == {i \in 1..p : s[i] \in Methods}

\* What a peer that speaks HTTP sends: behind a request line comes an empty
\* line before the next request line does.
RequestsApart(s) ==
    \A i, j \in DOMAIN s : i < j /\ s[i] \in Methods /\ s[j] \in Methods =>
        \E k \in (i + 2)..(j - 1) : Blank(s, k)

\* The parser was thrown away with a request in it whose end is not read.
Half(s, p) ==
    \E i \in 1..p : s[i] \in Methods /\ \A k \in (i + 2)..p : ~Blank(s, k)

\* As long as the connection is open, each request line that was taken out
\* of the buffer has its answer, unless half a request was taken out.
OrderInv ==
    /\ RepliesInOrder
    /\ conn.state = kConnected => \/ Cardinality(Lines(stream, retrieved)) = Len(replies)
                                  \/ Half(stream, retrieved)

\* A request line adds one to the number, and the rest of the request does
\* not add to it.
LEMMA NextNumber ==
    ASSUME NEW s \in Seq(Tokens), RequestsApart(s), NEW p \in Nat, NEW d \in Seq(Tokens),
           p + Len(d) <= Len(s), \A i \in 1..Len(d) : d[i] = s[p + i], ParseRequest(d).over,
           NEW t, t = ParseRequest(d).taken
    PROVE  /\ Cardinality(Lines(s, p + t)) = Cardinality(Lines(s, p)) + 1
           /\ Cardinality(Lines(s, p + 1)) = Cardinality(Lines(s, p)) + 1
<1>1. /\ t \in 0..Len(d) /\ t > 0 /\ Len(d) \in Nat /\ Len(d) >= 2 /\ d[1] \in Methods
      /\ \A j \in HeaderEnds(d) : t <= j
  BY ParseOK DEF setMethod, Methods
<1>2. s[p + 1] \in Methods /\ p + 1 \in DOMAIN s
  BY <1>1
<1>3. ASSUME NEW j \in (p + 2)..(p + t), s[j] \in Methods PROVE FALSE
  <2>1. j \in DOMAIN s /\ p + 1 < j
    BY <1>1, <1>3
  <2>2. PICK k \in ((p + 1) + 2)..(j - 1) : Blank(s, k)
    BY <1>2, <1>3, <2>1, Zenon DEF RequestsApart
  <2>3. PICK m \in Int : m = k - p
    BY <2>2
  <2>4. m \in 2..Len(d) /\ m - 1 \in 1..Len(d) /\ m < t /\ p + m = k /\ p + (m - 1) = k - 1
    BY <1>1, <1>3, <2>2, <2>3
  <2>5. d[m] = "crlf" /\ d[m - 1] = "crlf"
    <3>1. m \in 1..Len(d)
      BY <2>4
    <3>2. d[m] = s[p + m] /\ d[m - 1] = s[p + (m - 1)]
      BY <2>4, <3>1, Zenon
    <3> QED
      BY <2>2, <2>4, <3>2, Zenon DEF Blank
  <2>6. m \in HeaderEnds(d)
    BY <2>4, <2>5, BlankEnds
  <2> QED
    BY <1>1, <2>4, <2>6
<1>4. Lines(s, p + t) = Lines(s, p) \cup {p + 1} /\ Lines(s, p + 1) = Lines(s, p) \cup {p + 1}
  <2>1. \A i \in 1..(p + t) : s[i] \in Methods => i \in 1..p \/ i = p + 1
    BY <1>1, <1>3
  <2>2. p + 1 \in 1..(p + t) /\ p + 1 \in 1..(p + 1)
    BY <1>1
  <2>3. \A i \in 1..p : i \in 1..(p + t) /\ i \in 1..(p + 1)
    BY <1>1
  <2>4. \A i \in 1..(p + 1) : i \in 1..p \/ i = p + 1
    OBVIOUS
  <2> QED
    BY <1>2, <2>1, <2>2, <2>3, <2>4, Zenon DEF Lines
<1>5. IsFiniteSet(Lines(s, p)) /\ p + 1 \notin Lines(s, p)
  <2>1. IsFiniteSet(1..p)
    BY FS_Interval
  <2>2. Lines(s, p) \subseteq 1..p
    BY DEF Lines
  <2>3. p + 1 \notin 1..p
    OBVIOUS
  <2> QED
    BY <2>1, <2>2, <2>3, FS_Subset
<1>6. Cardinality(Lines(s, p) \cup {p + 1}) = Cardinality(Lines(s, p)) + 1
  BY <1>5, FS_AddElement
<1> QED
  BY <1>4, <1>6, Zenon

\* Nothing that begins with a request line follows half a request.
LEMMA AfterHalf ==
    ASSUME NEW s \in Seq(Tokens), RequestsApart(s), NEW p \in Nat, NEW d \in Seq(Tokens),
           p + Len(d) <= Len(s), \A i \in 1..Len(d) : d[i] = s[p + i], Half(s, p)
    PROVE  ~ParseRequest(d).ok
<1> SUFFICES ASSUME ParseRequest(d).ok PROVE FALSE
  OBVIOUS
<1>1. Len(d) \in Nat /\ Len(d) >= 2 /\ d[1] \in Methods
  BY ParseOK DEF setMethod, Methods
<1>2. s[p + 1] \in Methods /\ p + 1 \in DOMAIN s
  BY <1>1
<1>3. PICK i \in 1..p : s[i] \in Methods /\ \A k \in (i + 2)..p : ~Blank(s, k)
  BY DEF Half
<1>4. i \in DOMAIN s /\ i < p + 1
  BY <1>1, <1>3
<1>5. PICK k \in (i + 2)..((p + 1) - 1) : Blank(s, k)
  BY <1>2, <1>3, <1>4, Zenon DEF RequestsApart
<1>6. k \in (i + 2)..p
  BY <1>5
<1> QED
  BY <1>3, <1>5, <1>6

\* A request line without the end of its request is half a request.
LEMMA BecomesHalf ==
    ASSUME NEW s \in Seq(Tokens), NEW p \in Nat, NEW d \in Seq(Tokens),
           p + Len(d) <= Len(s), \A i \in 1..Len(d) : d[i] = s[p + i],
           ParseRequest(d).ok, ~ParseRequest(d).over, NEW t, t = ParseRequest(d).taken
    PROVE  Half(s, p + t)
<1>1. /\ t \in 0..Len(d) /\ t > 0 /\ Len(d) \in Nat /\ Len(d) >= 2 /\ d[1] \in Methods
      /\ HeaderEnds(d) = {}
  BY ParseOK DEF setMethod, Methods
<1>2. s[p + 1] \in Methods /\ p + 1 \in 1..(p + t)
  BY <1>1
<1>3. ASSUME NEW k \in ((p + 1) + 2)..(p + t), Blank(s, k) PROVE FALSE
  <2>1. PICK m \in Int : m = k - p
    BY <1>3
  <2>2. m \in 2..Len(d) /\ m - 1 \in 1..Len(d) /\ p + m = k /\ p + (m - 1) = k - 1
    BY <1>1, <1>3, <2>1
  <2>3. d[m] = "crlf" /\ d[m - 1] = "crlf"
    <3>1. m \in 1..Len(d)
      BY <2>2
    <3>2. d[m] = s[p + m] /\ d[m - 1] = s[p + (m - 1)]
      BY <2>2, <3>1, Zenon
    <3> QED
      BY <1>3, <2>2, <3>2, Zenon DEF Blank
  <2>4. m \in HeaderEnds(d)
    BY <2>2, <2>3, BlankEnds
  <2> QED
    BY <1>1, <2>4
<1> QED
  BY <1>2, <1>3, Zenon DEF Half

\* A reply behind replies that are in order.
LEMMA OrderKept ==
    ASSUME NEW s \in Seq(ReplyType), \A i \in DOMAIN s : s[i].n \in {0, i}, NEW y \in ReplyType
    PROVE  /\ y.n = Len(s) + 1 => \A i \in DOMAIN Append(s, y) : Append(s, y)[i].n \in {0, i}
           /\ y.n = 0 => \A i \in DOMAIN Append(Append(s, y), y) :
                            Append(Append(s, y), y)[i].n \in {0, i}
<1> DEFINE n == Len(s)
           t == Append(s, y)
           u == Append(t, y)
<1>1. /\ n \in Nat /\ DOMAIN s = 1..n
      /\ t \in Seq(ReplyType) /\ DOMAIN t = 1..(n + 1) /\ Len(t) = n + 1
      /\ t[n + 1] = y /\ \A i \in 1..n : t[i] = s[i]
  OBVIOUS
<1> HIDE DEF t
<1>2. /\ DOMAIN u = 1..(n + 2) /\ u[n + 2] = y /\ \A i \in 1..(n + 1) : u[i] = t[i]
  BY <1>1
<1> HIDE DEF u, n
<1>3. ASSUME y.n = n + 1, NEW i \in DOMAIN t PROVE t[i].n \in {0, i}
  <2>1. i \in 1..n \/ i = n + 1
    BY <1>1, <1>3
  <2> QED
    BY <1>1, <1>3, <2>1
<1>4. ASSUME y.n = 0, NEW i \in DOMAIN u PROVE u[i].n \in {0, i}
  <2>1. i \in 1..n \/ i = n + 1 \/ i = n + 2
    BY <1>1, <1>2, <1>4
  <2>2. CASE i \in 1..n
    <3>1. u[i] = s[i]
      BY <1>1, <1>2, <2>2
    <3> QED
      BY <1>1, <2>2, <3>1
  <2>3. CASE i = n + 1 \/ i = n + 2
    <3>1. u[i] = y
      BY <1>1, <1>2, <2>3
    <3> QED
      BY <1>4, <3>1
  <2> QED
    BY <2>1, <2>2, <2>3
<1> QED
  BY <1>3, <1>4 DEF t, u, n

\* A read keeps the replies in order.
LEMMA OrderRead ==
    ASSUME HttpInv, OrderInv, \A s \in Streams : RequestsApart(s),
           NEW n \in 1..(Len(stream) - received), HandleReadData(n)
    PROVE  OrderInv'
<1> DEFINE y == Reply(0, TRUE)
           m == RequestNumber(retrieved + 1)
<1>1. PICK d : d = SubSeq(stream, retrieved + 1, received + n)
  OBVIOUS
<1>2. /\ d \in Seq(Tokens) /\ Len(d) = (received + n) - retrieved
      /\ \A i \in 1..Len(d) : d[i] = stream[retrieved + i]
      /\ retrieved' = retrieved + ParseRequest(d).taken /\ stream' = stream
      /\ \E r \in OnMessage(conn, d) : conn' = r.k /\ replies' = r.replies
  BY <1>1, ReadOK
<1>3. /\ stream \in Seq(Tokens) /\ RequestsApart(stream) /\ received \in Nat /\ retrieved \in Nat
      /\ retrieved + Len(d) <= Len(stream) /\ replies \in Seq(ReplyType)
  BY <1>2, StreamsAssumption DEF HttpInv, TypeOK, ReplyType
<1>4. /\ \A i \in DOMAIN replies : replies[i].n \in {0, i}
      /\ conn.state = kConnected => \/ Cardinality(Lines(stream, retrieved)) = Len(replies)
                                    \/ Half(stream, retrieved)
  BY DEF OrderInv, RepliesInOrder
<1>5. PICK r \in OnMessage(conn, d) : conn' = r.k /\ replies' = r.replies
  BY <1>2
<1>6. /\ conn.state # kConnected => replies' = replies /\ conn'.state # kConnected
      /\ conn.state = kConnected =>
            \/ conn'.state # kConnected /\ replies' = Append(Append(replies, y), y)
            \/ /\ ParseRequest(d).over
               /\ \E closing \in BOOLEAN : replies' = Append(replies, Reply(m, closing))
            \/ ParseRequest(d).ok /\ ~ParseRequest(d).over /\ replies' = replies
  BY <1>2, <1>5, AnswersOK
<1>7. m \in Nat /\ m = Cardinality(Lines(stream, retrieved + 1))
  <2>1. retrieved + 1 \in Nat
    BY <1>3
  <2> QED
    BY <2>1, Numbers DEF RequestNumber, Lines, Methods
<1>8. y \in ReplyType /\ y.n = 0
  BY DEF Reply, ReplyType
<1> HIDE DEF y, m
<1>9. CASE conn.state # kConnected
  BY <1>4, <1>6, <1>9, Zenon DEF OrderInv, RepliesInOrder
<1>10. CASE conn'.state # kConnected /\ replies' = Append(Append(replies, y), y)
  <2>1. \A i \in DOMAIN replies' : replies'[i].n \in {0, i}
    BY <1>3, <1>4, <1>8, <1>10, OrderKept, Zenon
  <2> QED
    BY <1>10, <2>1, Zenon DEF OrderInv, RepliesInOrder
<1>11. ASSUME conn.state = kConnected, ParseRequest(d).over, NEW closing \in BOOLEAN,
              replies' = Append(replies, Reply(m, closing))
       PROVE  OrderInv'
  <2>1. ParseRequest(d).ok
    BY <1>2, <1>11, ParseOK
  <2>2. ~Half(stream, retrieved)
    BY <1>2, <1>3, <2>1, AfterHalf
  <2>3. /\ Cardinality(Lines(stream, retrieved')) = Cardinality(Lines(stream, retrieved)) + 1
        /\ m = Cardinality(Lines(stream, retrieved)) + 1
    <3>1. PICK t : t = ParseRequest(d).taken
      OBVIOUS
    <3>2. /\ Cardinality(Lines(stream, retrieved + t)) = Cardinality(Lines(stream, retrieved)) + 1
          /\ Cardinality(Lines(stream, retrieved + 1)) = Cardinality(Lines(stream, retrieved)) + 1
      BY <1>2, <1>3, <1>11, <3>1, NextNumber, Zenon
    <3> QED
      BY <1>2, <1>7, <3>1, <3>2, Zenon
  <2>4. m = Len(replies) + 1 /\ Cardinality(Lines(stream', retrieved')) = Len(replies) + 1
    BY <1>2, <1>4, <1>11, <2>2, <2>3, Zenon
  <2>5. Reply(m, closing).n = m
    BY DEF Reply
  <2>6. Reply(m, closing) \in ReplyType
    BY <1>7 DEF Reply, ReplyType
  <2>7. \A i \in DOMAIN replies' : replies'[i].n \in {0, i}
    BY <1>3, <1>4, <1>11, <2>4, <2>5, <2>6, OrderKept, Zenon
  <2>8. Len(replies') = Len(replies) + 1
    <3>1. \A x : Len(Append(replies, x)) = Len(replies) + 1
      BY <1>3
    <3> QED
      BY <1>11, <3>1, Zenon
  <2> QED
    BY <2>4, <2>7, <2>8, Zenon DEF OrderInv, RepliesInOrder
<1>12. CASE ParseRequest(d).ok /\ ~ParseRequest(d).over /\ replies' = replies
  <2>1. Half(stream', retrieved')
    BY <1>2, <1>3, <1>12, BecomesHalf
  <2> QED
    BY <1>4, <1>12, <2>1, Zenon DEF OrderInv, RepliesInOrder
<1> QED
  BY <1>6, <1>9, <1>10, <1>11, <1>12, Zenon

\* So does every step.
LEMMA OrderNext ==
    ASSUME HttpInv, OrderInv, \A s \in Streams : RequestsApart(s), [Next]_vars
    PROVE  OrderInv'
<1>1. ASSUME NEW n \in 1..(Len(stream) - received), HandleReadData(n) PROVE OrderInv'
  BY <1>1, OrderRead
<1>2. CASE HandleReadError \/ HandleReadEof \/ Flush
  <2>1. /\ UNCHANGED <<stream, retrieved, replies>>
        /\ conn'.state = kConnected => conn.state = kConnected
    BY <1>2, StateKept
  <2> QED
    BY <2>1, Zenon DEF OrderInv, RepliesInOrder
<1>3. CASE UNCHANGED vars
  BY <1>3, Zenon DEF vars, OrderInv, RepliesInOrder
<1> QED
  BY <1>1, <1>2, <1>3, Zenon DEF Next

(* When every peer puts an empty line between two request lines, the i-th  *)
(* answer is the answer to the i-th request or an error, also when the     *)
(* parser is thrown away with half a request in it.                        *)
THEOREM HttpRepliesInOrder ==
    ASSUME \A s \in Streams : RequestsApart(s)
    PROVE  Spec => []RepliesInOrder
<1>1. ASSUME Init PROVE OrderInv
  <2>1. replies = <<>> /\ retrieved = 0
    BY <1>1 DEF Init
  <2>2. Lines(stream, retrieved) = {}
    BY <2>1 DEF Lines
  <2>3. Cardinality(Lines(stream, retrieved)) = 0
    BY <2>2, FS_EmptySet
  <2> QED
    BY <2>1, <2>3 DEF OrderInv, RepliesInOrder
<1>2. HttpInv /\ OrderInv /\ [Next]_vars => OrderInv'
  BY OrderNext
<1>3. OrderInv => RepliesInOrder
  BY DEF OrderInv
<1> QED
  BY <1>1, <1>2, <1>3, HttpInvariant, PTL DEF Spec
=============================================================================
