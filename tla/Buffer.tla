-------------------------------- MODULE Buffer --------------------------------
(***************************************************************************)
(* class Buffer (resoure/Buffer.h, Buffer.cpp) as operators on one buffer: *)
(*                                                                         *)
(*   readerIndex_, writeIndex_                                             *)
(*   cells   what was written at begin()+0, begin()+1, ... up to the       *)
(*           capacity; cells from buffer_.size() on are what reserve() has *)
(*           added                                                         *)
(*                                                                         *)
(* A cell holds one unit of the stream, of which kInitialSize fit.         *)
(***************************************************************************)
EXTENDS Integers, Sequences

CONSTANTS kCheapPrepend, kInitialSize,
          ExtraSize,     \* sizeof(extrabuf)
          SizeMax,       \* size_t counts modulo SizeMax + 1
          Unwritten      \* what a cell holds at first

ASSUME BufferAssumption ==
    /\ kCheapPrepend \in Nat /\ kInitialSize \in Nat \ {0}
    /\ SizeMax \in Nat /\ 2 * (kCheapPrepend + kInitialSize) < SizeMax
    /\ ExtraSize \in Nat /\ 2 * ExtraSize < SizeMax

\* buffer_.size(): nothing resizes the vector.
Size == kCheapPrepend + kInitialSize

NewBuffer == [readerIndex_ |-> kCheapPrepend, writeIndex_ |-> kCheapPrepend,
              cells |-> [i \in 1..Size |-> Unwritten]]

readableBytes(b) == b.writeIndex_ - b.readerIndex_
writableBytes(b) == (Size - b.writeIndex_) % (SizeMax + 1)
prependableBytes(b) == b.readerIndex_
Readable(b) == SubSeq(b.cells, b.readerIndex_ + 1, b.writeIndex_)

retrieveall(b) == [b EXCEPT !.readerIndex_ = kCheapPrepend, !.writeIndex_ = kCheapPrepend]

\* retrieve, and retrieveUntil(peek() + len)
retrieve(b, len) ==
    IF len < readableBytes(b) THEN [b EXCEPT !.readerIndex_ = @ + len] ELSE retrieveall(b)

\* std::copy to begin() + at: what goes past the capacity is not in cells.
CopyTo(cells, at, data) ==
    [i \in DOMAIN cells |-> IF i \in (at + 1)..(at + Len(data)) THEN data[i - at] ELSE cells[i]]

\* buffer_.reserve(n): a new block gets the first size() cells of the old one.
reserve(b, n) ==
    IF n <= Len(b.cells) THEN b
    ELSE [b EXCEPT !.cells = [i \in 1..n |-> IF i <= Size THEN b.cells[i] ELSE Unwritten]]

\* makeSpace: reserve() adds capacity and leaves size() alone.
makeSpace(b, len) ==
    IF writableBytes(b) + prependableBytes(b) < len + kCheapPrepend
    THEN reserve(b, b.writeIndex_ + len)
    ELSE [readerIndex_ |-> kCheapPrepend,
          writeIndex_ |-> kCheapPrepend + readableBytes(b),
          cells |-> CopyTo(b.cells, kCheapPrepend, Readable(b))]

\* append, ensureWritableBytes, hasWritten
append(b, data) ==
    LET room == IF writableBytes(b) < Len(data) THEN makeSpace(b, Len(data)) ELSE b
    IN [room EXCEPT !.cells = CopyTo(room.cells, room.writeIndex_, data),
                    !.writeIndex_ = room.writeIndex_ + Len(data)]

\* readFd: readv refuses a length that has wrapped around (EINVAL).
ReadvFails(b) == writableBytes(b) > SizeMax \div 2

\* readFd: how much readv may return; extrabuf is offered to it only when
\* less than its size is writable.
ReadvLimit(b) ==
    writableBytes(b) + (IF writableBytes(b) < ExtraSize THEN ExtraSize ELSE 0)

\* Mutant: what does not fit stays in extrabuf.
readFd_NoExtra(b, data) ==
    LET w == writableBytes(b)
        n == IF Len(data) <= w THEN Len(data) ELSE w
    IN [b EXCEPT !.cells = CopyTo(b.cells, b.writeIndex_, SubSeq(data, 1, n)),
                 !.writeIndex_ = @ + n]

\* readFd, when readv returned data: up to writableBytes() units go into the
\* buffer, the others into extrabuf and from there behind them.
readFd(b, data) ==
    LET w == writableBytes(b) IN
    IF Len(data) <= w
    THEN [b EXCEPT !.cells = CopyTo(b.cells, b.writeIndex_, data),
                   !.writeIndex_ = @ + Len(data)]
    ELSE append([b EXCEPT !.cells = CopyTo(b.cells, b.writeIndex_, SubSeq(data, 1, w)),
                          !.writeIndex_ = Size],
                SubSeq(data, w + 1, Len(data)))

\* The picture in Buffer.h: 0 <= readerIndex <= writerIndex <= size.
Ordered(b) == 0 <= b.readerIndex_ /\ b.readerIndex_ <= b.writeIndex_ /\ b.writeIndex_ <= Size
=============================================================================
