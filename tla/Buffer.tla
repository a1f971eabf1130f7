------------------------------- MODULE Buffer --------------------------------
(***************************************************************************)
(* chaonet::Buffer (Buffer.h, Buffer.cpp) as operators on a record with    *)
(* the vector, the two indices, and whether every assert has held.  The    *)
(* indices count from 0, as in the code.  A byte is a pair, so that two    *)
(* bytes of a stream are never the same; Junk is one nobody wrote.         *)
(***************************************************************************)
EXTENDS Naturals, Sequences, FiniteSetsExt

CONSTANTS kCheapPrepend, kInitialSize, kExtraSize

ASSUME BufferAssumption == /\ kCheapPrepend \in Nat \ {0}
                           /\ kInitialSize \in Nat /\ kExtraSize \in Nat \ {0}

Byte == Nat \X Nat
Junk == <<0, 0>>

NewBuffer == [buffer_ |-> [i \in 1..(kCheapPrepend + kInitialSize) |-> Junk],
              readerIndex_ |-> kCheapPrepend, writerIndex_ |-> kCheapPrepend,
              ok |-> TRUE]

ReadableBytes(b) == b.writerIndex_ - b.readerIndex_
WritableBytes(b) == Len(b.buffer_) - b.writerIndex_
PrependableBytes(b) == b.readerIndex_

\* The bytes from peek() to beginWrite().
Readable(b) == SubSeq(b.buffer_, b.readerIndex_ + 1, b.writerIndex_)

Asserted(b, holds) == [b EXCEPT !.ok = @ /\ holds]

\* std::copy() of data to position at, and the vector grown to n bytes.
Copied(v, data, at) ==
  SubSeq(v, 1, at) \o data \o SubSeq(v, at + Len(data) + 1, Len(v))
Resized(v, n) == v \o [i \in 1..(n - Len(v)) |-> Junk]

\* A plausible mistake: the room for a prepend() counts as free.
MakeSpaceExact(b, len) ==
  IF WritableBytes(b) + PrependableBytes(b) < len
    THEN [b EXCEPT !.buffer_ = Resized(@, b.writerIndex_ + len)]
    ELSE [b EXCEPT !.buffer_ = Copied(@, Readable(b), kCheapPrepend),
                   !.readerIndex_ = kCheapPrepend,
                   !.writerIndex_ = kCheapPrepend + ReadableBytes(b)]

\* makeSpace(): grow, or move the readable bytes to the front.
MakeSpace(b, len) ==
  IF WritableBytes(b) + PrependableBytes(b) < len + kCheapPrepend
    THEN [b EXCEPT !.buffer_ = Resized(@, b.writerIndex_ + len)]
    ELSE [Asserted(b, kCheapPrepend < b.readerIndex_) EXCEPT
             !.buffer_ = Copied(@, Readable(b), kCheapPrepend),
             !.readerIndex_ = kCheapPrepend,
             !.writerIndex_ = kCheapPrepend + ReadableBytes(b)]

EnsureWritableBytes(b, len) ==
  LET y == IF WritableBytes(b) < len THEN MakeSpace(b, len) ELSE b
  IN  Asserted(y, WritableBytes(y) >= len)

HasWritten(b, len) == [b EXCEPT !.writerIndex_ = @ + len]

Append_(b, data) ==
  LET y == EnsureWritableBytes(b, Len(data))
  IN  HasWritten([y EXCEPT !.buffer_ = Copied(@, data, y.writerIndex_)], Len(data))

Prepend(b, data) ==
  LET at == b.readerIndex_ - Len(data)
  IN  IF Len(data) > PrependableBytes(b) THEN Asserted(b, FALSE)
      ELSE [b EXCEPT !.readerIndex_ = at, !.buffer_ = Copied(@, data, at)]

Retrieve(b, len) ==
  [Asserted(b, len <= ReadableBytes(b)) EXCEPT !.readerIndex_ = @ + len]

\* shrink() gives the bytes a new vector and leaves the indices as they were.
Shrink(b, reserve) ==
  [b EXCEPT !.buffer_ = Copied(Resized(<<>>, kCheapPrepend + ReadableBytes(b) + reserve),
                               Readable(b), kCheapPrepend)]

\* A plausible mistake: what readv() put into extrabuf is not appended.
ReadFdDropsExtra(b, data) ==
  LET n == Min({Len(data), WritableBytes(b)})
  IN  HasWritten([b EXCEPT !.buffer_ = Copied(@, SubSeq(data, 1, n), b.writerIndex_)], n)

\* How many of the units that have arrived readv() takes.
ReadLen(b, arrived) == Min({arrived, WritableBytes(b) + kExtraSize})

\* readFd(): data beyond the writable bytes goes through extrabuf.
ReadFd(b, data) ==
  LET writable == WritableBytes(b)
      n == Min({Len(data), writable})
      y == HasWritten([b EXCEPT !.buffer_ = Copied(@, SubSeq(data, 1, n), b.writerIndex_)], n)
  IN  IF Len(data) <= writable THEN y ELSE Append_(y, SubSeq(data, n + 1, Len(data)))

Buffers == [buffer_ : Seq(Byte), readerIndex_ : Nat, writerIndex_ : Nat, ok : BOOLEAN]

\* The indices are in order and inside the vector.
IsBuffer(b) == /\ b.readerIndex_ \in 0..b.writerIndex_
               /\ b.writerIndex_ \in 0..Len(b.buffer_)
==============================================================================
