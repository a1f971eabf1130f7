----------------------- MODULE ProtobufCodecLiteProofs -----------------------
(***************************************************************************)
(* TLAPS proofs about Buffer and ProtobufCodecLite, for any sizes of the   *)
(* buffer, the headers and the kernel's buffer, and any payloads: no       *)
(* assert fails, and what is on its way is one whole frame per message.    *)
(***************************************************************************)
EXTENDS ProtobufCodecLite, SequenceTheorems, TLAPS

------------------------------------------------------------------------------
(* Facts about sequences of bytes.                                          *)

(* The lesser of two numbers.                                               *)
LEMMA LeastOfTwo ==
  ASSUME NEW a \in Int, NEW b \in Int
  PROVE  Min({a, b}) = IF a <= b THEN a ELSE b
<1> DEFINE S == {a, b}
           m == IF a <= b THEN a ELSE b
<1>1. m \in S /\ \A y \in S : m =< y
  OBVIOUS
<1>2. \A x \in S : (\A y \in S : x =< y) => x = m
  OBVIOUS
<1> HIDE DEF S, m
<1>3. LET c == CHOOSE x \in S : \A y \in S : x =< y
      IN  c \in S /\ \A y \in S : c =< y
  BY <1>1, Zenon
<1>4. Min(S) \in S /\ \A y \in S : Min(S) =< y
  BY <1>3 DEF Min
<1>5. Min(S) = m
  BY <1>2, <1>4
<1> QED
  BY <1>5 DEF S, m

(* Two sequences of the same length and elements.                           *)
LEMMA SameSeq ==
  ASSUME NEW S, NEW s \in Seq(S), NEW t \in Seq(S), Len(s) = Len(t),
         \A i \in 1..Len(s) : s[i] = t[i]
  PROVE  s = t
  BY SeqEqual

\* t is s from place m to place n, x is s followed by t, or by t and u.
IsCut(t, s, m, n) ==
  /\ t \in Seq(Byte) /\ Len(t) = n - m + 1
  /\ \A i \in 1..(n - m + 1) : t[i] = s[m + i - 1]
IsJoin(x, s, t) ==
  /\ x \in Seq(Byte) /\ Len(x) = Len(s) + Len(t)
  /\ \A i \in 1..Len(s) : x[i] = s[i]
  /\ \A i \in 1..Len(t) : x[Len(s) + i] = t[i]
IsJoin3(x, s, t, u) ==
  /\ x \in Seq(Byte) /\ Len(x) = Len(s) + Len(t) + Len(u)
  /\ \A i \in 1..Len(s) : x[i] = s[i]
  /\ \A i \in 1..Len(t) : x[Len(s) + i] = t[i]
  /\ \A i \in 1..Len(u) : x[Len(s) + Len(t) + i] = u[i]

(* SubSeq() inside the sequence.                                            *)
LEMMA CutProps ==
  ASSUME NEW s \in Seq(Byte), NEW m \in 1..Len(s) + 1, NEW n \in (m - 1)..Len(s)
  PROVE  IsCut(SubSeq(s, m, n), s, m, n)
  BY DEF IsCut

(* The elements of two sequences joined ...                                 *)
LEMMA JoinProps ==
  ASSUME NEW s \in Seq(Byte), NEW t \in Seq(Byte)
  PROVE  IsJoin(s \o t, s, t)
  BY DEF IsJoin

(* ... and of three.                                                        *)
LEMMA JoinThree ==
  ASSUME NEW a \in Seq(Byte), NEW b \in Seq(Byte), NEW c \in Seq(Byte)
  PROVE  IsJoin3(a \o b \o c, a, b, c)
<1>1. PICK d : d = a \o b
  OBVIOUS
<1>2. IsJoin(d, a, b)
  BY <1>1, JoinProps
<1>3. PICK x : x = d \o c
  OBVIOUS
<1>4. IsJoin(x, d, c)
  <2>1. d \in Seq(Byte)
    BY <1>2 DEF IsJoin
  <2> QED
    BY <1>3, <2>1, JoinProps
<1>5. Len(a) \in Nat /\ Len(b) \in Nat /\ Len(c) \in Nat
  OBVIOUS
<1>6. IsJoin3(x, a, b, c)
  BY <1>2, <1>4, <1>5 DEF IsJoin, IsJoin3
<1> QED
  BY <1>1, <1>3, <1>6

\* u is v with data copied to position at, or v grown to n bytes.
IsCopied(u, v, data, at) ==
  /\ u \in Seq(Byte) /\ Len(u) = Len(v)
  /\ \A i \in 1..at : u[i] = v[i]
  /\ \A i \in 1..Len(data) : u[at + i] = data[i]
  /\ \A i \in (at + Len(data) + 1)..Len(v) : u[i] = v[i]
IsResized(u, v, n) == /\ u \in Seq(Byte) /\ Len(u) = n
                      /\ \A i \in 1..Len(v) : u[i] = v[i]

(* std::copy() inside the vector.                                           *)
LEMMA CopiedProps ==
  ASSUME NEW v \in Seq(Byte), NEW data \in Seq(Byte), NEW at \in Nat,
         at + Len(data) <= Len(v)
  PROVE  IsCopied(Copied(v, data, at), v, data, at)
<1>0. PICK n \in Nat, m \in Nat : n = Len(data) /\ m = Len(v)
  OBVIOUS
<1>1. PICK a : a = SubSeq(v, 1, at)
  OBVIOUS
<1>a. a \in Seq(Byte) /\ Len(a) = at /\ \A i \in 1..at : a[i] = v[i]
  <2>2. 1 \in 1..Len(v) + 1 /\ at \in (1 - 1)..Len(v) /\ at - 1 + 1 = at
    BY <1>0
  <2>3. IsCut(a, v, 1, at)
    BY <1>1, <2>2, CutProps
  <2> QED
    BY <2>2, <2>3 DEF IsCut
<1>2. PICK c : c = SubSeq(v, at + Len(data) + 1, Len(v))
  OBVIOUS
<1>c. /\ c \in Seq(Byte) /\ Len(c) = m - at - n
      /\ \A i \in 1..(m - at - n) : c[i] = v[at + n + i]
  <2>1. PICK k : k = at + Len(data) + 1
    OBVIOUS
  <2>2. k \in 1..Len(v) + 1 /\ Len(v) \in (k - 1)..Len(v) /\ k = at + n + 1
    BY <1>0, <2>1
  <2>3. IsCut(c, v, k, Len(v))
    BY <1>2, <2>1, <2>2, CutProps
  <2>4. m - k + 1 = m - at - n /\ \A i \in 1..(m - k + 1) : k + i - 1 = at + n + i
    BY <1>0, <2>2
  <2> QED
    BY <1>0, <2>3, <2>4 DEF IsCut
<1>3. PICK x : x = a \o data \o c
  OBVIOUS
<1>4. /\ x \in Seq(Byte) /\ Len(x) = at + n + Len(c)
      /\ \A i \in 1..at : x[i] = a[i]
      /\ \A i \in 1..n : x[at + i] = data[i]
      /\ \A i \in 1..Len(c) : x[at + n + i] = c[i]
  <2>1. Len(a) = at /\ Len(data) = n
    BY <1>0, <1>a
  <2>2. IsJoin3(x, a, data, c)
    BY <1>a, <1>c, <1>3, JoinThree
  <2> QED
    BY <2>1, <2>2 DEF IsJoin3
<1>5. Copied(v, data, at) = x
  BY <1>1, <1>2, <1>3 DEF Copied
<1>6. Len(x) = m /\ at + n <= m
  BY <1>0, <1>c, <1>4
<1>7. \A i \in (at + n + 1)..m : x[i] = v[i]
  <2> SUFFICES ASSUME NEW i \in (at + n + 1)..m PROVE x[i] = v[i]
    OBVIOUS
  <2>1. PICK j \in 1..(m - at - n) : at + n + j = i
    <3>1. i - at - n \in 1..(m - at - n) /\ at + n + (i - at - n) = i
      BY <1>0
    <3> QED
      BY <3>1
  <2> QED
    BY <1>c, <1>4, <2>1
<1>8. IsCopied(x, v, data, at)
  BY <1>0, <1>a, <1>4, <1>6, <1>7 DEF IsCopied
<1> QED
  BY <1>5, <1>8

(* resize() to at least the size there is.                                  *)
LEMMA ResizedProps ==
  ASSUME NEW v \in Seq(Byte), NEW n \in Nat, Len(v) <= n
  PROVE  IsResized(Resized(v, n), v, n)
<1> DEFINE t == [i \in 1..(n - Len(v)) |-> Junk]
<1>0. n - Len(v) \in Nat /\ Junk \in Byte
  BY DEF Junk, Byte
<1>1. t \in Seq(Byte) /\ Len(t) = n - Len(v)
  BY <1>0
<1> HIDE DEF t
<1>2. IsJoin(v \o t, v, t) /\ Resized(v, n) = v \o t
  BY <1>1, JoinProps DEF Resized, t
<1>3. Len(v \o t) = n
  BY <1>0, <1>1, <1>2 DEF IsJoin
<1> QED
  BY <1>2, <1>3 DEF IsJoin, IsResized

------------------------------------------------------------------------------
(* The operations of Buffer: the indices, the asserts, and what is read.    *)

\* A buffer whose indices are in order.
Good(b) == b \in Buffers /\ IsBuffer(b)

(* The members of such a buffer, and the two sizes.                         *)
LEMMA GoodFields ==
  ASSUME NEW b, Good(b)
  PROVE  /\ b.buffer_ \in Seq(Byte) /\ Len(b.buffer_) \in Nat
         /\ b.readerIndex_ \in Nat /\ b.writerIndex_ \in Nat /\ b.ok \in BOOLEAN
         /\ b.readerIndex_ <= b.writerIndex_ /\ b.writerIndex_ <= Len(b.buffer_)
         /\ ReadableBytes(b) = b.writerIndex_ - b.readerIndex_ /\ ReadableBytes(b) \in Nat
         /\ WritableBytes(b) = Len(b.buffer_) - b.writerIndex_ /\ WritableBytes(b) \in Nat
<1>1. /\ b.buffer_ \in Seq(Byte) /\ b.readerIndex_ \in Nat /\ b.writerIndex_ \in Nat
      /\ b.ok \in BOOLEAN
  BY DEF Good, Buffers
<1>2. Len(b.buffer_) \in Nat
  BY <1>1
<1> QED
  BY <1>1, <1>2 DEF Good, IsBuffer, ReadableBytes, WritableBytes

(* What is read is the vector between the indices.                          *)
LEMMA ReadableProps ==
  ASSUME NEW b, Good(b)
  PROVE  /\ Readable(b) \in Seq(Byte) /\ Len(Readable(b)) = ReadableBytes(b)
         /\ \A i \in 1..ReadableBytes(b) : Readable(b)[i] = b.buffer_[b.readerIndex_ + i]
<1>0. PICK r \in Nat, w \in Nat, v \in Seq(Byte) :
        r = b.readerIndex_ /\ w = b.writerIndex_ /\ v = b.buffer_
  BY GoodFields
<1>1. PICK n \in Nat : n = ReadableBytes(b) /\ n = w - r /\ r <= w /\ w <= Len(v)
  BY <1>0, GoodFields
<1>2. PICK s, k : s = SubSeq(v, r + 1, w) /\ k = r + 1
  OBVIOUS
<1>3. k \in 1..Len(v) + 1 /\ w \in (k - 1)..Len(v) /\ w - k + 1 = n
  BY <1>1, <1>2
<1>4. IsCut(s, v, k, w)
  BY <1>2, <1>3, CutProps
<1>5. \A i \in 1..n : k + i - 1 = r + i
  BY <1>2
<1>6. s \in Seq(Byte) /\ Len(s) = n /\ \A i \in 1..n : s[i] = v[r + i]
  BY <1>3, <1>4, <1>5 DEF IsCut
<1>7. Readable(b) = s
  BY <1>0, <1>2 DEF Readable
<1> QED
  BY <1>0, <1>1, <1>6, <1>7

(* A record with the members of a buffer.                                   *)
LEMMA MakeGood ==
  ASSUME NEW v \in Seq(Byte), NEW r \in Nat, NEW w \in Nat, NEW k \in BOOLEAN,
         r <= w, w <= Len(v),
         NEW y, y = [buffer_ |-> v, readerIndex_ |-> r, writerIndex_ |-> w, ok |-> k]
  PROVE  Good(y)
<1>1. y \in Buffers
  BY DEF Buffers
<1>2. y.buffer_ = v /\ y.readerIndex_ = r /\ y.writerIndex_ = w /\ Len(v) \in Nat
  OBVIOUS
<1> QED
  BY <1>1, <1>2 DEF Good, IsBuffer

(* A buffer reads as s when its bytes are those of s.                       *)
LEMMA ReadsAs ==
  ASSUME NEW b, Good(b), NEW s \in Seq(Byte), Len(s) = ReadableBytes(b),
         \A i \in 1..ReadableBytes(b) : b.buffer_[b.readerIndex_ + i] = s[i]
  PROVE  Readable(b) = s
<1>1. PICK t, n : t = Readable(b) /\ n = ReadableBytes(b)
  OBVIOUS
<1>2. t \in Seq(Byte) /\ Len(t) = n /\ \A i \in 1..n : t[i] = s[i]
  BY <1>1, ReadableProps
<1>3. t = s
  BY <1>1, <1>2, SameSeq
<1> QED
  BY <1>1, <1>3

(* A buffer is the record of its members.                                   *)
LEMMA GoodRecord ==
  ASSUME NEW b, Good(b)
  PROVE  b = [buffer_ |-> b.buffer_, readerIndex_ |-> b.readerIndex_,
              writerIndex_ |-> b.writerIndex_, ok |-> b.ok]
  BY DEF Good, Buffers

\* makeSpace() or ensureWritableBytes() on b has left y.
Roomy(y, b, len) ==
  /\ Good(y) /\ y.ok = b.ok /\ WritableBytes(y) >= len
  /\ Readable(y) = Readable(b) /\ ReadableBytes(y) = ReadableBytes(b)
  /\ y.readerIndex_ \in {b.readerIndex_, kCheapPrepend}

(* makeSpace() makes the room by growing or by moving: its assert holds,    *)
(* and the bytes to read are the same.                                      *)
LEMMA MakeSpaceProps ==
  ASSUME NEW b, Good(b), NEW len \in Nat, WritableBytes(b) < len
  PROVE  Roomy(MakeSpace(b, len), b, len)
<1>0. PICK v \in Seq(Byte), r \in Nat, w \in Nat, k \in BOOLEAN, m \in Nat :
        /\ v = b.buffer_ /\ r = b.readerIndex_ /\ w = b.writerIndex_ /\ k = b.ok
        /\ m = Len(v) /\ r <= w /\ w <= m
        /\ ReadableBytes(b) = w - r /\ WritableBytes(b) = m - w
  BY GoodFields
<1>1. b = [buffer_ |-> v, readerIndex_ |-> r, writerIndex_ |-> w, ok |-> k]
  BY <1>0, GoodRecord
<1>2. PICK s, n : s = Readable(b) /\ n = w - r
  OBVIOUS
<1>3. s \in Seq(Byte) /\ Len(s) = n /\ n \in Nat /\ \A i \in 1..n : s[i] = v[r + i]
  BY <1>0, <1>2, ReadableProps
<1>4. PICK y : y = MakeSpace(b, len)
  OBVIOUS
<1>5. kCheapPrepend \in Nat
  BY BufferAssumption
<1>6. CASE (m - w) + r < len + kCheapPrepend
  <2>1. PICK u : u = Resized(v, w + len)
    OBVIOUS
  <2>2. u \in Seq(Byte) /\ Len(u) = w + len /\ \A i \in 1..m : u[i] = v[i]
    <3>1. w + len \in Nat /\ Len(v) <= w + len
      <4>1. m - w < len
        BY <1>0
      <4> QED
        BY <1>0, <4>1
    <3>2. IsResized(u, v, w + len)
      BY <2>1, <3>1, ResizedProps
    <3> QED
      BY <1>0, <3>2 DEF IsResized
  <2>3. y = [buffer_ |-> u, readerIndex_ |-> r, writerIndex_ |-> w, ok |-> k]
    <3>1. y = [b EXCEPT !.buffer_ = u]
      BY <1>0, <1>4, <1>6, <2>1 DEF MakeSpace, PrependableBytes
    <3> QED
      BY <1>1, <3>1
  <2>4. Good(y)
    <3>1. w <= Len(u)
      BY <2>2
    <3> QED
      BY <1>0, <2>2, <2>3, <3>1, MakeGood
  <2>5. y.buffer_ = u /\ y.readerIndex_ = r /\ y.writerIndex_ = w /\ y.ok = k
    BY <2>3
  <2>6. ReadableBytes(y) = n /\ WritableBytes(y) = len
    BY <1>2, <2>2, <2>5 DEF ReadableBytes, WritableBytes
  <2>7. \A i \in 1..n : r + i \in 1..m
    BY <1>0, <1>2, SMTT(30)
  <2>8. Readable(y) = s
    BY <1>3, <2>2, <2>4, <2>5, <2>6, <2>7, ReadsAs
  <2> QED
    BY <1>0, <1>2, <1>4, <2>4, <2>5, <2>6, <2>8 DEF Roomy
<1>7. CASE ~((m - w) + r < len + kCheapPrepend)
  <2>0. PICK c \in Nat : c = kCheapPrepend
    BY <1>5
  <2>1. PICK u : u = Copied(v, s, c)
    OBVIOUS
  <2>2. c < r /\ c + n <= m /\ m - (c + n) >= len
    <3>1. m - w < len /\ (m - w) + r >= len + c
      BY <1>0, <1>7, <2>0, SMTT(30)
    <3>2. c < r
      BY <3>1
    <3>3. n = w - r /\ n \in Nat
      BY <1>2, <1>3
    <3>4. m - n >= len + c
      BY <3>1, <3>3
    <3> QED
      BY <3>2, <3>3, <3>4
  <2>3. u \in Seq(Byte) /\ Len(u) = m /\ \A i \in 1..n : u[c + i] = s[i]
    <3>1. c + Len(s) <= Len(v)
      BY <1>0, <1>3, <2>2
    <3>2. IsCopied(u, v, s, c)
      BY <1>3, <2>1, <3>1, CopiedProps
    <3> QED
      BY <1>0, <1>3, <3>2 DEF IsCopied
  <2>4. y = [buffer_ |-> u, readerIndex_ |-> c, writerIndex_ |-> c + n, ok |-> k]
    <3>1. y = [Asserted(b, c < r) EXCEPT !.buffer_ = Copied(@, s, c),
                                         !.readerIndex_ = c, !.writerIndex_ = c + n]
      BY <1>0, <1>2, <1>4, <1>7, <2>0 DEF MakeSpace, PrependableBytes
    <3>2. Asserted(b, c < r) = b
      BY <1>1, <2>2 DEF Asserted
    <3>3. y = [b EXCEPT !.buffer_ = u, !.readerIndex_ = c, !.writerIndex_ = c + n]
      BY <1>0, <2>1, <3>1, <3>2
    <3> QED
      BY <1>1, <3>3
  <2>5. Good(y)
    <3>1. c + n \in Nat /\ c <= c + n /\ c + n <= Len(u)
      BY <1>3, <2>2, <2>3
    <3> QED
      BY <2>3, <2>4, <3>1, MakeGood
  <2>6. y.buffer_ = u /\ y.readerIndex_ = c /\ y.writerIndex_ = c + n /\ y.ok = k
    BY <2>4
  <2>7. ReadableBytes(y) = n /\ WritableBytes(y) = m - (c + n)
    BY <1>3, <2>3, <2>6 DEF ReadableBytes, WritableBytes
  <2>8. Readable(y) = s
    BY <1>3, <2>3, <2>5, <2>6, <2>7, ReadsAs
  <2> QED
    BY <1>0, <1>2, <1>4, <2>0, <2>2, <2>5, <2>6, <2>7, <2>8 DEF Roomy
<1> QED
  BY <1>6, <1>7

(* ensureWritableBytes() makes the room it was asked for.                   *)
LEMMA EnsureProps ==
  ASSUME NEW b, Good(b), NEW len \in Nat
  PROVE  Roomy(EnsureWritableBytes(b, len), b, len)
<1>1. PICK y : y = IF WritableBytes(b) < len THEN MakeSpace(b, len) ELSE b
  OBVIOUS
<1>2. Roomy(y, b, len)
  <2>1. CASE WritableBytes(b) < len
    BY <1>1, <2>1, MakeSpaceProps
  <2>2. CASE ~(WritableBytes(b) < len)
    <3>1. y = b /\ WritableBytes(b) \in Nat
      BY <1>1, <2>2, GoodFields
    <3>2. WritableBytes(b) >= len
      BY <2>2, <3>1
    <3> QED
      BY <3>1, <3>2 DEF Roomy
  <2> QED
    BY <2>1, <2>2
<1>3. Asserted(y, WritableBytes(y) >= len) = y
  <2>1. WritableBytes(y) >= len /\ y.ok \in BOOLEAN /\ Good(y)
    BY <1>2, GoodFields DEF Roomy
  <2>2. y = [buffer_ |-> y.buffer_, readerIndex_ |-> y.readerIndex_,
             writerIndex_ |-> y.writerIndex_, ok |-> y.ok]
    BY <2>1, GoodRecord
  <2>3. (y.ok /\ WritableBytes(y) >= len) = y.ok
    BY <2>1
  <2> QED
    BY <2>2, <2>3 DEF Asserted
<1>4. EnsureWritableBytes(b, len) = y
  BY <1>1, <1>3 DEF EnsureWritableBytes
<1> QED
  BY <1>2, <1>4

(* A sequence cut in two and joined again.                                  *)
LEMMA CutAndJoin ==
  ASSUME NEW s \in Seq(Byte), NEW n \in 0..Len(s)
  PROVE  /\ SubSeq(s, 1, n) \in Seq(Byte) /\ Len(SubSeq(s, 1, n)) = n
         /\ SubSeq(s, n + 1, Len(s)) \in Seq(Byte)
         /\ Len(SubSeq(s, n + 1, Len(s))) = Len(s) - n
         /\ SubSeq(s, 1, n) \o SubSeq(s, n + 1, Len(s)) = s
<1>0. PICK m \in Nat : m = Len(s)
  OBVIOUS
<1>1. PICK a, c, k : a = SubSeq(s, 1, n) /\ c = SubSeq(s, n + 1, Len(s)) /\ k = n + 1
  OBVIOUS
<1>2. 1 \in 1..Len(s) + 1 /\ n \in (1 - 1)..Len(s) /\ n - 1 + 1 = n
  BY <1>0
<1>3. k \in 1..Len(s) + 1 /\ Len(s) \in (k - 1)..Len(s) /\ m - k + 1 = m - n
  BY <1>0, <1>1
<1>4. IsCut(a, s, 1, n)
  BY <1>1, <1>2, CutProps
<1>5. IsCut(c, s, k, Len(s))
  BY <1>1, <1>3, CutProps
<1>6. a \in Seq(Byte) /\ Len(a) = n /\ \A i \in 1..n : a[i] = s[i]
  BY <1>2, <1>4 DEF IsCut
<1>7. \A i \in 1..(m - n) : k + i - 1 = n + i
  BY <1>0, <1>1
<1>8. c \in Seq(Byte) /\ Len(c) = m - n /\ \A i \in 1..(m - n) : c[i] = s[n + i]
  BY <1>0, <1>3, <1>5, <1>7 DEF IsCut
<1>9. PICK x : x = a \o c
  OBVIOUS
<1>10. IsJoin(x, a, c)
  BY <1>6, <1>8, <1>9, JoinProps
<1>11. /\ x \in Seq(Byte) /\ Len(x) = m
       /\ \A i \in 1..n : x[i] = s[i]
       /\ \A i \in 1..(m - n) : x[n + i] = s[n + i]
  <2>1. /\ x \in Seq(Byte) /\ Len(x) = n + (m - n)
        /\ \A i \in 1..n : x[i] = a[i]
        /\ \A i \in 1..(m - n) : x[n + i] = c[i]
    BY <1>6, <1>8, <1>10 DEF IsJoin
  <2>2. n + (m - n) = m
    BY <1>0
  <2>3. \A i \in 1..n : x[i] = s[i]
    BY <1>6, <2>1
  <2>4. \A i \in 1..(m - n) : x[n + i] = s[n + i]
    BY <1>8, <2>1
  <2>5. Len(x) = m
    BY <2>1, <2>2
  <2> QED
    BY <2>1, <2>3, <2>4, <2>5
<1>12. \A i \in 1..m : x[i] = s[i]
  <2> SUFFICES ASSUME NEW i \in 1..m, ~(i \in 1..n) PROVE x[i] = s[i]
    BY <1>11
  <2>1. i - n \in 1..(m - n) /\ n + (i - n) = i
    BY <1>0
  <2> QED
    BY <1>11, <2>1
<1>13. x = s
  BY <1>0, <1>11, <1>12, SameSeq
<1> QED
  BY <1>0, <1>1, <1>6, <1>8, <1>9, <1>13

\* Joining these three is associative, as it always is.
Assoc(a, b, c) == (a \o b) \o c = a \o (b \o c)

(* Joining is associative.                                                  *)
LEMMA JoinAssoc ==
  ASSUME NEW a \in Seq(Byte), NEW b \in Seq(Byte), NEW c \in Seq(Byte)
  PROVE  Assoc(a, b, c)
  BY ConcatAssociative DEF Assoc

\* An operation has put data behind the bytes of b, and left y.
Longer(y, b, data) ==
  /\ Good(y) /\ y.ok = b.ok
  /\ Readable(y) = Readable(b) \o data
  /\ ReadableBytes(y) = ReadableBytes(b) + Len(data)
  /\ y.readerIndex_ \in {b.readerIndex_, kCheapPrepend}

\* std::copy() to beginWrite(), and hasWritten().
Put(b, data) ==
  HasWritten([b EXCEPT !.buffer_ = Copied(@, data, b.writerIndex_)], Len(data))

(* With room for it, data ends up behind what was there.                    *)
LEMMA PutProps ==
  ASSUME NEW b, Good(b), NEW data \in Seq(Byte), Len(data) <= WritableBytes(b)
  PROVE  Longer(Put(b, data), b, data)
<1>0. PICK v \in Seq(Byte), r \in Nat, w \in Nat, k \in BOOLEAN, m \in Nat, l \in Nat :
        /\ v = b.buffer_ /\ r = b.readerIndex_ /\ w = b.writerIndex_ /\ k = b.ok
        /\ m = Len(v) /\ r <= w /\ w <= m /\ l = Len(data)
        /\ ReadableBytes(b) = w - r /\ WritableBytes(b) = m - w
  BY GoodFields, SMTT(30)
<1>1. b = [buffer_ |-> v, readerIndex_ |-> r, writerIndex_ |-> w, ok |-> k]
  BY <1>0, GoodRecord
<1>2. PICK s, n : s = Readable(b) /\ n = w - r
  OBVIOUS
<1>3. s \in Seq(Byte) /\ Len(s) = n /\ n \in Nat /\ \A i \in 1..n : s[i] = v[r + i]
  BY <1>0, <1>2, ReadableProps
<1>4. PICK u, y : u = Copied(v, data, w) /\ y = Put(b, data)
  OBVIOUS
<1>5. /\ u \in Seq(Byte) /\ Len(u) = m
      /\ \A i \in 1..w : u[i] = v[i]
      /\ \A i \in 1..l : u[w + i] = data[i]
  <2>1. w + Len(data) <= Len(v)
    BY <1>0
  <2>2. IsCopied(u, v, data, w)
    BY <1>4, <2>1, CopiedProps
  <2> QED
    BY <1>0, <2>2 DEF IsCopied
<1>6. y = [buffer_ |-> u, readerIndex_ |-> r, writerIndex_ |-> w + l, ok |-> k]
  <2>1. y = [[b EXCEPT !.buffer_ = Copied(@, data, w)] EXCEPT !.writerIndex_ = @ + l]
    BY <1>0, <1>4 DEF Put, HasWritten
  <2> QED
    BY <1>1, <1>4, <2>1
<1>7. w + l \in Nat /\ r <= w + l /\ w + l <= Len(u)
  <2>1. l <= m - w
    BY <1>0
  <2> QED
    BY <1>0, <1>5, <2>1
<1>8. Good(y)
  BY <1>5, <1>6, <1>7, MakeGood
<1>9. y.buffer_ = u /\ y.readerIndex_ = r /\ y.writerIndex_ = w + l /\ y.ok = k
  BY <1>6
<1>10. ReadableBytes(y) = n + l
  BY <1>0, <1>2, <1>9 DEF ReadableBytes
<1>11. PICK x : x = s \o data
  OBVIOUS
<1>12. /\ x \in Seq(Byte) /\ Len(x) = n + l
       /\ \A i \in 1..n : x[i] = s[i]
       /\ \A i \in 1..l : x[n + i] = data[i]
  <2>1. IsJoin(x, s, data)
    BY <1>3, <1>11, JoinProps
  <2> QED
    BY <1>0, <1>3, <2>1 DEF IsJoin
<1>13. ASSUME NEW i \in 1..(n + l) PROVE u[r + i] = x[i]
  <2>1. CASE i \in 1..n
    <3>1. r + i \in 1..w
      BY <1>0, <1>2, <2>1, SMTT(30)
    <3> QED
      BY <1>3, <1>5, <1>12, <2>1, <3>1
  <2>2. CASE ~(i \in 1..n)
    <3>1. PICK j \in Nat : j = i - n /\ j \in 1..l
      BY <1>3, <2>2
    <3>2. r + i = w + j /\ i = n + j
      BY <1>2, <1>3, <3>1
    <3> QED
      BY <1>5, <1>12, <3>1, <3>2, SMTT(30)
  <2> QED
    BY <2>1, <2>2
<1>14. Readable(y) = x
  BY <1>8, <1>9, <1>10, <1>12, <1>13, ReadsAs
<1> QED
  BY <1>0, <1>2, <1>4, <1>8, <1>9, <1>10, <1>11, <1>14 DEF Longer

(* append(): whatever the room, the bytes are put behind the others.        *)
LEMMA AppendProps ==
  ASSUME NEW b, Good(b), NEW data \in Seq(Byte)
  PROVE  Longer(Append_(b, data), b, data)
<1>1. PICK y : y = EnsureWritableBytes(b, Len(data))
  OBVIOUS
<1>2. Roomy(y, b, Len(data)) /\ Len(data) \in Nat
  BY <1>1, EnsureProps
<1>3. Good(y) /\ Len(data) <= WritableBytes(y)
  <2>1. Good(y) /\ WritableBytes(y) >= Len(data) /\ WritableBytes(y) \in Nat
    BY <1>2, GoodFields DEF Roomy
  <2> QED
    BY <1>2, <2>1
<1>4. Longer(Put(y, data), y, data)
  BY <1>3, PutProps
<1>5. Append_(b, data) = Put(y, data)
  BY <1>1 DEF Append_, Put
<1>6. Longer(Put(y, data), b, data)
  BY <1>2, <1>4 DEF Roomy, Longer
<1> QED
  BY <1>5, <1>6

(* prepend() of bytes there is room for.                                    *)
LEMMA PrependProps ==
  ASSUME NEW b, Good(b), NEW data \in Seq(Byte), Len(data) <= b.readerIndex_
  PROVE  /\ Good(Prepend(b, data)) /\ Prepend(b, data).ok = b.ok
         /\ Readable(Prepend(b, data)) = data \o Readable(b)
<1>0. PICK v \in Seq(Byte), r \in Nat, w \in Nat, k \in BOOLEAN, m \in Nat, l \in Nat :
        /\ v = b.buffer_ /\ r = b.readerIndex_ /\ w = b.writerIndex_ /\ k = b.ok
        /\ m = Len(v) /\ r <= w /\ w <= m /\ l = Len(data) /\ l <= r
        /\ ReadableBytes(b) = w - r
  BY GoodFields, SMTT(30)
<1>1. b = [buffer_ |-> v, readerIndex_ |-> r, writerIndex_ |-> w, ok |-> k]
  BY <1>0, GoodRecord
<1>2. PICK s, n : s = Readable(b) /\ n = w - r
  OBVIOUS
<1>3. s \in Seq(Byte) /\ Len(s) = n /\ n \in Nat /\ \A i \in 1..n : s[i] = v[r + i]
  BY <1>0, <1>2, ReadableProps
<1>4. PICK at \in Nat : at = r - l
  BY <1>0
<1>5. PICK u, y : u = Copied(v, data, at) /\ y = Prepend(b, data)
  OBVIOUS
<1>6. /\ u \in Seq(Byte) /\ Len(u) = m
      /\ \A i \in 1..l : u[at + i] = data[i]
      /\ \A i \in (r + 1)..m : u[i] = v[i]
  <2>1. at + Len(data) <= Len(v) /\ at + l + 1 = r + 1
    BY <1>0, <1>4, SMTT(30)
  <2>2. IsCopied(u, v, data, at)
    BY <1>5, <2>1, CopiedProps
  <2> QED
    BY <1>0, <2>1, <2>2 DEF IsCopied
<1>7. y = [buffer_ |-> u, readerIndex_ |-> at, writerIndex_ |-> w, ok |-> k]
  <2>1. y = [b EXCEPT !.readerIndex_ = at, !.buffer_ = Copied(@, data, at)]
    <3>1. ~(Len(data) > PrependableBytes(b)) /\ b.readerIndex_ - Len(data) = at
      BY <1>0, <1>4 DEF PrependableBytes
    <3> QED
      BY <1>5, <3>1 DEF Prepend
  <2> QED
    BY <1>1, <1>5, <2>1
<1>8. at <= w /\ w <= Len(u)
  BY <1>0, <1>4, <1>6
<1>9. Good(y)
  BY <1>6, <1>7, <1>8, MakeGood
<1>10. y.buffer_ = u /\ y.readerIndex_ = at /\ y.writerIndex_ = w /\ y.ok = k
  BY <1>7
<1>11. ReadableBytes(y) = l + n
  <2>1. ReadableBytes(y) = w - at
    BY <1>10 DEF ReadableBytes
  <2> QED
    BY <1>2, <1>4, <2>1
<1>12. PICK x : x = data \o s
  OBVIOUS
<1>13. /\ x \in Seq(Byte) /\ Len(x) = l + n
       /\ \A i \in 1..l : x[i] = data[i]
       /\ \A i \in 1..n : x[l + i] = s[i]
  <2>1. IsJoin(x, data, s)
    BY <1>3, <1>12, JoinProps
  <2> QED
    BY <1>0, <1>3, <2>1 DEF IsJoin
<1>14. ASSUME NEW i \in 1..(l + n) PROVE u[at + i] = x[i]
  <2>1. CASE i \in 1..l
    BY <1>6, <1>13, <2>1
  <2>2. CASE ~(i \in 1..l)
    <3>1. PICK j \in Nat : j = i - l /\ j \in 1..n
      BY <1>3, <2>2
    <3>2. at + i = r + j /\ i = l + j
      BY <1>4, <3>1
    <3>3. r + j \in (r + 1)..m
      <4>1. w <= m
        BY <1>0
      <4> QED
        BY <1>2, <3>1, <4>1
    <3>4. u[r + j] = v[r + j]
      BY <1>6, <3>3
    <3>5. s[j] = v[r + j] /\ x[l + j] = s[j]
      BY <1>3, <1>13, <3>1
    <3> QED
      BY <3>2, <3>4, <3>5
  <2> QED
    BY <2>1, <2>2
<1>15. Readable(y) = x
  BY <1>9, <1>10, <1>11, <1>13, <1>14, ReadsAs
<1> QED
  BY <1>0, <1>2, <1>5, <1>9, <1>10, <1>12, <1>15

(* retrieve() of bytes that are there takes them from the front.            *)
LEMMA RetrieveProps ==
  ASSUME NEW b, Good(b), NEW l \in Nat, l <= ReadableBytes(b)
  PROVE  /\ Good(Retrieve(b, l)) /\ Retrieve(b, l).ok = b.ok
         /\ Readable(Retrieve(b, l)) = SubSeq(Readable(b), l + 1, Len(Readable(b)))
<1>0. PICK v \in Seq(Byte), r \in Nat, w \in Nat, k \in BOOLEAN, m \in Nat :
        /\ v = b.buffer_ /\ r = b.readerIndex_ /\ w = b.writerIndex_ /\ k = b.ok
        /\ m = Len(v) /\ r <= w /\ w <= m
        /\ ReadableBytes(b) = w - r
  BY GoodFields
<1>1. b = [buffer_ |-> v, readerIndex_ |-> r, writerIndex_ |-> w, ok |-> k]
  BY <1>0, GoodRecord
<1>2. PICK s, n : s = Readable(b) /\ n = w - r
  OBVIOUS
<1>3. s \in Seq(Byte) /\ Len(s) = n /\ n \in Nat /\ \A i \in 1..n : s[i] = v[r + i]
  BY <1>0, <1>2, ReadableProps
<1>4. PICK y : y = Retrieve(b, l)
  OBVIOUS
<1>5. y = [buffer_ |-> v, readerIndex_ |-> r + l, writerIndex_ |-> w, ok |-> k]
  <2>1. (k /\ l <= ReadableBytes(b)) = k
    OBVIOUS
  <2>2. Asserted(b, l <= ReadableBytes(b)) = b
    BY <1>0, <1>1, <2>1 DEF Asserted
  <2>3. y = [b EXCEPT !.readerIndex_ = @ + l]
    BY <1>4, <2>2 DEF Retrieve
  <2> QED
    BY <1>1, <2>3
<1>6. r + l \in Nat /\ r + l <= w /\ w <= Len(v) /\ l <= n
  BY <1>0, <1>2
<1>7. Good(y)
  BY <1>5, <1>6, MakeGood
<1>8. y.buffer_ = v /\ y.readerIndex_ = r + l /\ y.writerIndex_ = w /\ y.ok = k
  BY <1>5
<1>9. ReadableBytes(y) = n - l
  BY <1>0, <1>2, <1>8, SMTT(30) DEF ReadableBytes
<1>10. PICK x, q : x = SubSeq(s, l + 1, Len(s)) /\ q = l + 1
  OBVIOUS
<1>11. x \in Seq(Byte) /\ Len(x) = n - l /\ \A i \in 1..(n - l) : x[i] = s[l + i]
  <2>1. q \in 1..Len(s) + 1 /\ Len(s) \in (q - 1)..Len(s) /\ n - q + 1 = n - l
    BY <1>3, <1>6, <1>10
  <2>2. IsCut(x, s, q, Len(s))
    BY <1>3, <1>10, <2>1, CutProps
  <2>3. \A i \in 1..(n - l) : q + i - 1 = l + i
    BY <1>3, <1>10
  <2> QED
    BY <1>3, <2>1, <2>2, <2>3 DEF IsCut
<1>12. ASSUME NEW i \in 1..(n - l) PROVE v[(r + l) + i] = x[i]
  <2>1. l + i \in 1..n /\ (r + l) + i = r + (l + i)
    BY <1>3, <1>6
  <2> QED
    BY <1>3, <1>11, <2>1
<1>13. Readable(y) = x
  BY <1>7, <1>8, <1>9, <1>11, <1>12, ReadsAs
<1> QED
  BY <1>0, <1>2, <1>4, <1>7, <1>8, <1>10, <1>13

(* readFd(): what fits is put in place, the rest through extrabuf.          *)
LEMMA ReadFdProps ==
  ASSUME NEW b, Good(b), NEW data \in Seq(Byte)
  PROVE  Longer(ReadFd(b, data), b, data)
<1>0. PICK l \in Nat, w \in Nat, n \in Nat :
        /\ l = Len(data) /\ w = WritableBytes(b) /\ n = Min({l, w})
        /\ n = IF l <= w THEN l ELSE w
  <2>1. PICK l \in Nat, w \in Nat : l = Len(data) /\ w = WritableBytes(b)
    BY GoodFields
  <2>2. Min({l, w}) = IF l <= w THEN l ELSE w
    BY LeastOfTwo
  <2> QED
    BY <2>1, <2>2
<1>1. n \in 0..l /\ n <= w
  BY <1>0
<1>2. PICK a, c : a = SubSeq(data, 1, n) /\ c = SubSeq(data, n + 1, Len(data))
  OBVIOUS
<1>3. a \in Seq(Byte) /\ Len(a) = n /\ c \in Seq(Byte) /\ a \o c = data /\ Len(c) = l - n
  BY <1>0, <1>1, <1>2, CutAndJoin
<1>4. PICK y : y = Put(b, a)
  OBVIOUS
<1>5. Longer(y, b, a)
  BY <1>0, <1>1, <1>3, <1>4, PutProps
<1>6. ReadFd(b, data) = IF l <= w THEN y ELSE Append_(y, c)
  BY <1>0, <1>2, <1>3, <1>4 DEF ReadFd, Put
<1>7. CASE l <= w
  <2>1. n = l /\ ReadFd(b, data) = y
    BY <1>0, <1>6, <1>7
  <2>2. a = data
    BY <1>0, <1>2, <2>1
  <2> QED
    BY <1>5, <2>1, <2>2
<1>8. CASE ~(l <= w)
  <2>1. Good(y)
    BY <1>5 DEF Longer
  <2>2. Longer(Append_(y, c), y, c)
    BY <1>3, <2>1, AppendProps
  <2>3. PICK z : z = Append_(y, c)
    OBVIOUS
  <2>4. Readable(b) \in Seq(Byte) /\ ReadableBytes(b) \in Nat
    BY ReadableProps, GoodFields
  <2>5. (Readable(b) \o a) \o c = Readable(b) \o data
    <3>1. PICK r : r = Readable(b) /\ r \in Seq(Byte)
      BY <2>4
    <3>2. Assoc(r, a, c)
      BY <1>3, <3>1, JoinAssoc
    <3> QED
      BY <1>3, <3>1, <3>2 DEF Assoc
  <2>6. ReadableBytes(z) = ReadableBytes(b) + Len(data)
    BY <1>0, <1>3, <1>5, <2>2, <2>3, <2>4, SMTT(30) DEF Longer
  <2>7. Readable(z) = Readable(b) \o data
    BY <1>5, <2>2, <2>3, <2>5 DEF Longer
  <2>8. Good(z) /\ z.ok = b.ok /\ z.readerIndex_ \in {b.readerIndex_, kCheapPrepend}
    BY <1>5, <2>2, <2>3 DEF Longer
  <2>9. Longer(z, b, data)
    BY <2>6, <2>7, <2>8 DEF Longer
  <2> QED
    BY <1>6, <1>8, <2>3, <2>9
<1> QED
  BY <1>7, <1>8

(* shrink() keeps the bytes where the indices still find them.              *)
LEMMA ShrinkProps ==
  ASSUME NEW b, Good(b)
  PROVE  /\ Shrink(b, 0) \in Buffers /\ Shrink(b, 0).ok = b.ok
         /\ b.readerIndex_ = kCheapPrepend =>
              Good(Shrink(b, 0)) /\ Readable(Shrink(b, 0)) = Readable(b)
<1>0. PICK v \in Seq(Byte), r \in Nat, w \in Nat, k \in BOOLEAN :
        /\ v = b.buffer_ /\ r = b.readerIndex_ /\ w = b.writerIndex_ /\ k = b.ok
        /\ r <= w /\ ReadableBytes(b) = w - r
  BY GoodFields
<1>1. b = [buffer_ |-> v, readerIndex_ |-> r, writerIndex_ |-> w, ok |-> k]
  BY <1>0, GoodRecord
<1>2. PICK s, n : s = Readable(b) /\ n = w - r
  OBVIOUS
<1>3. s \in Seq(Byte) /\ Len(s) = n /\ n \in Nat
  BY <1>0, <1>2, ReadableProps
<1>4. PICK c \in Nat : c = kCheapPrepend
  BY BufferAssumption
<1>5. PICK e, u, y : e = Resized(<<>>, c + n) /\ u = Copied(e, s, c) /\ y = Shrink(b, 0)
  OBVIOUS
<1>6. e \in Seq(Byte) /\ Len(e) = c + n
  <2>1. <<>> \in Seq(Byte) /\ Len(<<>>) = 0 /\ c + n \in Nat /\ Len(<<>>) <= c + n
    BY <1>3
  <2>2. IsResized(e, <<>>, c + n)
    BY <1>5, <2>1, ResizedProps
  <2> QED
    BY <2>2 DEF IsResized
<1>7. u \in Seq(Byte) /\ Len(u) = c + n /\ \A i \in 1..n : u[c + i] = s[i]
  <2>1. c + Len(s) <= Len(e)
    BY <1>3, <1>6
  <2>2. IsCopied(u, e, s, c)
    BY <1>3, <1>5, <1>6, <2>1, CopiedProps
  <2> QED
    BY <1>3, <1>6, <2>2 DEF IsCopied
<1>8. y = [buffer_ |-> u, readerIndex_ |-> r, writerIndex_ |-> w, ok |-> k]
  <2>1. kCheapPrepend + ReadableBytes(b) + 0 = c + n
    BY <1>0, <1>2, <1>3, <1>4
  <2>2. y = [b EXCEPT !.buffer_ = u]
    BY <1>2, <1>4, <1>5, <2>1 DEF Shrink
  <2> QED
    BY <1>1, <2>2
<1>9. y \in Buffers /\ y.ok = k
  BY <1>7, <1>8 DEF Buffers
<1>10. ASSUME r = c PROVE Good(y) /\ Readable(y) = s
  <2>1. w = c + n /\ w <= Len(u)
    BY <1>2, <1>7, <1>10
  <2>2. Good(y)
    BY <1>0, <1>7, <1>8, <2>1, MakeGood
  <2>3. y.buffer_ = u /\ y.readerIndex_ = r /\ y.writerIndex_ = w
    BY <1>8
  <2>4. ReadableBytes(y) = n
    BY <1>2, <2>3 DEF ReadableBytes
  <2> QED
    BY <1>3, <1>7, <1>10, <2>2, <2>3, <2>4, ReadsAs
<1> QED
  BY <1>0, <1>2, <1>4, <1>5, <1>9, <1>10

(* A new buffer is empty.                                                   *)
LEMMA NewBufferProps ==
  /\ Good(NewBuffer) /\ NewBuffer.ok = TRUE /\ NewBuffer.readerIndex_ = kCheapPrepend
  /\ Readable(NewBuffer) = <<>> /\ ReadableBytes(NewBuffer) = 0
<1>1. PICK c \in Nat, m \in Nat : c = kCheapPrepend /\ m = kCheapPrepend + kInitialSize /\ c <= m
  BY BufferAssumption
<1>2. PICK v : v = [i \in 1..m |-> Junk]
  OBVIOUS
<1>3. v \in Seq(Byte) /\ Len(v) = m
  BY <1>2 DEF Junk, Byte
<1>4. PICK y : y = NewBuffer
  OBVIOUS
<1>5. y = [buffer_ |-> v, readerIndex_ |-> c, writerIndex_ |-> c, ok |-> TRUE]
  BY <1>1, <1>2, <1>4 DEF NewBuffer
<1>6. Good(y)
  <2>1. c <= c /\ c <= Len(v) /\ TRUE \in BOOLEAN
    BY <1>1, <1>3
  <2> QED
    BY <1>3, <1>5, <2>1, MakeGood
<1>7. y.ok = TRUE /\ y.readerIndex_ = c /\ y.writerIndex_ = c
  BY <1>5
<1>8. ReadableBytes(y) = 0
  BY <1>7 DEF ReadableBytes
<1>9. Readable(y) = <<>>
  <2>1. <<>> \in Seq(Byte) /\ Len(<<>>) = 0
    OBVIOUS
  <2> QED
    <3>1. \A i \in 1..ReadableBytes(y) : y.buffer_[y.readerIndex_ + i] = <<>>[i]
      BY <1>8
    <3> QED
      BY <1>6, <1>8, <2>1, <3>1, ReadsAs
<1> QED
  BY <1>1, <1>4, <1>6, <1>7, <1>8, <1>9

------------------------------------------------------------------------------
(* fillEmptyBuffer() makes the frame of a message.                          *)

\* s is bytes from..to of the frame of message n.
AreBytes(s, n, from, to) ==
  /\ s \in Seq(Byte) /\ Len(s) = to - from + 1
  /\ \A i \in 1..(to - from + 1) : s[i] = <<n, from + i - 1>>

(* The bytes of a frame are a sequence.                                     *)
LEMMA BytesProps ==
  ASSUME NEW n \in Nat, NEW from \in Nat, NEW to \in Nat, from <= to + 1
  PROVE  AreBytes(Bytes(n, from, to), n, from, to)
<1>1. PICK l \in Nat : l = to - from + 1
  OBVIOUS
<1>2. PICK s : s = [i \in 1..l |-> <<n, from + i - 1>>]
  OBVIOUS
<1>3. \A i \in 1..l : <<n, from + i - 1>> \in Byte
  <2>1. \A i \in 1..l : from + i - 1 \in Nat
    OBVIOUS
  <2> QED
    BY <2>1 DEF Byte
<1>4. s \in Seq(Byte) /\ Len(s) = l /\ \A i \in 1..l : s[i] = <<n, from + i - 1>>
  <2>1. s \in [1..l -> Byte] /\ \A i \in 1..l : s[i] = <<n, from + i - 1>>
    BY <1>2, <1>3, Zenon
  <2>2. s \in Seq(Byte) /\ Len(s) = l
    BY <2>1
  <2> QED
    BY <2>1, <2>2
<1>5. Bytes(n, from, to) = s
  BY <1>1, <1>2 DEF Bytes
<1> QED
  BY <1>1, <1>4, <1>5 DEF AreBytes

\* Bytes a..b followed by the bytes from d to c are the bytes a..c.
Continues(n, a, b, d, c) == Bytes(n, a, b) \o Bytes(n, d, c) = Bytes(n, a, c)

(* Two parts of a frame that meet are one part.                             *)
LEMMA BytesJoin ==
  ASSUME NEW n \in Nat, NEW a \in Nat, NEW b \in Nat, NEW c \in Nat,
         a <= b + 1, b <= c, NEW d, d = b + 1
  PROVE  Continues(n, a, b, d, c)
<1>0. PICK s, t, u, x : s = Bytes(n, a, b) /\ t = Bytes(n, d, c) /\ u = Bytes(n, a, c)
                        /\ x = s \o t
  OBVIOUS
<1>1. PICK l \in Nat, m \in Nat : l = b - a + 1 /\ m = c - d + 1 /\ l + m = c - a + 1
  BY <1>0
<1>2. d \in Nat /\ d <= c + 1 /\ a <= c + 1
  BY <1>0
<1>3. AreBytes(s, n, a, b) /\ AreBytes(t, n, d, c) /\ AreBytes(u, n, a, c)
  BY <1>0, <1>2, BytesProps
<1>4. /\ s \in Seq(Byte) /\ Len(s) = l /\ \A i \in 1..l : s[i] = <<n, a + i - 1>>
      /\ t \in Seq(Byte) /\ Len(t) = m /\ \A i \in 1..m : t[i] = <<n, d + i - 1>>
      /\ u \in Seq(Byte) /\ Len(u) = l + m /\ \A i \in 1..(l + m) : u[i] = <<n, a + i - 1>>
  BY <1>1, <1>3 DEF AreBytes
<1>5. IsJoin(x, s, t)
  BY <1>0, <1>4, JoinProps
<1>6. /\ x \in Seq(Byte) /\ Len(x) = l + m
      /\ \A i \in 1..l : x[i] = s[i]
      /\ \A i \in 1..m : x[l + i] = t[i]
  BY <1>4, <1>5 DEF IsJoin
<1>7. ASSUME NEW i \in 1..(l + m) PROVE x[i] = u[i]
  <2>1. CASE i \in 1..l
    BY <1>4, <1>6, <2>1
  <2>2. CASE ~(i \in 1..l)
    <3>1. PICK j \in Nat : j = i - l /\ j \in 1..m
      BY <2>2
    <3>2. i = l + j /\ d + j - 1 = a + i - 1
      BY <1>0, <1>1, <3>1
    <3>3. x[i] = <<n, d + j - 1>>
      BY <1>4, <1>6, <3>1, <3>2
    <3> QED
      BY <1>4, <3>2, <3>3
  <2> QED
    BY <2>1, <2>2
<1>8. x = u
  BY <1>4, <1>6, <1>7, SameSeq
<1> QED
  BY <1>0, <1>8 DEF Continues

(* The constants are numbers, and the header fits in front.                 *)
LEMMA Sizes ==
  /\ kHeaderLen \in Nat /\ kHeaderLen > 0 /\ kChecksumLen \in Nat /\ kChecksumLen > 0
  /\ kMaxMessageLen \in Nat /\ TagLen \in Nat /\ SndCap \in Nat
  /\ MaxSends \in Nat /\ MaxShrinks \in Nat
  /\ kCheapPrepend \in Nat /\ kHeaderLen <= kCheapPrepend /\ kExtraSize \in Nat /\ kExtraSize > 0
  BY BufferAssumption, CodecAssumption

(* An assert that holds changes nothing.                                    *)
LEMMA AssertedTrue ==
  ASSUME NEW b, Good(b), NEW e, e = TRUE
  PROVE  Asserted(b, e) = b
<1>1. b = [buffer_ |-> b.buffer_, readerIndex_ |-> b.readerIndex_,
           writerIndex_ |-> b.writerIndex_, ok |-> b.ok] /\ b.ok \in BOOLEAN
  BY GoodRecord, GoodFields
<1>2. (b.ok /\ e) = b.ok
  BY <1>1
<1> QED
  BY <1>1, <1>2 DEF Asserted

(* serializeToBuffer() puts the payload behind what is there.               *)
LEMMA SerializeProps ==
  ASSUME NEW b, Good(b), NEW n \in Nat, NEW size \in Nat
  PROVE  Longer(SerializeToBuffer(b, n, size), b,
                Bytes(n, kHeaderLen + TagLen + 1, kHeaderLen + TagLen + size))
<1>1. PICK y, d : /\ y = EnsureWritableBytes(b, size + kChecksumLen)
                  /\ d = Bytes(n, kHeaderLen + TagLen + 1, kHeaderLen + TagLen + size)
  OBVIOUS
<1>2. PICK from \in Nat, to \in Nat :
        /\ from = kHeaderLen + TagLen + 1 /\ to = kHeaderLen + TagLen + size
        /\ from <= to + 1 /\ to - from + 1 = size
  BY Sizes
<1>3. d \in Seq(Byte) /\ Len(d) = size
  <2>1. AreBytes(d, n, from, to)
    BY <1>1, <1>2, BytesProps
  <2> QED
    BY <1>2, <2>1 DEF AreBytes
<1>4. Roomy(y, b, size + kChecksumLen)
  <2>1. size + kChecksumLen \in Nat
    BY Sizes
  <2> QED
    BY <1>1, <2>1, EnsureProps
<1>5. Good(y) /\ Len(d) <= WritableBytes(y)
  <2>1. Good(y) /\ WritableBytes(y) >= size + kChecksumLen /\ WritableBytes(y) \in Nat
    BY <1>4, GoodFields DEF Roomy
  <2> QED
    BY <1>3, <2>1, Sizes
<1>6. Longer(Put(y, d), y, d)
  BY <1>3, <1>5, PutProps
<1>7. SerializeToBuffer(b, n, size) = Put(y, d)
  BY <1>1, <1>3 DEF SerializeToBuffer, Put
<1>8. Longer(Put(y, d), b, d)
  BY <1>4, <1>6 DEF Roomy, Longer
<1> QED
  BY <1>1, <1>7, <1>8

(* The frame is whole, the length in front, and no assert fails.            *)
LEMMA FillProps ==
  ASSUME NEW n \in Nat, NEW size \in Nat
  PROVE  /\ Good(FillEmptyBuffer(NewBuffer, n, size))
         /\ FillEmptyBuffer(NewBuffer, n, size).ok = TRUE
         /\ Readable(FillEmptyBuffer(NewBuffer, n, size)) = Frame(n, size)
<1>0. PICK h \in Nat, t \in Nat, p \in Nat, e \in Nat :
        /\ h = kHeaderLen /\ t = h + TagLen /\ p = t + size
        /\ e = kHeaderLen + MessageLen(size) /\ e = p + kChecksumLen
        /\ h <= t /\ t <= p /\ p <= e
  <2>1. MessageLen(size) = TagLen + size + kChecksumLen
    BY DEF MessageLen
  <2> QED
    BY <2>1, Sizes
<1>h. PICK h1 \in Nat, t1 \in Nat, p1 \in Nat : h1 = h + 1 /\ t1 = t + 1 /\ p1 = p + 1
  OBVIOUS
<1>q. /\ kHeaderLen + 1 = h1 /\ kHeaderLen + TagLen = t
      /\ kHeaderLen + TagLen + 1 = t1 /\ kHeaderLen + TagLen + size = p
      /\ kHeaderLen + TagLen + size + 1 = p1
  BY <1>0, <1>h
<1>1. PICK H, T, P, C : /\ H = Bytes(n, 1, h) /\ T = Bytes(n, h1, t)
                        /\ P = Bytes(n, t1, p) /\ C = Bytes(n, p1, e)
  OBVIOUS
<1>2. /\ H \in Seq(Byte) /\ Len(H) = h /\ T \in Seq(Byte)
      /\ P \in Seq(Byte) /\ C \in Seq(Byte)
  <2>1. 1 <= h + 1 /\ h - 1 + 1 = h /\ h1 <= t + 1 /\ t1 <= p + 1 /\ p1 <= e + 1
    BY <1>0, <1>h
  <2>2. AreBytes(H, n, 1, h) /\ AreBytes(T, n, h1, t)
    BY <1>1, <2>1, BytesProps
  <2>3. AreBytes(P, n, t1, p) /\ AreBytes(C, n, p1, e)
    BY <1>1, <2>1, BytesProps
  <2> QED
    BY <2>1, <2>2, <2>3 DEF AreBytes
<1>3. PICK b1, b2, b3 : /\ b1 = Append_(NewBuffer, T) /\ b2 = SerializeToBuffer(b1, n, size)
                        /\ b3 = Append_(b2, C)
  OBVIOUS
<1>4. Longer(b1, NewBuffer, T)
  BY <1>2, <1>3, NewBufferProps, AppendProps
<1>5. Longer(b2, b1, P)
  <2>1. P = Bytes(n, kHeaderLen + TagLen + 1, kHeaderLen + TagLen + size)
    BY <1>1, <1>q
  <2>2. Good(b1)
    BY <1>4 DEF Longer
  <2> QED
    BY <1>3, <2>1, <2>2, SerializeProps
<1>6. Longer(b3, b2, C)
  BY <1>2, <1>3, <1>5, AppendProps DEF Longer
<1>7. Good(b3) /\ b3.ok = TRUE /\ b3.readerIndex_ = kCheapPrepend
  BY <1>4, <1>5, <1>6, NewBufferProps DEF Longer
<1>8. Readable(b3) = Bytes(n, h1, e)
  <2>1. Readable(b1) = T
    <3>1. Readable(b1) = <<>> \o T
      BY <1>4, NewBufferProps DEF Longer
    <3> QED
      BY <1>2, <3>1
  <2>2. Readable(b3) = (T \o P) \o C
    BY <1>5, <1>6, <2>1 DEF Longer
  <2>3. h1 <= t + 1 /\ h1 <= p + 1
    BY <1>0, <1>h
  <2>4. Continues(n, h1, t, t1, p) /\ Continues(n, h1, p, p1, e)
    BY <1>0, <1>h, <2>3, BytesJoin
  <2> QED
    BY <1>1, <2>2, <2>4 DEF Continues
<1>9. ReadableBytes(b3) = MessageLen(size)
  <2>1. h1 <= e + 1 /\ e - h1 + 1 = e - h
    BY <1>0, <1>h
  <2>2. AreBytes(Bytes(n, h1, e), n, h1, e)
    BY <2>1, BytesProps
  <2>3. ReadableBytes(b3) = e - h
    BY <1>7, <1>8, <2>1, <2>2, ReadableProps DEF AreBytes
  <2>4. MessageLen(size) \in Nat
    BY Sizes DEF MessageLen
  <2> QED
    BY <1>0, <2>3, <2>4
<1>10. FillEmptyBuffer(NewBuffer, n, size) = Prepend(b3, H)
  <2>1. Asserted(NewBuffer, ReadableBytes(NewBuffer) = 0) = NewBuffer
    BY NewBufferProps, AssertedTrue
  <2>2. Asserted(b3, ReadableBytes(b3) = MessageLen(size)) = b3
    BY <1>7, <1>9, AssertedTrue
  <2> QED
    BY <1>0, <1>1, <1>3, <1>q, <2>1, <2>2 DEF FillEmptyBuffer
<1>11. /\ Good(Prepend(b3, H)) /\ Prepend(b3, H).ok = b3.ok
       /\ Readable(Prepend(b3, H)) = H \o Readable(b3)
  <2>1. Len(H) <= b3.readerIndex_
    BY <1>0, <1>2, <1>7, Sizes
  <2> QED
    BY <1>2, <1>7, <2>1, PrependProps
<1>12. H \o Bytes(n, h1, e) = Bytes(n, 1, e)
  <2>1. 1 \in Nat /\ 1 <= h + 1 /\ h <= e
    BY <1>0
  <2>2. Continues(n, 1, h, h1, e)
    BY <1>h, <2>1, BytesJoin
  <2> QED
    BY <1>1, <2>2 DEF Continues
<1>13. Frame(n, size) = Bytes(n, 1, e)
  BY <1>0 DEF Frame
<1> QED
  BY <1>7, <1>8, <1>10, <1>11, <1>12, <1>13

------------------------------------------------------------------------------
(* Sequences of frames.                                                     *)

\* Byte i of s is in a frame of message n that begins behind place a.
Placed(s, m, from, to, i, n, a) ==
  /\ n \in from..to /\ a \in Nat /\ i - a \in 1..FrameLen(m[n])
  /\ s[i] = <<n, i - a>>
  /\ a + FrameLen(m[n]) <= Len(s)
  /\ \A j \in 1..FrameLen(m[n]) : s[a + j] = <<n, j>>
  /\ a + FrameLen(m[n]) < Len(s) => s[a + FrameLen(m[n]) + 1] = <<n + 1, 1>>
  /\ a + FrameLen(m[n]) = Len(s) => n = to

(* A frame is never empty.                                                  *)
LEMMA FrameLenProps ==
  ASSUME NEW size \in Nat
  PROVE  FrameLen(size) \in Nat /\ FrameLen(size) > 0
  BY Sizes DEF FrameLen, MessageLen

(* A byte names its message and its place.                                  *)
LEMMA BytePair ==
  ASSUME NEW s \in Seq(Byte), NEW i \in 1..Len(s)
  PROVE  /\ s[i][1] \in Nat /\ s[i][2] \in Nat /\ s[i] = <<s[i][1], s[i][2]>>
<1>1. s[i] \in Byte
  OBVIOUS
<1> QED
  BY <1>1 DEF Byte

(* Every byte of a sequence of frames has its place ...                     *)
LEMMA FramesPlace ==
  ASSUME NEW s \in Seq(Byte), NEW m, NEW from \in Nat, NEW to \in Nat,
         IsFrames(s, m, from, to), NEW i \in 1..Len(s)
  PROVE  \E n, a : Placed(s, m, from, to, i, n, a)
<1>1. PICK n \in Nat, p \in Nat : s[i] = <<n, p>> /\ s[i][1] = n /\ s[i][2] = p
  BY BytePair
<1>2. PICK l : l = FrameLen(m[n])
  OBVIOUS
<1>3. PICK a : a = i - p
  OBVIOUS
<1>4. /\ n \in from..to /\ p \in 1..l /\ a >= 0 /\ a + l <= Len(s)
      /\ \A j \in 1..l : s[a + j] = <<n, j>>
      /\ a + l < Len(s) => s[a + l + 1] = <<n + 1, 1>>
      /\ a + l = Len(s) => n = to
  BY <1>1, <1>2, <1>3 DEF IsFrames
<1>5. Len(s) \in Nat
  OBVIOUS
<1>6. a \in Nat /\ i - a = p
  BY <1>3, <1>4, <1>5
<1>7. Placed(s, m, from, to, i, n, a)
  BY <1>1, <1>2, <1>4, <1>6 DEF Placed
<1> QED
  BY <1>7

(* ... and a sequence in which every byte has is one of frames.             *)
LEMMA MakeFrames ==
  ASSUME NEW s \in Seq(Byte), NEW m, NEW from \in Nat, NEW to \in Nat,
         s = <<>> <=> from > to,
         s # <<>> => s[1] = <<from, 1>>,
         \A i, j \in 1..Len(s) : i <= j => s[i][1] <= s[j][1],
         \A i \in 1..Len(s) : \E n, a : Placed(s, m, from, to, i, n, a)
  PROVE  IsFrames(s, m, from, to)
<1>1. ASSUME NEW i \in 1..Len(s)
      PROVE  LET n == s[i][1]
                 start == i - s[i][2]
                 end == start + FrameLen(m[n])
             IN  /\ n \in from..to /\ s[i][2] \in 1..FrameLen(m[n])
                 /\ start >= 0 /\ end <= Len(s)
                 /\ \A j \in 1..FrameLen(m[n]) : s[start + j] = <<n, j>>
                 /\ end < Len(s) => s[end + 1] = <<n + 1, 1>>
                 /\ end = Len(s) => n = to
  <2>1. PICK n, a : Placed(s, m, from, to, i, n, a)
    BY <1>1
  <2>2. PICK l : l = FrameLen(m[n])
    OBVIOUS
  <2>3. /\ n \in from..to /\ a \in Nat /\ i - a \in 1..l
        /\ s[i] = <<n, i - a>> /\ a + l <= Len(s)
        /\ \A j \in 1..l : s[a + j] = <<n, j>>
        /\ a + l < Len(s) => s[a + l + 1] = <<n + 1, 1>>
        /\ a + l = Len(s) => n = to
    BY <2>1, <2>2 DEF Placed
  <2>4. s[i][1] = n /\ s[i][2] = i - a
    BY <2>3
  <2>5. i - (i - a) = a /\ a >= 0
    <3>1. Len(s) \in Nat
      OBVIOUS
    <3> QED
      BY <2>3, <3>1
  <2> QED
    BY <2>2, <2>3, <2>4, <2>5
<1> QED
  BY <1>1 DEF IsFrames

(* The frame of the next message behind the others.                         *)
LEMMA AddFrame ==
  ASSUME NEW s \in Seq(Byte), NEW m \in Seq(Nat), NEW size \in Nat,
         NEW k \in Nat, k = Len(m) + 1, NEW from \in 1..k,
         IsFrames(s, m, from, Len(m))
  PROVE  IsFrames(s \o Frame(k, size), Append(m, size), from, k)
<1>0. PICK q \in Nat, l \in Nat : q = Len(s) /\ l = FrameLen(size) /\ l > 0
  BY FrameLenProps, SMTT(30)
<1>1. PICK f, x, M : f = Frame(k, size) /\ x = s \o f /\ M = Append(m, size)
  OBVIOUS
<1>2. f \in Seq(Byte) /\ Len(f) = l /\ \A j \in 1..l : f[j] = <<k, j>>
  <2>1. 1 \in Nat /\ 1 <= l + 1 /\ l - 1 + 1 = l /\ \A j \in 1..l : 1 + j - 1 = j
    BY <1>0
  <2>2. f = Bytes(k, 1, l)
    BY <1>0, <1>1 DEF Frame, FrameLen
  <2>3. AreBytes(f, k, 1, l)
    BY <2>1, <2>2, BytesProps
  <2> QED
    BY <2>1, <2>3 DEF AreBytes
<1>3. /\ x \in Seq(Byte) /\ Len(x) = q + l
      /\ \A i \in 1..q : x[i] = s[i]
      /\ \A j \in 1..l : x[q + j] = <<k, j>>
  <2>1. IsJoin(x, s, f)
    BY <1>1, <1>2, JoinProps
  <2> QED
    BY <1>0, <1>2, <2>1 DEF IsJoin
<1>4. PICK c \in Nat : c = Len(m) /\ k = c + 1
  OBVIOUS
<1>5. M[k] = size /\ \A n \in 1..c : M[n] = m[n]
  BY <1>1, <1>4
<1>6. ASSUME NEW i \in 1..(q + l), ~(i \in 1..q)
      PROVE  \E j \in 1..l : i = q + j /\ x[i] = <<k, j>>
  <2>1. i - q \in 1..l /\ q + (i - q) = i
    BY <1>6
  <2> QED
    BY <1>3, <2>1
<1>7. ASSUME NEW i \in 1..q
      PROVE  \E n, a : Placed(s, m, from, c, i, n, a)
  BY <1>0, <1>4, FramesPlace
<1>8. ASSUME NEW i \in 1..q
      PROVE  \E n \in 1..c : x[i][1] = n
  <2>1. PICK n, a : Placed(s, m, from, c, i, n, a)
    BY <1>7
  <2>2. n \in from..c /\ s[i] = <<n, i - a>>
    BY <2>1 DEF Placed
  <2>3. x[i][1] = n
    BY <1>3, <2>2
  <2>4. n \in 1..c
    BY <2>2
  <2> QED
    BY <2>3, <2>4
<1>9. ~(x = <<>>) /\ ~(from > k)
  BY <1>0, <1>3
<1>10. x[1] = <<from, 1>>
  <2>1. CASE q = 0
    <3>1. s = <<>>
      BY <1>0, <2>1, EmptySeq
    <3>2. from > c
      BY <1>4, <3>1 DEF IsFrames
    <3>3. from = k
      BY <1>4, <3>2
    <3>4. x[0 + 1] = <<k, 1>>
      BY <1>0, <1>3, <2>1
    <3> QED
      BY <3>3, <3>4
  <2>2. CASE q # 0
    <3>1. s # <<>> /\ 1 \in 1..q
      BY <1>0, <2>2
    <3> QED
      BY <1>3, <3>1 DEF IsFrames
  <2> QED
    BY <2>1, <2>2
<1>11. ASSUME NEW i \in 1..Len(x), NEW j \in 1..Len(x), i <= j
       PROVE  x[i][1] <= x[j][1]
  <2>0. i \in 1..(q + l) /\ j \in 1..(q + l)
    BY <1>3
  <2>1. CASE j \in 1..q
    <3>1. i \in 1..q
      BY <1>11, <2>0, <2>1
    <3>2. s[i][1] <= s[j][1]
      BY <1>0, <1>11, <2>1, <3>1 DEF IsFrames
    <3> QED
      BY <1>3, <2>1, <3>1, <3>2
  <2>2. CASE ~(j \in 1..q)
    <3>1. x[j][1] = k
      BY <1>6, <2>0, <2>2
    <3>2. x[i][1] \in 1..k
      <4>1. CASE i \in 1..q
        BY <1>4, <1>8, <4>1
      <4>2. CASE ~(i \in 1..q)
        BY <1>4, <1>6, <2>0, <4>2
      <4> QED
        BY <4>1, <4>2
    <3> QED
      BY <3>1, <3>2
  <2> QED
    BY <2>1, <2>2
<1>12. ASSUME NEW i \in 1..Len(x)
       PROVE  \E n, a : Placed(x, M, from, k, i, n, a)
  <2>1. CASE i \in 1..q
    <3>1. PICK n, a : Placed(s, m, from, c, i, n, a)
      BY <1>7, <2>1
    <3>2. PICK g : g = FrameLen(m[n])
      OBVIOUS
    <3>3. /\ n \in from..c /\ a \in Nat /\ i - a \in 1..g
          /\ s[i] = <<n, i - a>> /\ a + g <= q
          /\ \A j \in 1..g : s[a + j] = <<n, j>>
          /\ a + g < q => s[a + g + 1] = <<n + 1, 1>>
          /\ a + g = q => n = c
      BY <1>0, <3>1, <3>2 DEF Placed
    <3>4. n \in 1..c /\ n \in from..k /\ g \in Nat
      <4>1. n \in 1..c /\ n \in from..k
        BY <1>4, <3>3
      <4>2. m[n] \in Nat
        BY <1>4, <4>1
      <4> QED
        BY <3>2, <4>1, <4>2, FrameLenProps
    <3>5. FrameLen(M[n]) = g
      BY <1>5, <3>2, <3>4
    <3>6. \A j \in 1..g : x[a + j] = <<n, j>>
      <4> SUFFICES ASSUME NEW j \in 1..g PROVE x[a + j] = <<n, j>>
        OBVIOUS
      <4>1. a + j \in 1..q
        <5>1. a \in Nat /\ g \in Nat /\ a + g <= q
          BY <3>3, <3>4
        <5> QED
          BY <5>1
      <4> QED
        BY <1>3, <3>3, <4>1
    <3>7. a + g <= q + l /\ a + g # q + l
      BY <1>0, <3>3, <3>4, SMTT(30)
    <3>8. x[a + g + 1] = <<n + 1, 1>>
      <4>1. CASE a + g = q
        <5>1. n + 1 = k /\ 1 \in 1..l
          BY <1>0, <1>4, <3>3, <4>1, SMTT(30)
        <5> QED
          BY <1>3, <4>1, <5>1
      <4>2. CASE a + g < q
        <5>1. a + g + 1 \in 1..q
          <6>1. a \in Nat /\ g \in Nat
            BY <3>3, <3>4
          <6> QED
            BY <4>2, <6>1
        <5> QED
          BY <1>3, <3>3, <4>2, <5>1
      <4> QED
        BY <3>3, <3>4, <4>1, <4>2
    <3>9. x[i] = <<n, i - a>>
      BY <1>3, <2>1, <3>3
    <3>10. Placed(x, M, from, k, i, n, a)
      BY <1>3, <3>3, <3>4, <3>5, <3>6, <3>7, <3>8, <3>9 DEF Placed
    <3> QED
      BY <3>10
  <2>2. CASE ~(i \in 1..q)
    <3>1. PICK j \in 1..l : i = q + j /\ x[i] = <<k, j>>
      BY <1>3, <1>6, <2>2
    <3>2. i - q = j /\ k \in from..k /\ ~(q + l < Len(x)) /\ q + l <= Len(x)
      BY <1>3, <3>1
    <3>3. FrameLen(M[k]) = l
      BY <1>0, <1>5
    <3>4. Placed(x, M, from, k, i, k, q)
      BY <1>3, <3>1, <3>2, <3>3 DEF Placed
    <3> QED
      BY <3>4
  <2> QED
    BY <2>1, <2>2
<1>13. IsFrames(x, M, from, k)
  <2>1. from \in Nat
    OBVIOUS
  <2> QED
    BY <1>3, <1>9, <1>10, <1>11, <1>12, <2>1, MakeFrames
<1> QED
  BY <1>1, <1>13

(* The frame in front, and the rest without it.                             *)
LEMMA TakeFrame ==
  ASSUME NEW s \in Seq(Byte), NEW m \in Seq(Nat), NEW from \in 1..Len(m) + 1,
         IsFrames(s, m, from, Len(m)), s # <<>>
  PROVE  /\ from <= Len(m) /\ s[1] = <<from, 1>> /\ FrameLen(m[from]) <= Len(s)
         /\ IsFrames(SubSeq(s, FrameLen(m[from]) + 1, Len(s)), m, from + 1, Len(m))
<1>0. PICK q \in Nat, c \in Nat : q = Len(s) /\ c = Len(m) /\ q > 0
  BY EmptySeq
<1>1. s[1] = <<from, 1>> /\ 1 \in 1..q /\ from \in Nat
  BY <1>0 DEF IsFrames
<1>2. PICK n0, a0 : Placed(s, m, from, c, 1, n0, a0)
  BY <1>0, <1>1, FramesPlace
<1>3. n0 = from /\ a0 = 0 /\ from <= c
  <2>1. s[1] = <<n0, 1 - a0>> /\ a0 \in Nat /\ n0 \in from..c
    BY <1>2 DEF Placed
  <2>2. n0 = from /\ 1 - a0 = 1
    BY <1>1, <2>1
  <2> QED
    BY <1>0, <2>1, <2>2
<1>4. PICK l \in Nat : l = FrameLen(m[from]) /\ l > 0
  <2>1. m[from] \in Nat
    BY <1>0, <1>3
  <2> QED
    BY <2>1, FrameLenProps
<1>5. /\ l <= q /\ (l < q => s[l + 1] = <<from + 1, 1>>) /\ (l = q => from = c)
      /\ \A j \in 1..l : s[j] = <<from, j>>
  <2>1. /\ 0 + l <= q /\ (0 + l < q => s[0 + l + 1] = <<from + 1, 1>>)
        /\ (0 + l = q => from = c) /\ \A j \in 1..l : s[0 + j] = <<from, j>>
    BY <1>0, <1>2, <1>3, <1>4 DEF Placed
  <2> QED
    BY <1>4, <2>1
<1>r. PICK r \in Nat : r = q - l
  BY <1>5
<1>6. PICK x : x = SubSeq(s, l + 1, Len(s)) /\ r = q - l
  BY <1>r
<1>7. x \in Seq(Byte) /\ Len(x) = r /\ \A i \in 1..r : x[i] = s[l + i]
  <2>1. PICK k : k = l + 1
    OBVIOUS
  <2>2. k \in 1..Len(s) + 1 /\ Len(s) \in (k - 1)..Len(s) /\ q - k + 1 = r
    BY <1>0, <1>5, <1>6, <2>1
  <2>3. IsCut(x, s, k, Len(s))
    BY <1>6, <2>1, <2>2, CutProps
  <2>4. \A i \in 1..r : k + i - 1 = l + i
    BY <2>1
  <2> QED
    BY <1>0, <2>2, <2>3, <2>4 DEF IsCut
<1>8. ASSUME NEW i \in 1..r
      PROVE  /\ l + i \in 1..q /\ l + 1 \in 1..q /\ l < q /\ s[l + 1] = <<from + 1, 1>>
             /\ s[l + i][1] >= from + 1
  <2>1. l + i \in 1..q /\ l + 1 \in 1..q /\ l < q /\ l + 1 <= l + i
    BY <1>6
  <2>2. s[l + 1] = <<from + 1, 1>>
    BY <1>5, <2>1
  <2>3. s[l + 1][1] <= s[l + i][1]
    BY <1>0, <2>1 DEF IsFrames
  <2>4. s[l + 1][1] = from + 1 /\ s[l + i][1] \in Nat
    BY <1>0, <2>1, <2>2, BytePair, SMTT(30)
  <2> QED
    BY <2>1, <2>2, <2>3, <2>4
<1>9. x = <<>> <=> from + 1 > c
  <2>1. ASSUME x = <<>> PROVE from + 1 > c
    <3>1. r = 0
      BY <1>7, <2>1
    <3> QED
      BY <1>5, <1>6, <3>1
  <2>2. ASSUME x # <<>> PROVE ~(from + 1 > c)
    <3>1. 1 \in 1..r
      BY <1>7, <2>2, EmptySeq
    <3>2. l + 1 \in 1..q /\ s[l + 1] = <<from + 1, 1>>
      BY <1>8, <3>1
    <3>3. PICK n, a : Placed(s, m, from, c, l + 1, n, a)
      BY <1>0, <1>1, <3>2, FramesPlace
    <3>4. n \in from..c /\ n = from + 1
      BY <3>2, <3>3 DEF Placed
    <3> QED
      BY <3>4
  <2> QED
    BY <2>1, <2>2
<1>10. x # <<>> => x[1] = <<from + 1, 1>>
  <2> HAVE x # <<>>
  <2>1. 1 \in 1..r
    BY <1>7, EmptySeq
  <2> QED
    BY <1>7, <1>8, <2>1
<1>11. ASSUME NEW i \in 1..Len(x), NEW j \in 1..Len(x), i <= j
       PROVE  x[i][1] <= x[j][1]
  <2>1. l + i \in 1..q /\ l + j \in 1..q /\ l + i <= l + j
    BY <1>6, <1>7, <1>11
  <2>2. s[l + i][1] <= s[l + j][1]
    BY <1>0, <2>1 DEF IsFrames
  <2> QED
    BY <1>7, <2>2
<1>12. ASSUME NEW i \in 1..Len(x)
       PROVE  \E n, a : Placed(x, m, from + 1, c, i, n, a)
  <2>1. i \in 1..r /\ l + i \in 1..q
    BY <1>7, <1>8
  <2>2. PICK n, b : Placed(s, m, from, c, l + i, n, b)
    BY <1>0, <1>1, <2>1, FramesPlace
  <2>3. PICK g : g = FrameLen(m[n])
    OBVIOUS
  <2>4. /\ n \in from..c /\ b \in Nat /\ (l + i) - b \in 1..g
        /\ s[l + i] = <<n, (l + i) - b>> /\ b + g <= q
        /\ \A j \in 1..g : s[b + j] = <<n, j>>
        /\ b + g < q => s[b + g + 1] = <<n + 1, 1>>
        /\ b + g = q => n = c
    BY <1>0, <2>2, <2>3 DEF Placed
  <2>5. n \in (from + 1)..c /\ g \in Nat /\ g > 0
    <3>1. s[l + i][1] = n
      BY <2>4
    <3>2. n >= from + 1
      BY <1>8, <2>1, <3>1
    <3>3. m[n] \in Nat
      BY <1>0, <2>4, SMTT(30)
    <3>4. g \in Nat /\ g > 0
      BY <2>3, <3>3, FrameLenProps
    <3>5. n \in from..c
      BY <2>4
    <3>6. n \in (from + 1)..c
      BY <3>2, <3>5
    <3> QED
      BY <3>4, <3>6
  <2>6. b >= l
    <3> SUFFICES ASSUME b < l PROVE FALSE
      BY <2>4
    <3>1. 1 \in 1..g /\ b + 1 \in 1..l
      BY <2>4, <2>5
    <3>2. s[b + 1] = <<n, 1>> /\ s[b + 1] = <<from, b + 1>>
      BY <1>5, <2>4, <3>1
    <3>3. n = from
      BY <3>2
    <3> QED
      BY <2>5, <3>3
  <2>7. PICK a \in Nat : a = b - l /\ b = l + a
    BY <2>4, <2>6
  <2>8. i - a = (l + i) - b /\ a + g <= r
    BY <1>6, <2>4, <2>5, <2>7
  <2>9. \A j \in 1..g : x[a + j] = <<n, j>>
    <3> SUFFICES ASSUME NEW j \in 1..g PROVE x[a + j] = <<n, j>>
      OBVIOUS
    <3>1. a + j \in 1..r /\ l + (a + j) = b + j
      BY <2>5, <2>7, <2>8
    <3>2. x[a + j] = s[l + (a + j)]
      BY <1>7, <3>1
    <3> QED
      BY <2>4, <3>1, <3>2
  <2>10. a + g < r => x[a + g + 1] = <<n + 1, 1>>
    <3> HAVE a + g < r
    <3>1. /\ a + g + 1 \in 1..r /\ l + (a + g + 1) = b + g + 1 /\ b + g < q
      BY <1>6, <2>5, <2>7
    <3>2. x[a + g + 1] = s[l + (a + g + 1)]
      BY <1>7, <3>1
    <3> QED
      BY <2>4, <3>1, <3>2
  <2>11. a + g = r => n = c
    <3>1. a + g = r => b + g = q
      BY <1>6, <2>5, <2>7
    <3> QED
      BY <2>4, <3>1
  <2>12. x[i] = <<n, i - a>>
    BY <1>7, <2>1, <2>4, <2>8
  <2>13. i - a \in 1..g
    BY <2>4, <2>8
  <2>14. Placed(x, m, from + 1, c, i, n, a)
    BY <1>7, <2>3, <2>5, <2>7, <2>8, <2>9, <2>10, <2>11, <2>12, <2>13 DEF Placed
  <2> QED
    BY <2>14
<1>13. IsFrames(x, m, from + 1, c)
  <2>1. from + 1 \in Nat
    OBVIOUS
  <2> QED
    BY <1>7, <1>9, <1>10, <1>11, <1>12, <2>1, MakeFrames
<1> QED
  BY <1>0, <1>1, <1>3, <1>4, <1>5, <1>6, <1>13

------------------------------------------------------------------------------
(* The invariant of the codec.                                              *)

CodecInv == /\ TypeOK /\ AssertsHold /\ StreamKept
            /\ Len(delivered) <= Len(sent)

\* Without its first l bytes, s and t joined is what is left of s, and t.
Drops(s, t, l) ==
  SubSeq(s \o t, l + 1, Len(s \o t)) = SubSeq(s, l + 1, Len(s)) \o t

(* Dropping from the front of a join drops from its first part.             *)
LEMMA DropFront ==
  ASSUME NEW s \in Seq(Byte), NEW t \in Seq(Byte), NEW l \in 0..Len(s)
  PROVE  Drops(s, t, l)
<1>0. PICK q \in Nat, p \in Nat : q = Len(s) /\ p = Len(t)
  OBVIOUS
<1>1. PICK a, c, x, y, d : /\ a = SubSeq(s, 1, l) /\ c = SubSeq(s, l + 1, Len(s)) /\ x = s \o t
                           /\ y = c \o t /\ d = SubSeq(x, l + 1, Len(x))
  OBVIOUS
<1>2. /\ x \in Seq(Byte) /\ Len(x) = q + p
      /\ \A i \in 1..q : x[i] = s[i]
      /\ \A i \in 1..p : x[q + i] = t[i]
  <2>1. IsJoin(x, s, t)
    BY <1>1, JoinProps
  <2> QED
    BY <1>0, <2>1 DEF IsJoin
<1>3. /\ c \in Seq(Byte) /\ Len(c) = q - l /\ \A i \in 1..(q - l) : c[i] = s[l + i]
  <2>1. PICK k : k = l + 1
    OBVIOUS
  <2>2. k \in 1..Len(s) + 1 /\ Len(s) \in (k - 1)..Len(s) /\ q - k + 1 = q - l
    BY <1>0, <2>1
  <2>3. IsCut(c, s, k, Len(s))
    BY <1>1, <2>1, <2>2, CutProps
  <2>4. \A i \in 1..(q - l) : k + i - 1 = l + i
    BY <2>1
  <2> QED
    BY <1>0, <2>2, <2>3, <2>4 DEF IsCut
<1>4. /\ d \in Seq(Byte) /\ Len(d) = (q + p) - l
      /\ \A i \in 1..((q + p) - l) : d[i] = x[l + i]
  <2>1. PICK k : k = l + 1
    OBVIOUS
  <2>2. k \in 1..Len(x) + 1 /\ Len(x) \in (k - 1)..Len(x) /\ (q + p) - k + 1 = (q + p) - l
    BY <1>0, <1>2, <2>1
  <2>3. IsCut(d, x, k, Len(x))
    BY <1>1, <1>2, <2>1, <2>2, CutProps
  <2>4. \A i \in 1..((q + p) - l) : k + i - 1 = l + i
    BY <2>1
  <2> QED
    BY <1>2, <2>2, <2>3, <2>4 DEF IsCut
<1>r. PICK r \in Nat : r = q - l
  <2>1. l \in Nat /\ l <= q
    BY <1>0
  <2> QED
    BY <2>1
<1>5. /\ y \in Seq(Byte) /\ Len(y) = r + p
      /\ \A i \in 1..r : y[i] = c[i]
      /\ \A i \in 1..p : y[r + i] = t[i]
  <2>1. IsJoin(y, c, t)
    BY <1>1, <1>3, JoinProps
  <2> QED
    BY <1>0, <1>3, <1>r, <2>1 DEF IsJoin
<1>6. (q + p) - l = r + p
  BY <1>r
<1>7. ASSUME NEW i \in 1..(r + p) PROVE d[i] = y[i]
  <2>0. d[i] = x[l + i]
    BY <1>4, <1>6
  <2>1. CASE i \in 1..r
    <3>1. l + i \in 1..q
      BY <1>0, <1>r, <2>1
    <3>2. x[l + i] = s[l + i] /\ c[i] = s[l + i] /\ y[i] = c[i]
      BY <1>2, <1>3, <1>5, <1>r, <2>1, <3>1
    <3> QED
      BY <2>0, <3>2
  <2>2. CASE ~(i \in 1..r)
    <3>1. PICK j \in Nat : j = i - r /\ j \in 1..p
      BY <2>2
    <3>2. l + i = q + j /\ i = r + j
      BY <1>0, <1>r, <3>1
    <3>3. x[q + j] = t[j] /\ y[r + j] = t[j]
      BY <1>2, <1>5, <3>1
    <3> QED
      BY <2>0, <3>2, <3>3
  <2> QED
    BY <2>1, <2>2
<1>8. d = y
  BY <1>4, <1>5, <1>6, <1>7, SameSeq
<1> QED
  BY <1>1, <1>8 DEF Drops

\* What the invariant says while the buffer is not damaged.
Sound ==
  /\ Good(inputBuffer_) /\ inputBuffer_.ok = TRUE /\ Readable(inputBuffer_) \in Seq(Byte)
  /\ Good(outputBuffer_) /\ outputBuffer_.ok = TRUE /\ Readable(outputBuffer_) \in Seq(Byte)
  /\ wire \in Seq(Byte) /\ Len(wire) \in Nat /\ Len(wire) <= SndCap
  /\ sent \in Seq(Nat) /\ Len(sent) \in Nat
  /\ delivered \in Seq(Nat) /\ Len(delivered) \in Nat

(* The invariant says it.                                                   *)
LEMMA SoundState ==
  ASSUME CodecInv, ~damaged
  PROVE  Sound
<1>1. /\ inputBuffer_ \in Buffers /\ IsBuffer(inputBuffer_) /\ inputBuffer_.ok
      /\ outputBuffer_ \in Buffers /\ IsBuffer(outputBuffer_) /\ outputBuffer_.ok
  BY DEF CodecInv, TypeOK, AssertsHold
<1>2. Good(inputBuffer_) /\ Good(outputBuffer_)
  BY <1>1 DEF Good
<1>3. inputBuffer_.ok = TRUE /\ outputBuffer_.ok = TRUE
  BY <1>1, <1>2, GoodFields
<1>4. Readable(inputBuffer_) \in Seq(Byte) /\ Readable(outputBuffer_) \in Seq(Byte)
  BY <1>2, ReadableProps
<1>5. wire \in Seq(Byte) /\ Len(wire) <= SndCap /\ sent \in Seq(Payloads)
      /\ delivered \in Seq(1..MaxSends)
  BY DEF CodecInv, TypeOK
<1>6. sent \in Seq(Nat) /\ delivered \in Seq(Nat)
  <2>1. Payloads \subseteq Nat /\ 1..MaxSends \subseteq Nat
    BY CodecAssumption, Sizes
  <2> QED
    BY <1>5, <2>1, SeqMonotonic
<1> QED
  BY <1>2, <1>3, <1>4, <1>5, <1>6 DEF Sound

(* The least of a length and the room of the kernel.                        *)
LEMMA WrittenProps ==
  ASSUME Sound, NEW len \in Nat
  PROVE  Written(len) \in 0..len /\ Len(wire) + Written(len) <= SndCap
<1>1. PICK w \in Nat : w = Len(wire) /\ w <= SndCap
  BY DEF Sound
<1>2. len \in Int /\ SndCap - w \in Int /\ SndCap \in Nat
  BY Sizes
<1>3. Written(len) = IF len <= SndCap - w THEN len ELSE SndCap - w
  BY <1>1, <1>2, LeastOfTwo DEF Written
<1> QED
  BY <1>1, <1>2, <1>3

(* A step that moves bytes on, and one that changes no byte.                *)
LEMMA MovedOn ==
  ASSUME CodecInv, ~damaged, UNCHANGED <<sent, delivered, shrinks, failed>>,
         phase' \in {"idle", "decoding"}, damaged' = damaged,
         Good(inputBuffer_'), Good(outputBuffer_'),
         inputBuffer_'.ok = TRUE, outputBuffer_'.ok = TRUE,
         wire' \in Seq(Byte), Len(wire') <= SndCap, Undecoded' = Undecoded
  PROVE  CodecInv'
<1>1. TypeOK'
  BY DEF CodecInv, TypeOK, Good
<1>2. AssertsHold'
  BY DEF AssertsHold, Good
<1>3. StreamKept'
  BY DEF CodecInv, StreamKept
<1> QED
  BY <1>1, <1>2, <1>3 DEF CodecInv

(* The invariant holds at first ...                                         *)
LEMMA InitCodec == Init => CodecInv
<1> SUFFICES ASSUME Init PROVE CodecInv
  OBVIOUS
<1>1. /\ sent = <<>> /\ wire = <<>> /\ outputBuffer_ = NewBuffer /\ inputBuffer_ = NewBuffer
      /\ delivered = <<>> /\ damaged = FALSE /\ failed = FALSE /\ shrinks = 0 /\ phase = "idle"
  BY DEF Init
<1>2. Good(NewBuffer) /\ NewBuffer.ok = TRUE /\ Readable(NewBuffer) = <<>>
  BY NewBufferProps
<1>3. TypeOK
  <2>1. /\ Len(<<>>) = 0 /\ <<>> \in Seq(Payloads)
        /\ <<>> \in Seq(Byte) /\ <<>> \in Seq(1..MaxSends)
    OBVIOUS
  <2>2. 0 <= MaxSends /\ 0 <= SndCap /\ 0 \in 0..MaxShrinks
    BY Sizes
  <2> QED
    BY <1>1, <1>2, <2>1, <2>2, Sizes DEF TypeOK, Good
<1>4. AssertsHold
  BY <1>1, <1>2 DEF AssertsHold, Good
<1>5. StreamKept
  <2>1. Undecoded = <<>>
    BY <1>1, <1>2 DEF Undecoded
  <2>2. Len(delivered) = 0 /\ Len(sent) = 0 /\ Len(<<>>) = 0
    BY <1>1
  <2>3. IsFrames(<<>>, sent, 1, 0)
    BY <2>2 DEF IsFrames
  <2>4. delivered = [i \in 1..0 |-> i]
    BY <1>1
  <2> QED
    BY <2>1, <2>2, <2>3, <2>4 DEF StreamKept
<1> QED
  BY <1>1, <1>3, <1>4, <1>5 DEF CodecInv

(* send(): the frame goes behind all the others, whether the kernel takes   *)
(* it, a part of it or nothing.                                             *)
LEMMA SendStep ==
  ASSUME CodecInv, Send
  PROVE  CodecInv'
<1>0. Sound /\ ~damaged
  BY SoundState DEF Send
<1>1. PICK size \in Payloads :
        LET buf == FillEmptyBuffer(NewBuffer, Len(sent) + 1, size)
            data == Readable(buf)
            n == IF ReadableBytes(outputBuffer_) = 0 THEN Written(Len(data)) ELSE 0
        IN  /\ sent' = Append(sent, size)
            /\ wire' = wire \o SubSeq(data, 1, n)
            /\ outputBuffer_' =
                 Asserted(IF n < Len(data)
                          THEN Append_(outputBuffer_, SubSeq(data, n + 1, Len(data)))
                          ELSE outputBuffer_, buf.ok)
  BY DEF Send
<1>2. /\ Len(sent) < MaxSends
      /\ UNCHANGED <<inputBuffer_, phase, delivered, failed, shrinks, damaged>>
  BY DEF Send
<1>3. size \in Nat
  BY CodecAssumption
<1>4. PICK c \in Nat, k \in Nat : c = Len(sent) /\ k = c + 1
  BY <1>0 DEF Sound
<1>5. PICK buf : buf = FillEmptyBuffer(NewBuffer, Len(sent) + 1, size)
  OBVIOUS
<1>6. buf.ok = TRUE /\ Readable(buf) = Frame(k, size)
  BY <1>3, <1>4, <1>5, FillProps
<1>7. PICK data : data = Readable(buf)
  OBVIOUS
<1>8. PICK l \in Nat : data \in Seq(Byte) /\ Len(data) = l /\ l > 0 /\ data = Frame(k, size)
  <2>1. PICK l \in Nat : l = FrameLen(size) /\ l > 0
    BY <1>3, FrameLenProps
  <2>2. 1 \in Nat /\ 1 <= l + 1 /\ l - 1 + 1 = l
    BY <2>1
  <2>3. Frame(k, size) = Bytes(k, 1, l)
    BY <2>1 DEF Frame, FrameLen
  <2>4. AreBytes(Bytes(k, 1, l), k, 1, l)
    BY <2>2, BytesProps
  <2> QED
    BY <1>6, <1>7, <2>1, <2>2, <2>3, <2>4 DEF AreBytes
<1>9. PICK n : n = IF ReadableBytes(outputBuffer_) = 0 THEN Written(Len(data)) ELSE 0
  OBVIOUS
<1>10. /\ n \in 0..Len(data) /\ Len(wire) + n <= SndCap
       /\ n > 0 => ReadableBytes(outputBuffer_) = 0
  <2>1. Len(wire) \in Nat /\ Len(wire) <= SndCap
    BY <1>0 DEF Sound
  <2>2. CASE ReadableBytes(outputBuffer_) = 0
    <3>1. Written(l) \in 0..l /\ Len(wire) + Written(l) <= SndCap
      BY <1>0, WrittenProps
    <3> QED
      BY <1>8, <1>9, <2>2, <3>1
  <2>3. CASE ReadableBytes(outputBuffer_) # 0
    BY <1>8, <1>9, <2>1, <2>3
  <2> QED
    BY <2>2, <2>3
<1>11. PICK a, e : a = SubSeq(data, 1, n) /\ e = SubSeq(data, n + 1, Len(data))
  OBVIOUS
<1>12. /\ a \in Seq(Byte) /\ Len(a) = n /\ e \in Seq(Byte) /\ Len(e) = Len(data) - n
       /\ a \o e = data
  BY <1>8, <1>10, <1>11, CutAndJoin
<1>13. PICK y : y = IF n < Len(data) THEN Append_(outputBuffer_, e) ELSE outputBuffer_
  OBVIOUS
<1>14. PICK o : o = Readable(outputBuffer_) /\ o \in Seq(Byte)
  BY <1>0 DEF Sound
<1>15. Good(y) /\ y.ok = TRUE /\ Readable(y) = o \o e
  <2>1. CASE n < Len(data)
    <3>1. Longer(y, outputBuffer_, e)
      BY <1>0, <1>12, <1>13, <2>1, AppendProps DEF Sound
    <3> QED
      BY <1>0, <1>14, <3>1 DEF Longer, Sound
  <2>2. CASE ~(n < Len(data))
    <3>1. Len(e) = 0
      BY <1>8, <1>10, <1>12, <2>2
    <3>2. e = <<>>
      BY <1>12, <3>1, EmptySeq
    <3>3. o \o e = o
      BY <1>14, <3>2
    <3> QED
      BY <1>0, <1>13, <1>14, <2>2, <3>3 DEF Sound
  <2> QED
    BY <2>1, <2>2
<1>16. outputBuffer_' = y
  <2>1. outputBuffer_' = Asserted(y, buf.ok)
    BY <1>1, <1>5, <1>7, <1>9, <1>11, <1>13
  <2> QED
    BY <1>6, <1>15, <2>1, AssertedTrue
<1>17. wire' = wire \o a
  BY <1>1, <1>5, <1>7, <1>9, <1>11
<1>18. sent' = Append(sent, size)
  BY <1>1
<1>19. wire' \in Seq(Byte) /\ Len(wire') <= SndCap
  <2>1. IsJoin(wire', wire, a)
    BY <1>0, <1>12, <1>17, JoinProps DEF Sound
  <2> QED
    BY <1>10, <1>12, <2>1 DEF IsJoin
<1>20. Undecoded' = Undecoded \o data
  <2>1. PICK r, w : /\ r = Readable(inputBuffer_) /\ r \in Seq(Byte)
                    /\ w = wire /\ w \in Seq(Byte)
    BY <1>0 DEF Sound
  <2>2. a = <<>> \/ o = <<>>
    <3>1. CASE n = 0
      BY <1>12, <3>1, EmptySeq
    <3>2. CASE n > 0
      <4>1. Len(o) = 0
        BY <1>0, <1>10, <1>14, <3>2, ReadableProps DEF Sound
      <4> QED
        BY <1>14, <4>1, EmptySeq
    <3> QED
      BY <1>8, <1>10, <3>1, <3>2
  <2>3. r \o w \in Seq(Byte)
    BY <2>1
  <2>4. a \o (o \o e) = o \o data
    <3>1. CASE a = <<>>
      <4>1. e = data /\ a \o (o \o e) = o \o e
        BY <1>12, <1>14, <3>1
      <4> QED
        BY <4>1
    <3>2. CASE o = <<>>
      <4>1. o \o e = e /\ o \o data = data
        BY <1>8, <1>12, <3>2
      <4> QED
        BY <1>12, <4>1
    <3> QED
      BY <2>2, <3>1, <3>2
  <2>5. Assoc(r, w, a)
    BY <1>12, <2>1, JoinAssoc
  <2>6. o \o e \in Seq(Byte)
    BY <1>12, <1>14
  <2>7. Assoc(r \o w, a, o \o e)
    BY <1>12, <2>3, <2>6, JoinAssoc
  <2>8. Assoc(r \o w, o, data)
    BY <1>8, <1>14, <2>3, JoinAssoc
  <2>9. Undecoded' = (r \o (w \o a)) \o (o \o e)
    BY <1>2, <1>15, <1>16, <1>17, <2>1 DEF Undecoded
  <2>10. Undecoded = (r \o w) \o o
    BY <1>14, <2>1 DEF Undecoded
  <2> QED
    BY <2>4, <2>5, <2>7, <2>8, <2>9, <2>10 DEF Assoc
<1>21. Undecoded \in Seq(Byte)
  BY <1>0 DEF Sound, Undecoded
<1>22. /\ Len(sent') = k /\ sent' \in Seq(Payloads) /\ k <= MaxSends
       /\ \A i \in 1..c : sent'[i] = sent[i]
  <2>1. sent \in Seq(Payloads)
    BY DEF CodecInv, TypeOK
  <2> QED
    BY <1>2, <1>4, <1>18, <2>1, Sizes
<1>23. Len(delivered) \in Nat /\ Len(delivered) <= c
  BY <1>0, <1>4 DEF Sound, CodecInv
<1>24. IsFrames(Undecoded', sent', Len(delivered) + 1, k)
  <2>1. PICK f \in 1..k : f = Len(delivered) + 1
    BY <1>4, <1>23
  <2>2. IsFrames(Undecoded, sent, f, Len(sent))
    BY <1>0, <2>1 DEF CodecInv, StreamKept
  <2>3. k = Len(sent) + 1 /\ sent \in Seq(Nat)
    BY <1>0, <1>4 DEF Sound
  <2>4. IsFrames(Undecoded \o Frame(k, size), Append(sent, size), f, k)
    BY <1>3, <1>21, <2>2, <2>3, AddFrame
  <2> QED
    BY <1>8, <1>18, <1>20, <2>1, <2>4
<1>25. TypeOK'
  <2>1. /\ outputBuffer_' \in Buffers
    BY <1>15, <1>16 DEF Good
  <2> QED
    BY <1>2, <1>19, <1>22, <2>1 DEF CodecInv, TypeOK
<1>26. AssertsHold'
  BY <1>0, <1>2, <1>15, <1>16 DEF AssertsHold, Good, Sound
<1>27. StreamKept'
  <2>1. \A i \in 1..Len(delivered) : MessageLen(sent'[i]) <= kMaxMessageLen
    <3>1. \A i \in 1..Len(delivered) : i \in 1..c
      BY <1>23
    <3>2. \A i \in 1..Len(delivered) : MessageLen(sent[i]) <= kMaxMessageLen
      BY DEF CodecInv, StreamKept
    <3> QED
      BY <1>22, <3>1, <3>2
  <2>2. delivered = [i \in 1..Len(delivered) |-> i]
    BY DEF CodecInv, StreamKept
  <2> QED
    BY <1>2, <1>22, <1>24, <2>1, <2>2 DEF StreamKept
<1>28. Len(delivered') <= Len(sent')
  BY <1>2, <1>4, <1>22, <1>23
<1> QED
  BY <1>25, <1>26, <1>27, <1>28 DEF CodecInv

(* handleWrite(): bytes go from the sender's buffer to the kernel.          *)
LEMMA WriteStep ==
  ASSUME CodecInv, Write
  PROVE  CodecInv'
<1>0. Sound /\ ~damaged
  BY SoundState DEF Write
<1>1. PICK n : n = Written(ReadableBytes(outputBuffer_))
  OBVIOUS
<1>2. /\ wire' = wire \o SubSeq(Readable(outputBuffer_), 1, n)
      /\ outputBuffer_' = Retrieve(outputBuffer_, n)
      /\ UNCHANGED <<sent, inputBuffer_, phase, delivered, failed, shrinks, damaged>>
  BY <1>1 DEF Write
<1>3. PICK q \in Nat : q = ReadableBytes(outputBuffer_)
  BY <1>0, GoodFields DEF Sound
<1>4. PICK s : s = Readable(outputBuffer_) /\ s \in Seq(Byte) /\ Len(s) = q
  BY <1>0, <1>3, ReadableProps DEF Sound
<1>5. n \in 0..q /\ n \in Nat /\ n <= q /\ Len(wire) + n <= SndCap
  <2>1. n \in 0..q /\ Len(wire) + n <= SndCap
    BY <1>0, <1>1, <1>3, WrittenProps
  <2> QED
    BY <2>1
<1>6. PICK a, e : a = SubSeq(s, 1, n) /\ e = SubSeq(s, n + 1, Len(s))
  OBVIOUS
<1>7. a \in Seq(Byte) /\ Len(a) = n /\ e \in Seq(Byte) /\ a \o e = s
  BY <1>4, <1>5, <1>6, CutAndJoin
<1>8. Good(outputBuffer_') /\ outputBuffer_'.ok = TRUE /\ Readable(outputBuffer_') = e
  <2>1. Good(outputBuffer_) /\ outputBuffer_.ok = TRUE
    BY <1>0 DEF Sound
  <2>2. n <= ReadableBytes(outputBuffer_)
    BY <1>3, <1>5
  <2> QED
    BY <1>2, <1>4, <1>5, <1>6, <2>1, <2>2, RetrieveProps
<1>9. wire' = wire \o a
  BY <1>2, <1>4, <1>6
<1>10. wire' \in Seq(Byte) /\ Len(wire') <= SndCap
  <2>1. IsJoin(wire', wire, a)
    BY <1>0, <1>7, <1>9, JoinProps DEF Sound
  <2> QED
    BY <1>5, <1>7, <2>1 DEF IsJoin
<1>11. Undecoded' = Undecoded
  <2>1. PICK r, w : /\ r = Readable(inputBuffer_) /\ r \in Seq(Byte)
                    /\ w = wire /\ w \in Seq(Byte)
    BY <1>0 DEF Sound
  <2>2. r \o w \in Seq(Byte)
    BY <2>1
  <2>3. Assoc(r, w, a)
    BY <1>7, <2>1, JoinAssoc
  <2>4. Assoc(r \o w, a, e)
    BY <1>7, <2>2, JoinAssoc
  <2>5. Undecoded' = (r \o (w \o a)) \o e
    BY <1>2, <1>8, <1>9, <2>1 DEF Undecoded
  <2>6. Undecoded = (r \o w) \o s
    BY <1>4, <2>1 DEF Undecoded
  <2> QED
    BY <1>7, <2>3, <2>4, <2>5, <2>6 DEF Assoc
<1>12. Good(inputBuffer_') /\ inputBuffer_'.ok = TRUE
  BY <1>0, <1>2 DEF Sound
<1>13. phase' \in {"idle", "decoding"}
  BY <1>2 DEF CodecInv, TypeOK
<1> QED
  BY <1>0, <1>2, <1>8, <1>10, <1>11, <1>12, <1>13, MovedOn

(* handleRead(): bytes go from the kernel to the receiver's buffer.         *)
LEMMA ReadStep ==
  ASSUME CodecInv, HandleRead
  PROVE  CodecInv'
<1>0. Sound /\ ~damaged
  BY SoundState DEF HandleRead
<1>1. PICK arrived \in 1..Len(wire) :
        LET n == ReadLen(inputBuffer_, arrived)
        IN  /\ inputBuffer_' = ReadFd(inputBuffer_, SubSeq(wire, 1, n))
            /\ wire' = SubSeq(wire, n + 1, Len(wire))
  BY DEF HandleRead
<1>2. phase' = "decoding" /\ UNCHANGED <<sent, outputBuffer_, delivered, failed, shrinks, damaged>>
  BY DEF HandleRead
<1>3. PICK n : n = ReadLen(inputBuffer_, arrived)
  OBVIOUS
<1>4. PICK s, q : s = wire /\ q = Len(s)
  OBVIOUS
<1>5. s \in Seq(Byte) /\ q \in Nat /\ q <= SndCap
  BY <1>0, <1>4 DEF Sound
<1>6. n \in 0..Len(s)
  <2>1. PICK k \in Nat : k = WritableBytes(inputBuffer_) + kExtraSize
    BY <1>0, GoodFields, Sizes DEF Sound
  <2>2. arrived \in Int /\ k \in Int /\ arrived >= 0 /\ arrived <= q
    BY <1>4, <1>5
  <2>3. n = IF arrived <= k THEN arrived ELSE k
    BY <1>3, <2>1, <2>2, LeastOfTwo DEF ReadLen
  <2> QED
    BY <1>4, <1>5, <2>2, <2>3
<1>7. PICK a, e : a = SubSeq(s, 1, n) /\ e = SubSeq(s, n + 1, Len(s))
  OBVIOUS
<1>8. a \in Seq(Byte) /\ e \in Seq(Byte) /\ Len(e) = Len(s) - n /\ a \o e = s
  BY <1>5, <1>6, <1>7, CutAndJoin
<1>9. inputBuffer_' = ReadFd(inputBuffer_, a) /\ wire' = e
  BY <1>1, <1>3, <1>4, <1>7
<1>10. Longer(inputBuffer_', inputBuffer_, a)
  BY <1>0, <1>8, <1>9, ReadFdProps DEF Sound
<1>11. wire' \in Seq(Byte) /\ Len(wire') <= SndCap
  <2>1. Len(e) <= SndCap
    BY <1>4, <1>5, <1>6, <1>8, Sizes
  <2> QED
    BY <1>8, <1>9, <2>1
<1>12. Undecoded' = Undecoded
  <2>1. PICK r, o : /\ r = Readable(inputBuffer_) /\ r \in Seq(Byte)
                    /\ o = Readable(outputBuffer_)
    BY <1>0 DEF Sound
  <2>2. Assoc(r, a, e)
    BY <1>8, <2>1, JoinAssoc
  <2>3. Undecoded' = ((r \o a) \o e) \o o
    BY <1>2, <1>9, <1>10, <2>1 DEF Undecoded, Longer
  <2>4. Undecoded = (r \o s) \o o
    BY <1>4, <2>1 DEF Undecoded
  <2> QED
    BY <1>8, <2>2, <2>3, <2>4 DEF Assoc
<1>13. Good(inputBuffer_') /\ inputBuffer_'.ok = TRUE
  BY <1>0, <1>10 DEF Sound, Longer
<1>14. Good(outputBuffer_') /\ outputBuffer_'.ok = TRUE
  BY <1>0, <1>2 DEF Sound
<1> QED
  BY <1>0, <1>2, <1>11, <1>12, <1>13, <1>14, MovedOn

(* A turn of onMessage(): the frame in front is the one of the next         *)
(* message, and nothing but that frame is taken.                            *)
LEMMA DecodeStep ==
  ASSUME CodecInv, DecodeMessage
  PROVE  CodecInv'
<1>0. Sound /\ ~damaged
  BY SoundState DEF DecodeMessage
<1>1. /\ Enough(inputBuffer_) /\ ValidLength(PeekInt32(inputBuffer_))
      /\ WholeFrame(inputBuffer_)
      /\ delivered' = Append(delivered, FrontMessage(inputBuffer_))
      /\ inputBuffer_' = Taken(inputBuffer_)
      /\ UNCHANGED <<sent, outputBuffer_, wire, phase, failed, shrinks, damaged>>
  BY DEF DecodeMessage
<1>w. PICK w, o : /\ w = wire /\ w \in Seq(Byte)
                  /\ o = Readable(outputBuffer_) /\ o \in Seq(Byte)
  BY <1>0 DEF Sound
<1>2. PICK r, t : /\ r = Readable(inputBuffer_) /\ r \in Seq(Byte)
                  /\ t = w \o o /\ t \in Seq(Byte)
  <2>1. w \o o \in Seq(Byte)
    BY <1>w
  <2> QED
    BY <1>0, <2>1 DEF Sound
<1>3. PICK q \in Nat : q = ReadableBytes(inputBuffer_) /\ q = Len(r)
  BY <1>0, <1>2, GoodFields, ReadableProps DEF Sound
<1>4. q > 0
  <2>1. q >= kMaxMessageLen + kHeaderLen
    BY <1>1, <1>3 DEF Enough
  <2> QED
    BY <2>1, Sizes
<1>5. PICK u : u = Undecoded /\ u = r \o t
  <2>1. Assoc(r, w, o)
    BY <1>w, <1>2, JoinAssoc
  <2> QED
    BY <1>w, <1>2, <2>1 DEF Undecoded, Assoc
<1>6. u \in Seq(Byte) /\ u # <<>> /\ u[1] = r[1]
  <2>1. IsJoin(u, r, t)
    BY <1>2, <1>5, JoinProps
  <2>2. u \in Seq(Byte) /\ Len(u) = q + Len(t) /\ Len(t) \in Nat
    BY <1>2, <1>3, <2>1 DEF IsJoin
  <2>3. Len(u) > 0 /\ 1 \in 1..q
    BY <1>4, <2>2
  <2> QED
    BY <1>3, <2>1, <2>2, <2>3 DEF IsJoin
<1>7. PICK c \in Nat, d \in Nat : c = Len(sent) /\ d = Len(delivered) /\ d <= c
  BY <1>0 DEF Sound, CodecInv
<1>8. PICK k \in 1..Len(sent) + 1 : k = d + 1
  BY <1>7
<1>9. IsFrames(u, sent, k, Len(sent))
  BY <1>0, <1>5, <1>7, <1>8 DEF CodecInv, StreamKept
<1>10. PICK l : l = FrameLen(sent[k])
  OBVIOUS
<1>11. /\ k <= c /\ u[1] = <<k, 1>>
       /\ IsFrames(SubSeq(u, l + 1, Len(u)), sent, k + 1, Len(sent))
  BY <1>0, <1>6, <1>7, <1>9, <1>10, TakeFrame DEF Sound
<1>12. FrontMessage(inputBuffer_) = k
  BY <1>2, <1>6, <1>11 DEF FrontMessage
<1>13. /\ PeekInt32(inputBuffer_) = MessageLen(sent[k])
       /\ kHeaderLen + PeekInt32(inputBuffer_) = l
  BY <1>10, <1>12 DEF PeekInt32, FrameLen
<1>14. l \in Nat
  <2>1. k \in 1..Len(sent) /\ sent \in Seq(Nat)
    BY <1>0, <1>7, <1>11 DEF Sound
  <2>2. sent[k] \in Nat
    BY <2>1
  <2> QED
    BY <1>10, <2>2, FrameLenProps
<1>15. l <= ReadableBytes(inputBuffer_) /\ l \in 0..Len(r)
  <2>1. q >= l
    BY <1>1, <1>3, <1>13 DEF WholeFrame
  <2> QED
    BY <1>3, <1>14, <2>1
<1>16. inputBuffer_' = Retrieve(inputBuffer_, l)
  BY <1>1, <1>13 DEF Taken
<1>17. /\ Good(inputBuffer_') /\ inputBuffer_'.ok = TRUE
       /\ Readable(inputBuffer_') = SubSeq(r, l + 1, Len(r))
  <2>1. Good(inputBuffer_) /\ inputBuffer_.ok = TRUE
    BY <1>0 DEF Sound
  <2> QED
    BY <1>2, <1>14, <1>15, <1>16, <2>1, RetrieveProps
<1>18. Undecoded' = SubSeq(u, l + 1, Len(u))
  <2>1. PICK x : x = SubSeq(r, l + 1, Len(r)) /\ x \in Seq(Byte)
    <3>1. l \in 0..Len(r)
      BY <1>15
    <3> QED
      BY <1>2, <3>1, CutAndJoin
  <2>2. (x \o w) \o o = x \o t
    <3>1. x \in Seq(Byte)
      BY <2>1
    <3>2. Assoc(x, w, o)
      BY <1>w, <3>1, JoinAssoc
    <3> QED
      BY <1>2, <3>2 DEF Assoc
  <2>3. Undecoded' = (x \o w) \o o
    BY <1>w, <1>1, <1>17, <2>1 DEF Undecoded
  <2>4. SubSeq(r \o t, l + 1, Len(r \o t)) = x \o t
    <3>1. l \in 0..Len(r)
      BY <1>15
    <3>2. Drops(r, t, l)
      BY <1>2, <3>1, DropFront
    <3> QED
      BY <2>1, <3>2 DEF Drops
  <2> QED
    BY <1>5, <2>2, <2>3, <2>4
<1>19. delivered' = Append(delivered, k) /\ sent' = sent
  BY <1>1, <1>12
<1>20. /\ Len(delivered') = k /\ delivered' \in Seq(1..MaxSends)
       /\ delivered' = [i \in 1..k |-> i]
  <2>1. k \in 1..MaxSends
    BY <1>7, <1>11, Sizes DEF CodecInv, TypeOK
  <2>2. delivered \in Seq(1..MaxSends)
    BY DEF CodecInv, TypeOK
  <2>3. delivered' \in Seq(1..MaxSends) /\ Len(delivered') = k
    BY <1>7, <1>8, <1>19, <2>1, <2>2
  <2>4. delivered = [i \in 1..d |-> i]
    BY <1>7 DEF CodecInv, StreamKept
  <2>5. \A i \in 1..k : delivered'[i] = i
    <3> SUFFICES ASSUME NEW i \in 1..k PROVE delivered'[i] = i
      OBVIOUS
    <3>1. CASE i \in 1..d
      <4>1. delivered'[i] = delivered[i]
        BY <1>7, <1>19, <2>2, <3>1
      <4>2. delivered[i] = i
        BY <2>4, <3>1
      <4> QED
        BY <4>1, <4>2
    <3>2. CASE ~(i \in 1..d)
      <4>1. i = k
        BY <1>8, <3>2
      <4>2. delivered'[d + 1] = k
        BY <1>7, <1>19, <2>2
      <4> QED
        BY <1>8, <4>1, <4>2
    <3> QED
      BY <3>1, <3>2
  <2>7. delivered' = [i \in 1..k |-> i]
    <3>1. PICK D : D = delivered'
      OBVIOUS
    <3>2. D \in [1..Len(D) -> 1..MaxSends]
      BY <2>3, <3>1, LenProperties
    <3>3. D \in [1..k -> 1..MaxSends]
      BY <2>3, <3>1, <3>2
    <3> QED
      BY <2>5, <3>1, <3>3
  <2> QED
    BY <2>3, <2>7
<1>21. TypeOK'
  BY <1>1, <1>17, <1>20 DEF CodecInv, TypeOK, Good
<1>22. AssertsHold'
  BY <1>0, <1>1, <1>17 DEF AssertsHold, Good, Sound
<1>23. StreamKept'
  <2>1. \A i \in 1..k : MessageLen(sent[i]) <= kMaxMessageLen
    <3>1. MessageLen(sent[k]) <= kMaxMessageLen
      BY <1>1, <1>13 DEF ValidLength
    <3>2. \A i \in 1..d : MessageLen(sent[i]) <= kMaxMessageLen
      BY <1>7 DEF CodecInv, StreamKept
    <3>3. \A i \in 1..k : i \in 1..d \/ i = k
      BY <1>8
    <3> QED
      BY <3>1, <3>2, <3>3
  <2>2. IsFrames(Undecoded', sent, k + 1, Len(sent))
    BY <1>11, <1>18
  <2> QED
    BY <1>19, <1>20, <2>1, <2>2 DEF StreamKept
<1>24. Len(delivered') <= Len(sent')
  BY <1>7, <1>11, <1>19, <1>20
<1> QED
  BY <1>21, <1>22, <1>23, <1>24 DEF CodecInv

(* The turns that end onMessage() take nothing.                             *)
LEMMA EndStep ==
  ASSUME CodecInv, DecodeError \/ DecodeDone
  PROVE  CodecInv'
<1>1. /\ UNCHANGED <<sent, outputBuffer_, wire, inputBuffer_, delivered, shrinks, damaged>>
      /\ phase' = "idle" /\ failed' \in {failed, TRUE}
  BY DEF DecodeError, DecodeDone, ErrorCallback
<1>2. TypeOK'
  BY <1>1 DEF CodecInv, TypeOK
<1>3. AssertsHold' /\ StreamKept'
  BY <1>1 DEF CodecInv, AssertsHold, StreamKept, Undecoded
<1> QED
  BY <1>1, <1>2, <1>3 DEF CodecInv

(* shrink(): either the bytes are where they were, or damaged says so.      *)
LEMMA ShrinkStep ==
  ASSUME CodecInv, UserShrink
  PROVE  CodecInv'
<1>0. Sound /\ ~damaged
  BY SoundState DEF UserShrink
<1>1. /\ shrinks < MaxShrinks /\ shrinks' = shrinks + 1
      /\ damaged' = (inputBuffer_.readerIndex_ # kCheapPrepend)
      /\ inputBuffer_' = Shrink(inputBuffer_, 0)
      /\ UNCHANGED <<sent, outputBuffer_, wire, phase, delivered, failed>>
  BY DEF UserShrink
<1>2. /\ inputBuffer_' \in Buffers /\ inputBuffer_'.ok = TRUE
      /\ ~damaged' => Good(inputBuffer_') /\ Readable(inputBuffer_') = Readable(inputBuffer_)
  BY <1>0, <1>1, ShrinkProps DEF Sound
<1>3. shrinks' \in 0..MaxShrinks /\ damaged' \in BOOLEAN
  <2>1. shrinks \in 0..MaxShrinks
    BY DEF CodecInv, TypeOK
  <2> QED
    BY <1>1, <2>1, Sizes
<1>4. TypeOK'
  BY <1>1, <1>2, <1>3 DEF CodecInv, TypeOK
<1>5. AssertsHold'
  BY <1>0, <1>1, <1>2 DEF Sound, AssertsHold, Good
<1>6. StreamKept'
  <2>1. ~damaged' => Undecoded' = Undecoded
    BY <1>1, <1>2 DEF Undecoded
  <2> QED
    BY <1>0, <1>1, <2>1 DEF CodecInv, StreamKept
<1> QED
  BY <1>1, <1>4, <1>5, <1>6 DEF CodecInv

(* Every step keeps the invariant.                                          *)
LEMMA NextCodec ==
  ASSUME CodecInv, [Next]_vars
  PROVE  CodecInv'
<1>1. CASE Send
  BY <1>1, SendStep
<1>2. CASE Write
  BY <1>2, WriteStep
<1>3. CASE HandleRead
  BY <1>3, ReadStep
<1>4. CASE DecodeMessage
  BY <1>4, DecodeStep
<1>5. CASE DecodeError \/ DecodeDone
  BY <1>5, EndStep
<1>6. CASE UserShrink
  BY <1>6, ShrinkStep
<1>7. CASE UNCHANGED vars
  BY <1>7 DEF vars, CodecInv, TypeOK, AssertsHold, StreamKept, Undecoded
<1> QED
  BY <1>1, <1>2, <1>3, <1>4, <1>5, <1>6, <1>7 DEF Next

(* ... and so always.                                                       *)
LEMMA CodecInvariant == Spec => []CodecInv
<1>1. Init => CodecInv
  BY InitCodec
<1>2. CodecInv /\ [Next]_vars => CodecInv'
  BY NextCodec
<1> QED
  BY <1>1, <1>2, PTL DEF Spec

------------------------------------------------------------------------------
(* Every variable keeps its type: in particular both Buffers stay vectors   *)
(* of bytes with natural indices, and the kernel never holds more than it   *)
(* has room for, whatever ::write() and readv() take.                       *)
THEOREM TypeCorrect == Spec => []TypeOK
<1>1. CodecInv => TypeOK
  BY DEF CodecInv
<1> QED
  BY <1>1, CodecInvariant, PTL

(* No assert of Buffer (makeSpace(), ensureWritableBytes(), prepend(),      *)
(* retrieve()) or of fillEmptyBuffer() ever fails, and readerIndex_ and     *)
(* writerIndex_ stay in order and inside the vector, for any sizes of the   *)
(* buffer, of its spare front, of the header and of the payloads, as long   *)
(* as the header fits into the spare front.                                 *)
THEOREM AssertsAlwaysHold == Spec => []AssertsHold
<1>1. CodecInv => AssertsHold
  BY DEF CodecInv
<1> QED
  BY <1>1, CodecInvariant, PTL

(* The messages onMessage() delivers are the first ones send() was given,   *)
(* once each and in order, and the bytes in the two Buffers and the kernel  *)
(* are one whole frame for each of the others: no growing or moving of a    *)
(* Buffer, partial write, or read through extrabuf loses or repeats one.    *)
THEOREM StreamAlwaysKept == Spec => []StreamKept
<1>1. CodecInv => StreamKept
  BY DEF CodecInv
<1> QED
  BY <1>1, CodecInvariant, PTL
==============================================================================
