-------------------------- MODULE ProtobufCodecLite --------------------------
(***************************************************************************)
(* ProtobufCodecLite (examples/protobuf) between two connections: send()   *)
(* fills a Buffer with a frame, the sender's outputBuffer_ and the kernel  *)
(* pass it on in pieces, and onMessage() finds the frames in the           *)
(* receiver's inputBuffer_.  Byte i of the frame of the n-th message is    *)
(* <<n, i>>: kHeaderLen bytes of length, the tag, the payload, the         *)
(* checksum.  Only its length tells a payload from another.                *)
(***************************************************************************)
EXTENDS Buffer

CONSTANTS kHeaderLen, kChecksumLen, kMaxMessageLen, TagLen,
          SndCap,      \* bytes the kernel holds between the two
          Payloads,    \* the sizes of payloads
          MaxSends,    \* bound on the calls of send()
          MaxShrinks   \* bound on the calls of shrink()

ASSUME CodecAssumption ==
         /\ {kHeaderLen, kChecksumLen, kMaxMessageLen} \subseteq Nat \ {0}
         /\ {TagLen, SndCap, MaxSends, MaxShrinks} \subseteq Nat
         /\ Payloads \subseteq Nat
         /\ kHeaderLen <= kCheapPrepend

VARIABLES
  sent,           \* the payload size of each message sent
  outputBuffer_,  \* of the sender
  wire,           \* bytes in the kernel and the network
  inputBuffer_,   \* of the receiver
  phase,          \* "idle", or "decoding" in onMessage()
  delivered,      \* the messages given to messageCallback_
  failed,         \* errorCallback_ has been called, and has shut down
  shrinks,
  damaged         \* shrink() found readerIndex_ away from kCheapPrepend

vars == <<sent, outputBuffer_, wire, inputBuffer_, phase, delivered,
          failed, shrinks, damaged>>

Init == /\ sent = <<>> /\ wire = <<>>
        /\ outputBuffer_ = NewBuffer /\ inputBuffer_ = NewBuffer
        /\ phase = "idle" /\ delivered = <<>> /\ failed = FALSE
        /\ shrinks = 0 /\ damaged = FALSE

kMinMessageLen == TagLen + kChecksumLen
MessageLen(size) == TagLen + size + kChecksumLen
Bytes(n, from, to) == [i \in 1..(to - from + 1) |-> <<n, from + i - 1>>]
Frame(n, size) == Bytes(n, 1, kHeaderLen + MessageLen(size))

\* serializeToBuffer() of the n-th message.
SerializeToBuffer(b, n, size) ==
  LET y == EnsureWritableBytes(b, size + kChecksumLen)
      data == Bytes(n, kHeaderLen + TagLen + 1, kHeaderLen + TagLen + size)
  IN  HasWritten([y EXCEPT !.buffer_ = Copied(@, data, y.writerIndex_)], size)

\* A plausible mistake: the length is appended like the rest.
FillEmptyBufferAppends(b, n, size) ==
  LET tagged == Append_(b, Bytes(n, kHeaderLen + 1, kHeaderLen + TagLen))
      summed == Append_(SerializeToBuffer(tagged, n, size),
                        Bytes(n, kHeaderLen + TagLen + size + 1,
                              kHeaderLen + MessageLen(size)))
  IN  Append_(summed, Bytes(n, 1, kHeaderLen))

\* fillEmptyBuffer(): tag, payload, checksum, and then the length in front.
FillEmptyBuffer(b, n, size) ==
  LET tagged == Append_(Asserted(b, ReadableBytes(b) = 0),
                        Bytes(n, kHeaderLen + 1, kHeaderLen + TagLen))
      summed == Append_(SerializeToBuffer(tagged, n, size),
                        Bytes(n, kHeaderLen + TagLen + size + 1,
                              kHeaderLen + MessageLen(size)))
  IN  Prepend(Asserted(summed, ReadableBytes(summed) = MessageLen(size)),
              Bytes(n, 1, kHeaderLen))

------------------------------------------------------------------------------
(* The sender.                                                              *)

\* ::write() takes what there is room for.
Written(len) == Min({len, SndCap - Len(wire)})

\* send(), which writes at once if nothing waits.
Send ==
  /\ ~damaged
  /\ Len(sent) < MaxSends
  /\ \E size \in Payloads :
       LET buf == FillEmptyBuffer(NewBuffer, Len(sent) + 1, size)
           data == Readable(buf)
           n == IF ReadableBytes(outputBuffer_) = 0 THEN Written(Len(data)) ELSE 0
       IN  /\ sent' = Append(sent, size)
           /\ wire' = wire \o SubSeq(data, 1, n)
           /\ outputBuffer_' =
                Asserted(IF n < Len(data)
                         THEN Append_(outputBuffer_, SubSeq(data, n + 1, Len(data)))
                         ELSE outputBuffer_, buf.ok)
  /\ UNCHANGED <<inputBuffer_, phase, delivered, failed, shrinks, damaged>>

\* handleWrite() of the sender.
Write ==
  LET n == Written(ReadableBytes(outputBuffer_))
  IN  /\ ~damaged /\ n > 0
      /\ wire' = wire \o SubSeq(Readable(outputBuffer_), 1, n)
      /\ outputBuffer_' = Retrieve(outputBuffer_, n)
      /\ UNCHANGED <<sent, inputBuffer_, phase, delivered, failed, shrinks,
                     damaged>>

------------------------------------------------------------------------------
(* The receiver.  handleRead() reads what has arrived and calls onMessage(). *)
HandleRead ==
  /\ ~damaged /\ phase = "idle"
  /\ \E arrived \in 1..Len(wire) :
       LET n == ReadLen(inputBuffer_, arrived)
       IN  /\ inputBuffer_' = ReadFd(inputBuffer_, SubSeq(wire, 1, n))
           /\ wire' = SubSeq(wire, n + 1, Len(wire))
  /\ phase' = "decoding"
  /\ UNCHANGED <<sent, outputBuffer_, delivered, failed, shrinks, damaged>>

\* A plausible mistake: exactly so many bytes are not enough.
EnoughAndMore(b) == ReadableBytes(b) > kMaxMessageLen + kHeaderLen

\* The bytes onMessage() wants before it looks at a length.
Enough(b) == ReadableBytes(b) >= kMaxMessageLen + kHeaderLen

\* peekInt32(): the bytes at the front are a header, whose length is known.
FrontMessage(b) == Readable(b)[1][1]
PeekInt32(b) == MessageLen(sent[FrontMessage(b)])

WholeFrame(b) == ReadableBytes(b) >= kHeaderLen + PeekInt32(b)

\* A plausible mistake: a message may be one longer than the maximum.
ValidLengthPlus(len) == len <= kMaxMessageLen + 1 /\ len >= kMinMessageLen

ValidLength(len) == len <= kMaxMessageLen /\ len >= kMinMessageLen

ErrorCode == {"kNoError", "kInvalidLengeth", "kCheckSumError", "kInvalidNameLen",
              "kUnkownMessageType", "kParseError"}

\* parse() ends without a return statement: what its caller sees is not
\* defined, whether the checksum, the tag and the payload are right or not.
Parse == ErrorCode

\* A plausible mistake: the frame is taken before the callback and after it.
TakenTwice(b) ==
  LET len == kHeaderLen + PeekInt32(b) IN Retrieve(Retrieve(b, len), len)

Taken(b) == Retrieve(b, kHeaderLen + PeekInt32(b))

\* One turn of the loop of onMessage() that goes on ...
DecodeMessage ==
  /\ ~damaged /\ phase = "decoding"
  /\ Enough(inputBuffer_) /\ ValidLength(PeekInt32(inputBuffer_))
  /\ WholeFrame(inputBuffer_)
  /\ "kNoError" \in Parse
  /\ delivered' = Append(delivered, FrontMessage(inputBuffer_))
  /\ inputBuffer_' = Taken(inputBuffer_)
  /\ UNCHANGED <<sent, outputBuffer_, wire, phase, failed, shrinks, damaged>>

\* defaultErrorCallback() shuts down the connection.
ErrorCallback == failed' = TRUE

\* ... and one that ends it with errorCallback_ and leaves the bytes ...
DecodeError ==
  /\ ~damaged /\ phase = "decoding"
  /\ Enough(inputBuffer_)
  /\ ValidLength(PeekInt32(inputBuffer_)) =>
       WholeFrame(inputBuffer_) /\ Parse # {"kNoError"}
  /\ ErrorCallback
  /\ phase' = "idle"
  /\ UNCHANGED <<sent, outputBuffer_, wire, inputBuffer_, delivered,
                 shrinks, damaged>>

\* ... or because there is too little.
DecodeDone ==
  /\ ~damaged /\ phase = "decoding"
  /\ Enough(inputBuffer_) =>
       ValidLength(PeekInt32(inputBuffer_)) /\ ~WholeFrame(inputBuffer_)
  /\ phase' = "idle"
  /\ UNCHANGED <<sent, outputBuffer_, wire, inputBuffer_, delivered,
                 failed, shrinks, damaged>>

\* User code shrinks the buffer it was given.
UserShrink ==
  /\ ~damaged /\ shrinks < MaxShrinks
  /\ shrinks' = shrinks + 1
  /\ damaged' = (inputBuffer_.readerIndex_ # kCheapPrepend)
  /\ inputBuffer_' = Shrink(inputBuffer_, 0)
  /\ UNCHANGED <<sent, outputBuffer_, wire, phase, delivered, failed>>

Next == \/ Send \/ Write \/ HandleRead \/ DecodeMessage \/ DecodeError
        \/ DecodeDone \/ UserShrink

\* The loops run and the network delivers.  This much is enough: what has been
\* sent gives them a bounded number of steps.
Fairness == WF_vars(DecodeMessage \/ DecodeError \/ DecodeDone \/ HandleRead \/ Write)

Spec == Init /\ [][Next]_vars /\ Fairness
------------------------------------------------------------------------------
TypeOK ==
  /\ sent \in Seq(Payloads) /\ Len(sent) <= MaxSends
  /\ outputBuffer_ \in Buffers /\ inputBuffer_ \in Buffers
  /\ wire \in Seq(Byte) /\ Len(wire) <= SndCap
  /\ delivered \in Seq(1..MaxSends)
  /\ phase \in {"idle", "decoding"}
  /\ failed \in BOOLEAN /\ damaged \in BOOLEAN
  /\ shrinks \in 0..MaxShrinks

(* No assert of Buffer or of the codec fails, and the two indices stay in   *)
(* their order: makeSpace() always leaves the room it was asked for,        *)
(* kCheapPrepend has room for the length, and what is retrieved is there.   *)
AssertsHold == /\ outputBuffer_.ok /\ inputBuffer_.ok
               /\ IsBuffer(outputBuffer_) /\ (~damaged => IsBuffer(inputBuffer_))

FrameLen(size) == kHeaderLen + MessageLen(size)

\* s is the frames of messages from..to of m, one after the other: each byte
\* at its place in its whole frame, the frames in order, and none left out.
IsFrames(s, m, from, to) ==
  /\ s = <<>> <=> from > to
  /\ s # <<>> => s[1] = <<from, 1>>
  /\ \A i, j \in 1..Len(s) : i <= j => s[i][1] <= s[j][1]
  /\ \A i \in 1..Len(s) :
       LET n == s[i][1]
           start == i - s[i][2]
           end == start + FrameLen(m[n])
       IN  /\ n \in from..to /\ s[i][2] \in 1..FrameLen(m[n])
           /\ start >= 0 /\ end <= Len(s)
           /\ \A j \in 1..FrameLen(m[n]) : s[start + j] = <<n, j>>
           /\ end < Len(s) => s[end + 1] = <<n + 1, 1>>
           /\ end = Len(s) => n = to

\* The bytes that no message has taken yet.
Undecoded == Readable(inputBuffer_) \o wire \o Readable(outputBuffer_)

(* The messages delivered are the first ones sent, once each, and none is   *)
(* longer than kMaxMessageLen.  The receiver's buffer, the kernel and the   *)
(* sender's buffer are together one whole frame for each of the others,     *)
(* the length in front although it is written last: no growing, moving,     *)
(* partial write or read through extrabuf loses or repeats a byte.  Only    *)
(* shrink() with readerIndex_ away from kCheapPrepend damages the buffer.   *)
StreamKept ==
  /\ delivered = [i \in 1..Len(delivered) |-> i]
  /\ \A i \in 1..Len(delivered) : MessageLen(sent[i]) <= kMaxMessageLen
  /\ ~damaged => IsFrames(Undecoded, sent, Len(delivered) + 1, Len(sent))

(* As long as the bytes on their way are kMaxMessageLen + kHeaderLen or     *)
(* more, messages are delivered from them, unless an error is reported.     *)
(* Fewer stay in the buffer even if they are whole messages.                *)
Decodes ==
  []<>(failed \/ damaged \/ Len(Undecoded) < kMaxMessageLen + kHeaderLen)
==============================================================================
