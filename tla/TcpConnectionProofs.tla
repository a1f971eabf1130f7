------------------------- MODULE TcpConnectionProofs -------------------------
(***************************************************************************)
(* TLAPS proofs about module TcpConnection, for any set of threads, any    *)
(* message length, send buffer and high-water mark, and any number of      *)
(* calls: its type, EPoller's record of the channel, the byte stream, the  *)
(* high-water callback, what the channel asks for, the shutdown that waits *)
(* for the output, and the order of the connection callbacks.              *)
(***************************************************************************)
EXTENDS TcpConnection, SequenceTheorems, TLAPS

USE ThreadsAssumption, ParametersAssumption

(* The operators of module Channel keep a channel a channel.                *)
LEMMA ChannelTypes ==
  ASSUME NEW ch \in Channels
  PROVE  /\ EnableReading(ch) \in Channels /\ DisableReading(ch) \in Channels
         /\ EnableWriting(ch) \in Channels /\ DisableWriting(ch) \in Channels
         /\ DisableAll(ch) \in Channels /\ RemoveChannel(ch) \in Channels
  BY DEF Channels, Events, EnableReading, DisableReading, EnableWriting,
         DisableWriting, DisableAll, RemoveChannel, UpdateChannel, IsNoneEvent

(* Every call of update() keeps EPoller's record and the epoll set in       *)
(* agreement, whatever the channel's index.                                 *)
LEMMA UpdateRegisters ==
  ASSUME NEW ch \in Channels, Registration(ch)
  PROVE  /\ Registration(EnableReading(ch)) /\ Registration(DisableReading(ch))
         /\ Registration(EnableWriting(ch)) /\ Registration(DisableWriting(ch))
         /\ Registration(DisableAll(ch)) /\ Registration(RemoveChannel(ch))
  BY DEF Channels, Events, EnableReading, DisableReading, EnableWriting,
         DisableWriting, DisableAll, RemoveChannel, UpdateChannel, IsNoneEvent,
         Registration
------------------------------------------------------------------------------
(* Facts about sequences.                                                   *)

(* A message is a sequence of units.                                        *)
LEMMA UnitsType ==
  ASSUME NEW m \in Messages
  PROVE  Units(m) \in Seq(AllUnits) /\ Len(Units(m)) = MsgLen
  BY DEF Units, AllUnits

(* Cutting a sequence in two: the parts, and what they are of.              *)
LEMMA SubSeqType ==
  ASSUME NEW S, NEW s \in Seq(S), NEW n \in 0..Len(s)
  PROVE  /\ SubSeq(s, 1, n) \in Seq(S) /\ Len(SubSeq(s, 1, n)) = n
         /\ SubSeq(s, n + 1, Len(s)) \in Seq(S)
         /\ Len(SubSeq(s, n + 1, Len(s))) = Len(s) - n
  OBVIOUS

(* Concatenation is associative.                                            *)
LEMMA ConcatRegroups ==
  ASSUME NEW S
  PROVE  \A a, b, c \in Seq(S) : (a \o b) \o c = a \o (b \o c)
  BY SMTT(60)

(* Moving the first n elements of b from b to the end of a changes nothing  *)
(* in a \o b.                                                               *)
LEMMA MoveFront ==
  ASSUME NEW S, NEW a \in Seq(S), NEW b \in Seq(S), NEW n \in 0..Len(b)
  PROVE  (a \o SubSeq(b, 1, n)) \o SubSeq(b, n + 1, Len(b)) = a \o b
<1>1. SubSeq(b, 1, n) \o SubSeq(b, n + 1, Len(b)) = b
  <2>1. /\ 1 \in 1..Len(b) + 1 /\ n \in 1 - 1..Len(b)
        /\ Len(b) \in n..Len(b)
    OBVIOUS
  <2>2. SubSeq(b, 1, n) \o SubSeq(b, n + 1, Len(b)) = SubSeq(b, 1, Len(b))
    BY <2>1, ConcatAdjacentSubSeq, Zenon
  <2> QED BY <2>2, SubSeqFull, Zenon
<1>2. (a \o SubSeq(b, 1, n)) \o SubSeq(b, n + 1, Len(b))
        = a \o (SubSeq(b, 1, n) \o SubSeq(b, n + 1, Len(b)))
  <2>1. SubSeq(b, 1, n) \in Seq(S) /\ SubSeq(b, n + 1, Len(b)) \in Seq(S)
    BY SubSeqType
  <2>2. \A x, y \in Seq(S) : (a \o x) \o y = a \o (x \o y)
    BY ConcatRegroups, SMTT(60)
  <2> QED BY <2>1, <2>2, Zenon
<1> QED BY <1>1, <1>2

(* write() takes between nothing and everything, and no more than fits.     *)
LEMMA WrittenBound ==
  ASSUME TypeOK, NEW len \in Nat
  PROVE  /\ Written(len) \in 0..len
         /\ Len(wire) + Written(len) - acked <= SndCap
  BY DEF TypeOK, Written, CanWrite
------------------------------------------------------------------------------
(* The type invariant: first what the member functions assign.              *)

ConnectionTypes ==
  /\ state_ \in {"kConnecting", "kConnected", "kDisconnecting", "kDisconnected"}
  /\ reading_ \in BOOLEAN
  /\ channel_ \in Channels
  /\ outputBuffer_ \in Seq(AllUnits) /\ wire \in Seq(AllUnits)
  /\ stream \in Seq(AllUnits)
  /\ acked \in 0..Len(wire) /\ Len(wire) - acked <= SndCap
  /\ shutWr \in BOOLEAN /\ soError \in BOOLEAN /\ rcv \in BOOLEAN
  /\ pending \in Seq(Functors)
  /\ connections_ \in BOOLEAN /\ removals \in Nat
  /\ callbacks \in Seq({"up", "down"})
  /\ warnings \in Nat
  /\ aborted \in {"no", "handleClose", "removeConnectionInLoop",
                  "removeChannel", "connectionEstablished"}

(* What queueInLoop() appends under a condition is a sequence of functors.  *)
LEMMA QueueIfType ==
  ASSUME NEW c, NEW op \in {"writeCompleteCallback_", "highWaterMarkCallback_"}
  PROVE  QueueIf(c, op) \in Seq(Functors)
<1>1. Functor(op, 0) \in Functors
  BY DEF Functors
<1> QED BY <1>1 DEF QueueIf

(* sendInLoop() keeps the type, and splits the message between wire and     *)
(* outputBuffer_ at the point write() reports.                              *)
LEMMA SendInLoopTypes ==
  ASSUME TypeOK, NEW m \in Messages, SendInLoop(m), UNCHANGED kernelVars
  PROVE  ConnectionTypes'
<1> DEFINE direct == ~IsWriting(channel_) /\ outputBuffer_ = <<>>
           n == IF direct THEN Written(MsgLen) ELSE 0
<1>1. n \in 0..MsgLen /\ Len(wire) + n - acked <= SndCap
  <2>1. /\ Written(MsgLen) \in 0..MsgLen
        /\ Len(wire) + Written(MsgLen) - acked <= SndCap
    BY WrittenBound
  <2>2. 0 \in 0..MsgLen /\ Len(wire) + 0 - acked <= SndCap
    BY DEF TypeOK
  <2> HIDE DEF direct
  <2> QED BY <2>1, <2>2
<1>2. /\ SubSeq(Units(m), 1, n) \in Seq(AllUnits)
      /\ Len(SubSeq(Units(m), 1, n)) = n
      /\ SubSeq(Units(m), n + 1, MsgLen) \in Seq(AllUnits)
      /\ Units(m) \in Seq(AllUnits)
  <2> HIDE DEF n
  <2> QED BY <1>1, UnitsType, SubSeqType
<1>3. /\ wire' = wire \o SubSeq(Units(m), 1, n)
      /\ outputBuffer_' = outputBuffer_ \o SubSeq(Units(m), n + 1, MsgLen)
      /\ stream' = stream \o Units(m)
      /\ channel_' \in {channel_, EnableWriting(channel_)}
      /\ soError' \in {soError, ErrorAfterWrite}
  BY DEF SendInLoop, WriteOrBuffer
<1>4. wire' \in Seq(AllUnits) /\ Len(wire') = Len(wire) + n
  <2> HIDE DEF n
  <2> QED BY <1>2, <1>3, ConcatProperties DEF TypeOK
<1>5. outputBuffer_' \in Seq(AllUnits) /\ stream' \in Seq(AllUnits)
  <2> HIDE DEF n
  <2> QED BY <1>2, <1>3, ConcatProperties DEF TypeOK
<1>6. acked' \in 0..Len(wire') /\ Len(wire') - acked' <= SndCap
  <2> HIDE DEF n
  <2> QED BY <1>1, <1>4 DEF TypeOK, kernelVars
<1>7. channel_' \in Channels
  BY <1>3, ChannelTypes DEF TypeOK
<1>8. pending' \in Seq(Functors)
  <2>1. PICK a \in Seq(Functors), b \in Seq(Functors) : pending' = pending \o a \o b
    BY QueueIfType DEF SendInLoop, WriteOrBuffer
  <2> QED BY <2>1 DEF TypeOK
<1>9. soError' \in BOOLEAN /\ warnings' \in Nat
  <2>1. soError' \in BOOLEAN
    BY <1>3 DEF TypeOK, ErrorAfterWrite
  <2>2. warnings' \in {warnings, warnings + 1}
    <3>1. warnings \in Nat
      BY DEF TypeOK
    <3>2. PICK high \in BOOLEAN : warnings' = warnings + (IF high THEN 1 ELSE 0)
      BY DEF SendInLoop, WriteOrBuffer
    <3> QED BY <3>1, <3>2
  <2> QED BY <2>1, <2>2 DEF TypeOK
<1> QED
  BY <1>4, <1>5, <1>6, <1>7, <1>8, <1>9
  DEF TypeOK, ConnectionTypes, SendInLoop, WriteOrBuffer, serverVars

(* handleWrite() keeps the type.                                            *)
LEMMA HandleWriteTypes ==
  ASSUME TypeOK, HandleWrite, UNCHANGED kernelVars
  PROVE  ConnectionTypes'
<1> DEFINE n == IF IsWriting(channel_) THEN Written(Len(outputBuffer_)) ELSE 0
<1>1. /\ Len(outputBuffer_) \in Nat /\ n \in 0..Len(outputBuffer_)
      /\ Len(wire) + n - acked <= SndCap
  <2> DEFINE len == Len(outputBuffer_)
  <2>1. len \in Nat /\ 0 \in 0..len /\ Len(wire) + 0 - acked <= SndCap
    BY DEF TypeOK
  <2>2. Written(len) \in 0..len /\ Len(wire) + Written(len) - acked <= SndCap
    <3> HIDE DEF len
    <3> QED BY <2>1, WrittenBound
  <2> QED BY <2>1, <2>2
<1>2. /\ wire' = wire \o SubSeq(outputBuffer_, 1, n)
      /\ outputBuffer_' = SubSeq(outputBuffer_, n + 1, Len(outputBuffer_))
      /\ channel_' \in {channel_, DisableWriting(channel_)}
      /\ soError' \in {soError, ErrorAfterWrite}
  BY DEF HandleWrite, WriteBuffered
<1> HIDE DEF n
<1>3. /\ SubSeq(outputBuffer_, 1, n) \in Seq(AllUnits)
      /\ Len(SubSeq(outputBuffer_, 1, n)) = n
      /\ outputBuffer_' \in Seq(AllUnits)
  BY <1>1, <1>2, SubSeqType DEF TypeOK
<1>4. wire' \in Seq(AllUnits) /\ Len(wire') = Len(wire) + n
  BY <1>2, <1>3, ConcatProperties DEF TypeOK
<1>5. acked' \in 0..Len(wire') /\ Len(wire') - acked' <= SndCap
  BY <1>1, <1>4 DEF TypeOK, kernelVars
<1>6. channel_' \in Channels
  BY <1>2, ChannelTypes DEF TypeOK
<1>7. pending' \in Seq(Functors)
  <2>1. PICK a \in Seq(Functors) : pending' = pending \o a
    BY QueueIfType DEF HandleWrite, WriteBuffered
  <2> QED BY <2>1 DEF TypeOK
<1>8. soError' \in BOOLEAN /\ warnings' \in Nat /\ shutWr' \in BOOLEAN
  BY <1>2 DEF TypeOK, HandleWrite, WriteBuffered, ErrorAfterWrite
<1> QED
  BY <1>3, <1>4, <1>5, <1>6, <1>7, <1>8
  DEF TypeOK, ConnectionTypes, HandleWrite, WriteBuffered, serverVars

(* The member functions that leave the buffers alone keep the type.         *)
LEMMA OtherTypes ==
  ASSUME TypeOK, UNCHANGED kernelVars,
         \/ (ShutdownInLoop /\ state_' \in {state_, "kDisconnecting"})
         \/ StartReadInLoop \/ StopReadInLoop
         \/ ConnectionEstablished \/ ConnectionDestroyed
         \/ HandleClose \/ HandleError \/ HandleRead
  PROVE  ConnectionTypes'
<1> USE DEF TypeOK, ConnectionTypes, kernelVars, bufferVars, serverVars
<1>c. /\ EnableReading(channel_) \in Channels
      /\ DisableReading(channel_) \in Channels
      /\ DisableAll(channel_) \in Channels
      /\ RemoveChannel(channel_) \in Channels
      /\ RemoveChannel(DisableAll(channel_)) \in Channels
  BY ChannelTypes
<1>q. Append(pending, Functor("connectionDestroyed", 0)) \in Seq(Functors)
  BY AppendProperties DEF Functors
<1>b. /\ Append(callbacks, "up") \in Seq({"up", "down"})
      /\ Append(callbacks, "down") \in Seq({"up", "down"})
  OBVIOUS
<1>1. CASE ShutdownInLoop /\ state_' \in {state_, "kDisconnecting"}
  BY <1>1 DEF ShutdownInLoop
<1>2. CASE StartReadInLoop
  BY <1>2, <1>c DEF StartReadInLoop
<1>3. CASE StopReadInLoop
  BY <1>3, <1>c DEF StopReadInLoop
<1>4. CASE ConnectionEstablished
  BY <1>4, <1>c, <1>b DEF ConnectionEstablished
<1>5. CASE ConnectionDestroyed
  BY <1>5, <1>c, <1>b DEF ConnectionDestroyed
<1>6. ASSUME HandleClose PROVE ConnectionTypes'
  <2>1. /\ pending' \in Seq(Functors) /\ connections_' \in BOOLEAN
        /\ removals' \in Nat
        /\ aborted' \in {"no", "handleClose", "removeConnectionInLoop",
                         "removeChannel", "connectionEstablished"}
    <3>1. CASE state_ \in {"kConnected", "kDisconnecting"} /\ SharedLoop
      <4>1. RemoveConnectionInLoop /\ removals' = removals
        BY <1>6, <3>1 DEF HandleClose, CloseWith
      <4> QED BY <4>1, <1>q DEF RemoveConnectionInLoop
    <3>2. CASE state_ \in {"kConnected", "kDisconnecting"} /\ ~SharedLoop
      <4>1. /\ removals' = removals + 1
            /\ UNCHANGED <<connections_, pending, aborted>>
        BY <1>6, <3>2 DEF HandleClose, CloseWith
      <4> QED BY <4>1
    <3>3. CASE state_ \notin {"kConnected", "kDisconnecting"}
      BY <1>6, <3>3 DEF HandleClose, CloseWith
    <3> QED BY <3>1, <3>2, <3>3
  <2>2. /\ channel_' \in Channels
        /\ callbacks' \in Seq({"up", "down"})
        /\ state_' \in {state_, "kDisconnected"}
    BY <1>6, <1>c, <1>b DEF HandleClose, CloseWith
  <2>3. UNCHANGED <<reading_, bufferVars, shutWr, soError, rcv>>
    BY <1>6 DEF HandleClose, CloseWith
  <2> QED BY <2>1, <2>2, <2>3
<1>7. ASSUME HandleError PROVE ConnectionTypes'
  BY <1>7 DEF HandleError
<1>8. CASE HandleRead
  <2>1. CASE rcv /\ rcv' = FALSE
             /\ UNCHANGED <<state_, reading_, channel_, bufferVars, shutWr,
                            soError, pending, serverVars, callbacks, aborted>>
    BY <2>1
  <2> QED BY <1>6, <1>7, <1>8, <2>1 DEF HandleRead
<1> QED BY <1>1, <1>2, <1>3, <1>4, <1>5, <1>6, <1>7, <1>8
------------------------------------------------------------------------------
(* Then what the threads and the network assign.                            *)

LoopTypes ==
  /\ peer \in {"open", "fin", "reset"}
  /\ phase \in {"poll", "events", "functors"}
  /\ revents_ \subseteq Revents
  /\ batch \in Seq(Functors)
  /\ user \in [Threads -> Functors \cup {Idle, Functor("setState", 0)}]
  /\ sender \in Seq(Threads \cup {LoopThread}) /\ Len(sender) <= MaxSends
  /\ promised \subseteq Messages
  /\ toggles \in 0..MaxToggles

(* The two halves of the type invariant.                                    *)
LEMMA TypeSplit == TypeOK <=> ConnectionTypes /\ LoopTypes
  BY Zenon DEF TypeOK, ConnectionTypes, LoopTypes

(* The next message has a number within the bound.                          *)
LEMMA NextMessage ==
  ASSUME TypeOK, Len(sender) < MaxSends, NEW t \in Threads \cup {LoopThread},
         sender' = Append(sender, t)
  PROVE  /\ Len(sender') \in Messages
         /\ sender' \in Seq(Threads \cup {LoopThread})
         /\ Len(sender') <= MaxSends
<1>1. sender \in Seq(Threads \cup {LoopThread}) /\ Len(sender) \in Nat
  BY DEF TypeOK
<1>2. Len(sender') = Len(sender) + 1 /\ sender' \in Seq(Threads \cup {LoopThread})
  BY <1>1, AppendProperties
<1> QED BY <1>1, <1>2 DEF Messages

(* What a thread has sent are messages.                                     *)
LEMMA SentType ==
  ASSUME TypeOK, NEW t
  PROVE  Sent(t) \subseteq Messages
  BY DEF TypeOK, Sent, Messages

(* A step of handleEvent() keeps the types of the loop's variables.         *)
LEMMA HandleTypes ==
  ASSUME TypeOK, NEW e, Handle(e)
  PROVE  LoopTypes' /\ UNCHANGED kernelVars
  BY DEF TypeOK, LoopTypes, Handle, kernelVars, callVars

(* So does running the functor at the head of a batch, which names a        *)
(* message if it is a sendInLoop().                                         *)
LEMMA RunTypes ==
  ASSUME TypeOK, NEW op, Run(op)
  PROVE  /\ LoopTypes' /\ UNCHANGED kernelVars
         /\ op = "sendInLoop" => Head(batch).msg \in Messages
<1>1. batch \in Seq(Functors) /\ batch # <<>> /\ batch' = Tail(batch)
      /\ Head(batch).op = op
  BY DEF TypeOK, Run
<1>2. Head(batch) \in Functors /\ batch' \in Seq(Functors)
  BY <1>1, HeadTailProperties
<1>3. op = "sendInLoop" => Head(batch).msg \in Messages
  BY <1>1, <1>2 DEF Functors, Functor
<1> QED BY <1>2, <1>3 DEF TypeOK, LoopTypes, Run, kernelVars, callVars

(* The type invariant is inductive: one step per action.                    *)
LEMMA TypeInvariant == TypeOK /\ [Next]_vars => TypeOK'
<1> SUFFICES ASSUME TypeOK, [Next]_vars PROVE TypeOK'
  OBVIOUS
<1>s. ASSUME ConnectionTypes', LoopTypes' PROVE TypeOK'
  BY <1>s, TypeSplit, PTL
<1>t. ConnectionTypes /\ LoopTypes
  BY TypeSplit
<1>a. CASE Poll
  <2>1. Handled(Reported(channel_, Conditions)) \subseteq Revents
    BY DEF Handled, Reported, Conditions, Revents, Events
  <2> QED BY <1>a, <2>1 DEF TypeOK, Poll, bufferVars, kernelVars, serverVars,
                            callVars
<1>b. CASE HandleHup
  BY <1>b, <1>s, HandleTypes, OtherTypes DEF HandleHup
<1>c. CASE HandleErr
  BY <1>c, <1>s, HandleTypes, OtherTypes DEF HandleErr
<1>d. CASE HandleIn
  BY <1>d, <1>s, HandleTypes, OtherTypes DEF HandleIn
<1>e. CASE HandleOut
  BY <1>e, <1>s, HandleTypes, HandleWriteTypes DEF HandleOut
<1>f. CASE DoPendingFunctors
  BY <1>f DEF TypeOK, DoPendingFunctors, bufferVars, kernelVars, serverVars,
              callVars
<1>g. CASE FunctorsDone
  BY <1>g DEF TypeOK, FunctorsDone, bufferVars, kernelVars, serverVars, callVars
<1>h. CASE RunConnectionEstablished
  BY <1>h, <1>s, RunTypes, OtherTypes DEF RunConnectionEstablished
<1>i. CASE RunSendInLoop
  BY <1>i, <1>s, RunTypes, SendInLoopTypes DEF RunSendInLoop
<1>j. CASE RunShutdownInLoop
  BY <1>j, <1>s, RunTypes, OtherTypes DEF RunShutdownInLoop
<1>k. CASE RunStartReadInLoop
  BY <1>k, <1>s, RunTypes, OtherTypes DEF RunStartReadInLoop
<1>l. CASE RunStopReadInLoop
  BY <1>l, <1>s, RunTypes, OtherTypes DEF RunStopReadInLoop
<1>m. CASE RunConnectionDestroyed
  BY <1>m, <1>s, RunTypes, OtherTypes DEF RunConnectionDestroyed
<1>n. CASE RunUserCallback
  <2>1. LoopTypes' /\ UNCHANGED kernelVars
    BY <1>n, RunTypes DEF RunUserCallback
  <2>2. ConnectionTypes'
    BY <1>n, <1>t, <2>1 DEF ConnectionTypes, RunUserCallback, bufferVars,
                            serverVars, kernelVars
  <2> QED BY <1>s, <2>1, <2>2
<1>o. CASE LoopSend
  <2>1. /\ Len(sender') \in Messages
        /\ sender' \in Seq(Threads \cup {LoopThread})
        /\ Len(sender') <= MaxSends
    BY <1>o, NextMessage DEF LoopSend
  <2>2. LoopTypes' /\ UNCHANGED kernelVars
    BY <1>o, <1>t, <2>1 DEF LoopTypes, LoopSend, loopVars, kernelVars
  <2>3. ConnectionTypes'
    BY <1>o, <2>1, <2>2, SendInLoopTypes DEF LoopSend
  <2> QED BY <1>s, <2>2, <2>3
<1>p. CASE LoopShutdown
  <2>1. LoopTypes' /\ UNCHANGED kernelVars
    BY <1>p, <1>t, SentType DEF LoopTypes, LoopShutdown, loopVars, kernelVars
  <2>2. ConnectionTypes'
    BY <1>p, <2>1, OtherTypes DEF LoopShutdown
  <2> QED BY <1>s, <2>1, <2>2
<1>q. CASE LoopReadControl
  <2>1. LoopTypes' /\ UNCHANGED kernelVars
    BY <1>q, <1>t DEF LoopTypes, LoopReadControl, loopVars, kernelVars
  <2>2. ConnectionTypes'
    BY <1>q, <2>1, OtherTypes DEF LoopReadControl
  <2> QED BY <1>s, <2>1, <2>2
<1>r. CASE BaseLoopRemove
  <2>1. Append(pending, Functor("connectionDestroyed", 0)) \in Seq(Functors)
    BY AppendProperties DEF TypeOK, Functors
  <2>2. RemoveConnectionInLoop /\ removals' = removals - 1 /\ removals > 0
    BY <1>r DEF BaseLoopRemove
  <2>3. /\ pending' \in Seq(Functors) /\ connections_' \in BOOLEAN
        /\ aborted' \in {"no", "handleClose", "removeConnectionInLoop",
                         "removeChannel", "connectionEstablished"}
    BY <1>t, <2>1, <2>2 DEF ConnectionTypes, RemoveConnectionInLoop
  <2>4. removals' \in Nat
    BY <1>t, <2>2 DEF ConnectionTypes
  <2>5. UNCHANGED <<state_, reading_, channel_, bufferVars, kernelVars, shutWr,
                    soError, rcv, loopVars, callVars, callbacks>>
    BY <1>r DEF BaseLoopRemove
  <2>6. ConnectionTypes'
    BY <1>t, <2>3, <2>4, <2>5 DEF ConnectionTypes, bufferVars, kernelVars
  <2>7. LoopTypes'
    BY <1>t, <2>5 DEF LoopTypes, kernelVars, loopVars, callVars
  <2> QED BY <1>s, <2>6, <2>7
<1>u. CASE Network
  <2>1. /\ acked' \in 0..Len(wire') /\ Len(wire') - acked' <= SndCap
        /\ peer' \in {"open", "fin", "reset"}
    BY <1>u, <1>t, SMTT(30) DEF ConnectionTypes, LoopTypes, Network, Ack, PeerData,
                      PeerFin, PeerReset, NetworkUnchanged, bufferVars
  <2>2. soError' \in BOOLEAN /\ rcv' \in BOOLEAN
    BY <1>u, <1>t DEF ConnectionTypes, Network, Ack, PeerData, PeerFin, PeerReset
  <2>3. NetworkUnchanged
    BY <1>u DEF Network, Ack, PeerData, PeerFin, PeerReset
  <2>4. ConnectionTypes'
    BY <1>t, <2>1, <2>2, <2>3 DEF ConnectionTypes, NetworkUnchanged, bufferVars,
                                  serverVars
  <2>5. LoopTypes'
    BY <1>t, <2>1, <2>3 DEF LoopTypes, NetworkUnchanged, loopVars, callVars
  <2> QED BY <1>s, <2>4, <2>5
<1>v. ASSUME NEW t \in Threads, Thread(t) PROVE TypeOK'
  <2>1. CASE Send(t)
    <3>1. /\ Len(sender') \in Messages
          /\ sender' \in Seq(Threads \cup {LoopThread})
          /\ Len(sender') <= MaxSends
      BY <2>1, NextMessage DEF Send
    <3>2. Functor("sendInLoop", Len(sender')) \in Functors
      BY <3>1 DEF Functors
    <3> QED BY <2>1, <3>1, <3>2 DEF TypeOK, Send, bufferVars, kernelVars,
                                    loopVars, serverVars
  <2>2. CASE Shutdown(t)
    BY <2>2 DEF TypeOK, Shutdown, bufferVars, kernelVars, loopVars, serverVars
  <2>3. CASE SetDisconnecting(t)
    <3>1. Functor("shutdownInLoop", 0) \in Functors
      BY DEF Functors
    <3> QED BY <2>3, <3>1, SentType DEF TypeOK, SetDisconnecting, bufferVars,
                                   kernelVars, loopVars, serverVars
  <2>4. CASE CallReadControl(t)
    <3>1. \A op \in ReadControl : Functor(op, 0) \in Functors
      BY DEF Functors
    <3> QED BY <2>4, <3>1 DEF TypeOK, CallReadControl, bufferVars, kernelVars,
                              loopVars, serverVars
  <2>5. CASE QueueInLoop(t)
    <3>1. user[t] \in Functors
      BY <2>5 DEF TypeOK, QueueInLoop, Idle, Functor
    <3> QED BY <2>5, <3>1 DEF TypeOK, QueueInLoop, bufferVars, kernelVars,
                              loopVars, serverVars
  <2> QED BY <1>v, <2>1, <2>2, <2>3, <2>4, <2>5 DEF Thread, Finish
<1>w. CASE UNCHANGED vars
  BY <1>w DEF TypeOK, vars, bufferVars, kernelVars, loopVars, serverVars,
              callVars
<1> QED
  BY <1>a, <1>b, <1>c, <1>d, <1>e, <1>f, <1>g, <1>h, <1>i, <1>j, <1>k, <1>l,
     <1>m, <1>n, <1>o, <1>p, <1>q, <1>r, <1>u, <1>v, <1>w
  DEF Next, Loop, LoopThreadCall
(* The initial state has its type.                                          *)
LEMMA TypeInit == Init => TypeOK
<1> SUFFICES ASSUME Init PROVE ConnectionTypes /\ LoopTypes
  BY TypeSplit
<1>1. NewChannel \in Channels
  BY DEF NewChannel, Channels, Events
<1>2. Functor("connectionEstablished", 0) \in Functors
  BY DEF Functors
<1>3. pending \in Seq(Functors)
  BY <1>2 DEF Init
<1>4. ConnectionTypes
  <2>1. /\ reading_ \in BOOLEAN /\ shutWr \in BOOLEAN /\ soError \in BOOLEAN
        /\ rcv \in BOOLEAN /\ connections_ \in BOOLEAN /\ warnings \in Nat
    BY Zenon DEF Init
  <2>2. /\ outputBuffer_ \in Seq(AllUnits) /\ wire \in Seq(AllUnits)
        /\ stream \in Seq(AllUnits) /\ callbacks \in Seq({"up", "down"})
        /\ acked \in 0..Len(wire) /\ Len(wire) - acked <= SndCap
        /\ removals \in Nat
    BY DEF Init
  <2>3. /\ state_ = "kConnecting" /\ aborted = "no" /\ channel_ \in Channels
    BY <1>1 DEF Init
  <2> QED BY <1>3, <2>1, <2>2, <2>3 DEF ConnectionTypes
<1>5. LoopTypes
  BY DEF Init, LoopTypes
<1> QED BY <1>4, <1>5

(* The state of a connection keeps its type, whatever the threads, the peer *)
(* and the loops do; no more than the send buffer holds is ever on its way. *)
THEOREM TypeCorrect == Spec => []TypeOK
  BY TypeInit, TypeInvariant, PTL DEF Spec
------------------------------------------------------------------------------
(* The channel.  Every step leaves it alone or calls one of the operators   *)
(* of module Channel on it.                                                 *)

ChannelStep ==
  channel_' \in {channel_, EnableReading(channel_), DisableReading(channel_),
                 EnableWriting(channel_), DisableWriting(channel_),
                 DisableAll(channel_), RemoveChannel(channel_),
                 RemoveChannel(DisableAll(channel_))}

(* No step changes the channel in any other way.                            *)
LEMMA ChannelSteps == [Next]_vars => ChannelStep
<1> SUFFICES ASSUME [Next]_vars PROVE ChannelStep
  OBVIOUS
<1> USE DEF ChannelStep
<1>1. ASSUME NEW m, SendInLoop(m) PROVE ChannelStep
  BY <1>1 DEF SendInLoop, WriteOrBuffer
<1>2. ASSUME HandleClose PROVE ChannelStep
  BY <1>2 DEF HandleClose, CloseWith
<1>3. CASE Loop
  <2>1. CASE HandleHup \/ HandleErr \/ HandleIn
    BY <1>2, <2>1 DEF HandleHup, HandleErr, HandleIn, HandleRead, HandleError
  <2>2. CASE HandleOut
    BY <2>2 DEF HandleOut, HandleWrite, WriteBuffered
  <2>3. CASE RunSendInLoop
    BY <1>1, <2>3 DEF RunSendInLoop
  <2>4. CASE RunConnectionEstablished
    BY <2>4 DEF RunConnectionEstablished, ConnectionEstablished
  <2>5. CASE RunConnectionDestroyed
    BY <2>5 DEF RunConnectionDestroyed, ConnectionDestroyed
  <2>6. CASE RunStartReadInLoop \/ RunStopReadInLoop
    BY <2>6 DEF RunStartReadInLoop, RunStopReadInLoop, StartReadInLoop,
                StopReadInLoop
  <2>7. CASE \/ Poll \/ DoPendingFunctors \/ FunctorsDone
             \/ RunShutdownInLoop \/ RunUserCallback
    BY <2>7 DEF Poll, DoPendingFunctors, FunctorsDone, RunShutdownInLoop,
                ShutdownInLoop, RunUserCallback
  <2> QED BY <1>3, <2>1, <2>2, <2>3, <2>4, <2>5, <2>6, <2>7 DEF Loop
<1>4. CASE LoopThreadCall
  BY <1>1, <1>4 DEF LoopThreadCall, LoopSend, LoopShutdown, ShutdownInLoop,
                    LoopReadControl, StartReadInLoop, StopReadInLoop
<1>5. CASE BaseLoopRemove
  BY <1>5 DEF BaseLoopRemove
<1>6. CASE Network
  BY <1>6 DEF Network, Ack, PeerData, PeerFin, PeerReset, NetworkUnchanged
<1>7. ASSUME NEW t \in Threads, Thread(t) PROVE ChannelStep
  BY <1>7 DEF Thread, Finish, Send, Shutdown, CallReadControl, SetDisconnecting,
              QueueInLoop
<1>8. CASE UNCHANGED vars
  BY <1>8 DEF vars
<1> QED BY <1>3, <1>4, <1>5, <1>6, <1>7, <1>8 DEF Next

(* EPoller's record of the channel agrees with the epoll set and with the   *)
(* events the channel asks for, in every order in which the handlers, the   *)
(* functors and the calls of the users change it.                           *)
THEOREM RegistrationKept == Spec => []ChannelRegistered
<1>1. Init => ChannelRegistered
  BY DEF Init, ChannelRegistered, Registration, NewChannel, IsNoneEvent
<1>2. TypeOK /\ ChannelRegistered /\ [Next]_vars => ChannelRegistered'
  <2> SUFFICES ASSUME TypeOK, Registration(channel_), [Next]_vars
               PROVE  Registration(channel_')
    BY DEF ChannelRegistered
  <2>1. channel_ \in Channels
    BY DEF TypeOK
  <2>2. DisableAll(channel_) \in Channels /\ Registration(DisableAll(channel_))
    BY <2>1, ChannelTypes, UpdateRegisters
  <2>3. ChannelStep
    BY ChannelSteps
  <2> QED BY <2>1, <2>2, <2>3, UpdateRegisters DEF ChannelStep
<1> QED BY <1>1, <1>2, TypeCorrect, PTL DEF Spec

------------------------------------------------------------------------------
(* The byte stream.                                                         *)

(* sendInLoop() adds its message to the stream: either nothing waits, and   *)
(* the message is cut in two, or all of it goes behind what waits.          *)
LEMMA SendInLoopStream ==
  ASSUME TypeOK, ByteStream, NEW m \in Messages, SendInLoop(m)
  PROVE  ByteStream'
<1> DEFINE direct == ~IsWriting(channel_) /\ outputBuffer_ = <<>>
           n == IF direct THEN Written(MsgLen) ELSE 0
<1>1. n \in 0..MsgLen /\ (n = 0 \/ outputBuffer_ = <<>>)
  <2>1. Written(MsgLen) \in 0..MsgLen
    BY WrittenBound
  <2> QED BY <2>1
<1>2. /\ wire' = wire \o SubSeq(Units(m), 1, n)
      /\ outputBuffer_' = outputBuffer_ \o SubSeq(Units(m), n + 1, MsgLen)
      /\ stream' = stream \o Units(m)
  BY DEF SendInLoop, WriteOrBuffer
<1>3. wire \in Seq(AllUnits) /\ outputBuffer_ \in Seq(AllUnits)
  BY DEF TypeOK
<1>4. PICK u \in Seq(AllUnits) : u = Units(m) /\ Len(u) = MsgLen
  BY UnitsType
<1>5. PICK k \in 0..Len(u) :
        /\ wire' = wire \o SubSeq(u, 1, k)
        /\ outputBuffer_' = outputBuffer_ \o SubSeq(u, k + 1, Len(u))
        /\ k = 0 \/ outputBuffer_ = <<>>
  <2> HIDE DEF n
  <2> QED BY <1>1, <1>2, <1>4
<1>6. stream = wire \o outputBuffer_ /\ stream' = stream \o u
  BY <1>2, <1>4 DEF ByteStream
<1>7. CASE outputBuffer_ = <<>>
  <2>1. stream = wire
    BY <1>3, <1>6, <1>7, ConcatEmptySeq, Zenon
  <2>2. SubSeq(u, k + 1, Len(u)) \in Seq(AllUnits)
    BY SubSeqType
  <2>3. outputBuffer_' = SubSeq(u, k + 1, Len(u))
    BY <1>5, <1>7, <2>2, ConcatEmptySeq, Zenon
  <2>4. wire' \o outputBuffer_' = wire \o u
    BY <1>3, <1>5, <2>3, MoveFront, ZenonT(60)
  <2> QED BY <1>6, <2>1, <2>4, Zenon DEF ByteStream
<1>8. CASE k = 0
  <2>1. SubSeq(u, 1, k) = <<>> /\ SubSeq(u, k + 1, Len(u)) = u
    BY <1>8, SubSeqEmpty, SubSeqFull
  <2>2. wire' = wire
    BY <1>3, <1>5, <2>1, ConcatEmptySeq, Zenon
  <2>3. (wire \o outputBuffer_) \o u = wire \o (outputBuffer_ \o u)
    BY <1>3, ConcatRegroups, SMTT(60)
  <2> QED BY <1>5, <1>6, <2>1, <2>2, <2>3, Zenon DEF ByteStream
<1> QED BY <1>5, <1>7, <1>8

(* handleWrite() moves the front of the buffer to the wire.                 *)
LEMMA HandleWriteStream ==
  ASSUME TypeOK, ByteStream, HandleWrite
  PROVE  ByteStream'
<1> DEFINE n == IF IsWriting(channel_) THEN Written(Len(outputBuffer_)) ELSE 0
<1>1. wire \in Seq(AllUnits) /\ outputBuffer_ \in Seq(AllUnits)
      /\ Len(outputBuffer_) \in Nat
  BY DEF TypeOK
<1>2. n \in 0..Len(outputBuffer_)
  BY <1>1, WrittenBound
<1>3. /\ wire' = wire \o SubSeq(outputBuffer_, 1, n)
      /\ outputBuffer_' = SubSeq(outputBuffer_, n + 1, Len(outputBuffer_))
      /\ stream' = stream
  BY DEF HandleWrite, WriteBuffered
<1> HIDE DEF n
<1> QED BY <1>1, <1>2, <1>3, MoveFront, Zenon DEF ByteStream

(* Every other step leaves the buffers alone.                               *)
LEMMA StreamSteps ==
  ASSUME TypeOK, [Next]_vars
  PROVE  \/ UNCHANGED bufferVars
         \/ HandleWrite
         \/ \E m \in Messages : SendInLoop(m)
<1> USE DEF bufferVars
<1> DEFINE Quiet == UNCHANGED bufferVars
<1>1. ASSUME HandleClose PROVE Quiet
  BY <1>1 DEF HandleClose, CloseWith
<1>2. CASE Loop
  <2>1. CASE HandleHup \/ HandleErr \/ HandleIn
    BY <1>1, <2>1 DEF HandleHup, HandleErr, HandleIn, HandleRead, HandleError
  <2>2. CASE HandleOut
    BY <2>2 DEF HandleOut
  <2>3. CASE RunSendInLoop
    BY <2>3, RunTypes DEF RunSendInLoop
  <2>4. CASE \/ RunConnectionEstablished \/ RunConnectionDestroyed
             \/ RunStartReadInLoop \/ RunStopReadInLoop
    BY <2>4 DEF RunConnectionEstablished, ConnectionEstablished,
                RunConnectionDestroyed, ConnectionDestroyed, RunStartReadInLoop,
                RunStopReadInLoop, StartReadInLoop, StopReadInLoop
  <2>5. CASE \/ Poll \/ DoPendingFunctors \/ FunctorsDone
             \/ RunShutdownInLoop \/ RunUserCallback
    BY <2>5 DEF Poll, DoPendingFunctors, FunctorsDone, RunShutdownInLoop,
                ShutdownInLoop, RunUserCallback
  <2> QED BY <1>2, <2>1, <2>2, <2>3, <2>4, <2>5 DEF Loop
<1>3. CASE LoopSend
  <2>1. Len(sender') \in Messages
    BY <1>3, NextMessage DEF LoopSend
  <2> QED BY <1>3, <2>1 DEF LoopSend
<1>4. CASE LoopShutdown \/ LoopReadControl
  BY <1>4 DEF LoopShutdown, ShutdownInLoop, LoopReadControl, StartReadInLoop,
              StopReadInLoop
<1>5. CASE BaseLoopRemove
  BY <1>5 DEF BaseLoopRemove
<1>6. CASE Network
  BY <1>6 DEF Network, Ack, PeerData, PeerFin, PeerReset, NetworkUnchanged
<1>7. ASSUME NEW t \in Threads, Thread(t) PROVE Quiet
  BY <1>7 DEF Thread, Finish, Send, Shutdown, CallReadControl, SetDisconnecting,
              QueueInLoop
<1>8. CASE UNCHANGED vars
  BY <1>8 DEF vars
<1> QED BY <1>2, <1>3, <1>4, <1>5, <1>6, <1>7, <1>8 DEF Next, LoopThreadCall

(* What is on the wire and in outputBuffer_ is every message given to       *)
(* sendInLoop(), whole and in order, for any split that write() makes.      *)
THEOREM StreamKept == Spec => []ByteStream
<1>1. Init => ByteStream
  BY DEF Init, ByteStream
<1>2. TypeOK /\ ByteStream /\ [Next]_vars => ByteStream'
  <2> SUFFICES ASSUME TypeOK, ByteStream, [Next]_vars PROVE ByteStream'
    OBVIOUS
  <2>1. CASE UNCHANGED bufferVars
    BY <2>1 DEF ByteStream, bufferVars
  <2> QED BY <2>1, StreamSteps, SendInLoopStream, HandleWriteStream
<1> QED BY <1>1, <1>2, TypeCorrect, PTL DEF Spec
------------------------------------------------------------------------------
(* The high-water mark.                                                     *)

(* sendInLoop() queues the callback exactly when what it adds makes the     *)
(* buffer reach the mark.                                                   *)
LEMMA SendInLoopTells ==
  ASSUME TypeOK, HighWaterTold, NEW m \in Messages, SendInLoop(m)
  PROVE  HighWaterTold'
<1> DEFINE direct == ~IsWriting(channel_) /\ outputBuffer_ = <<>>
           n == IF direct THEN Written(MsgLen) ELSE 0
           high == n < MsgLen /\ PassesMark(Len(outputBuffer_),
                                           Len(outputBuffer_) + (MsgLen - n))
<1>1. n \in 0..MsgLen
  <2>1. Written(MsgLen) \in 0..MsgLen
    BY WrittenBound
  <2> QED BY <2>1
<1>2. /\ outputBuffer_' = outputBuffer_ \o SubSeq(Units(m), n + 1, MsgLen)
      /\ warnings' = warnings + (IF high THEN 1 ELSE 0)
  BY DEF SendInLoop, WriteOrBuffer
<1> HIDE DEF n
<1>3. /\ SubSeq(Units(m), n + 1, MsgLen) \in Seq(AllUnits)
      /\ Len(SubSeq(Units(m), n + 1, MsgLen)) = MsgLen - n
  BY <1>1, UnitsType, SubSeqType
<1>4. Len(outputBuffer_') = Len(outputBuffer_) + (MsgLen - n)
  BY <1>2, <1>3, ConcatProperties DEF TypeOK
<1>5. Len(outputBuffer_) \in Nat /\ warnings \in Nat
  BY DEF TypeOK
<1>6. Len(outputBuffer_') >= highWaterMark_
        <=> Len(outputBuffer_) >= highWaterMark_ \/ high
  BY <1>1, <1>4, <1>5 DEF PassesMark
<1>7. high => ~(Len(outputBuffer_) >= highWaterMark_)
  BY <1>5 DEF PassesMark
<1> HIDE DEF high
<1>8. CASE high
  <2>1. warnings = 0
    BY <1>7, <1>8, Zenon DEF HighWaterTold
  <2>2. warnings' = 1
    BY <1>2, <1>8, <2>1
  <2> QED BY <1>6, <1>8, <2>2, Zenon DEF HighWaterTold
<1>9. CASE ~high
  <2>1. warnings' = warnings
    BY <1>2, <1>5, <1>9
  <2> QED BY <1>6, <1>9, <2>1, Zenon DEF HighWaterTold
<1> QED BY <1>8, <1>9

(* handleWrite() only shortens the buffer, and begins to count anew when it *)
(* falls below the mark.                                                    *)
LEMMA HandleWriteTells ==
  ASSUME TypeOK, HighWaterTold, HandleWrite
  PROVE  HighWaterTold'
<1> DEFINE n == IF IsWriting(channel_) THEN Written(Len(outputBuffer_)) ELSE 0
<1>1. outputBuffer_ \in Seq(AllUnits) /\ Len(outputBuffer_) \in Nat
  BY DEF TypeOK
<1>2. n \in 0..Len(outputBuffer_)
  BY <1>1, WrittenBound
<1>3. /\ outputBuffer_' = SubSeq(outputBuffer_, n + 1, Len(outputBuffer_))
      /\ warnings' = IF Len(outputBuffer_') < highWaterMark_ THEN 0 ELSE warnings
  BY DEF HandleWrite, WriteBuffered
<1> HIDE DEF n
<1>4. Len(outputBuffer_') = Len(outputBuffer_) - n
  BY <1>1, <1>2, <1>3, SubSeqType
<1>5. Len(outputBuffer_') >= highWaterMark_
        => Len(outputBuffer_) >= highWaterMark_
  BY <1>1, <1>2, <1>4
<1>6. Len(outputBuffer_') < highWaterMark_
        <=> ~(Len(outputBuffer_') >= highWaterMark_)
  BY <1>1, <1>2, <1>4
<1> QED BY <1>3, <1>5, <1>6, Zenon DEF HighWaterTold

(* The high-water callback is queued exactly once for each time the buffer  *)
(* reaches highWaterMark_, by the sendInLoop() that reaches it, for any     *)
(* mark, message length, number of sends and sequence of partial writes.    *)
THEOREM HighWaterAlwaysTold == Spec => []HighWaterTold
<1>1. Init => HighWaterTold
  BY DEF Init, HighWaterTold
<1>2. TypeOK /\ HighWaterTold /\ [Next]_vars => HighWaterTold'
  <2> SUFFICES ASSUME TypeOK, HighWaterTold, [Next]_vars PROVE HighWaterTold'
    OBVIOUS
  <2>1. CASE UNCHANGED bufferVars
    BY <2>1 DEF HighWaterTold, bufferVars
  <2> QED BY <2>1, StreamSteps, SendInLoopTells, HandleWriteTells
<1> QED BY <1>1, <1>2, TypeCorrect, PTL DEF Spec
------------------------------------------------------------------------------
(* The functors that wait in the loop.                                      *)

Has(q, op) == \E i \in 1..Len(q) : q[i].op = op
Unique(q, op) ==
  \A i, j \in 1..Len(q) : q[i].op = op /\ q[j].op = op => i = j

Queued(op) == Has(batch, op) \/ Has(pending, op)
AtMostOne(op) == /\ Unique(batch, op) /\ Unique(pending, op)
                 /\ ~(Has(batch, op) /\ Has(pending, op))

(* Taking the head of a queue.                                              *)
LEMMA HasTail ==
  ASSUME NEW q \in Seq(Functors), q # <<>>, NEW op
  PROVE  /\ Tail(q) \in Seq(Functors)
         /\ Has(Tail(q), op) => Has(q, op)
         /\ Head(q).op = op => Has(q, op)
         /\ Unique(q, op) => Unique(Tail(q), op)
         /\ Unique(q, op) /\ Head(q).op = op => ~Has(Tail(q), op)
<1>1. /\ Len(q) \in Nat /\ Len(q) > 0 /\ Tail(q) \in Seq(Functors)
      /\ Len(Tail(q)) = Len(q) - 1 /\ Head(q) = q[1]
      /\ \A i \in 1..Len(Tail(q)) : Tail(q)[i] = q[i + 1]
  BY HeadTailProperties
<1>2. Has(Tail(q), op) => Has(q, op)
  BY <1>1 DEF Has
<1>3. Head(q).op = op => Has(q, op)
  BY <1>1 DEF Has
<1>4. Unique(q, op) => Unique(Tail(q), op)
  <2> SUFFICES ASSUME Unique(q, op), NEW i \in 1..Len(Tail(q)),
                      NEW j \in 1..Len(Tail(q)),
                      Tail(q)[i].op = op, Tail(q)[j].op = op
               PROVE  i = j
    BY DEF Unique
  <2>1. i + 1 \in 1..Len(q) /\ j + 1 \in 1..Len(q) /\ i \in Nat /\ j \in Nat
    BY <1>1
  <2> QED BY <1>1, <2>1 DEF Unique
<1>5. Unique(q, op) /\ Head(q).op = op => ~Has(Tail(q), op)
  <2> SUFFICES ASSUME Unique(q, op), Head(q).op = op,
                      NEW i \in 1..Len(Tail(q)), Tail(q)[i].op = op
               PROVE  FALSE
    BY DEF Has
  <2>1. i + 1 \in 1..Len(q) /\ i + 1 # 1 /\ 1 \in 1..Len(q)
    BY <1>1
  <2> QED BY <1>1, <2>1 DEF Unique
<1> QED BY <1>1, <1>2, <1>3, <1>4, <1>5

(* Appending to a queue.                                                    *)
LEMMA HasConcat ==
  ASSUME NEW q \in Seq(Functors), NEW a \in Seq(Functors), NEW op
  PROVE  /\ q \o a \in Seq(Functors)
         /\ Has(q \o a, op) <=> Has(q, op) \/ Has(a, op)
         /\ Unique(q, op) /\ ~Has(a, op) => Unique(q \o a, op)
         /\ ~Has(q, op) /\ Unique(a, op) => Unique(q \o a, op)
<1> DEFINE c == q \o a
<1>1. /\ c \in Seq(Functors) /\ Len(c) = Len(q) + Len(a)
      /\ Len(q) \in Nat /\ Len(a) \in Nat
      /\ \A i \in 1..Len(q) : c[i] = q[i]
      /\ \A i \in 1..Len(c) : i > Len(q) => c[i] = a[i - Len(q)]
  BY ConcatProperties
<1>i. \A i \in 1..Len(c) : \/ i \in 1..Len(q)
                           \/ i > Len(q) /\ i - Len(q) \in 1..Len(a)
  BY <1>1
<1> HIDE DEF c
<1>2. Has(c, op) => Has(q, op) \/ Has(a, op)
  BY <1>1, <1>i DEF Has
<1>3. Has(q, op) => Has(c, op)
  BY <1>1 DEF Has
<1>4. Has(a, op) => Has(c, op)
  <2> SUFFICES ASSUME NEW i \in 1..Len(a), a[i].op = op PROVE Has(c, op)
    BY DEF Has
  <2>1. i + Len(q) \in 1..Len(c) /\ i + Len(q) > Len(q)
        /\ (i + Len(q)) - Len(q) = i
    BY <1>1
  <2> QED BY <1>1, <2>1 DEF Has
<1>5. Unique(q, op) /\ ~Has(a, op) => Unique(c, op)
  BY <1>1, <1>i DEF Has, Unique
<1>6. ~Has(q, op) /\ Unique(a, op) => Unique(c, op)
  <2> SUFFICES ASSUME ~Has(q, op), Unique(a, op), NEW i \in 1..Len(c),
                      NEW j \in 1..Len(c), c[i].op = op, c[j].op = op
               PROVE  i = j
    BY DEF Unique
  <2>1. i > Len(q) /\ j > Len(q)
    BY <1>1, <1>i DEF Has
  <2>2. i - Len(q) \in 1..Len(a) /\ j - Len(q) \in 1..Len(a)
    BY <1>i, <1>1, <2>1
  <2>3. a[i - Len(q)].op = op /\ a[j - Len(q)].op = op
    BY <1>1, <2>1
  <2>4. i - Len(q) = j - Len(q)
    BY <2>2, <2>3 DEF Unique
  <2> QED BY <1>1, <2>4
<1>7. c \in Seq(Functors)
  BY <1>1
<1> QED BY <1>2, <1>3, <1>4, <1>5, <1>6, <1>7 DEF c
------------------------------------------------------------------------------
(* What a step does to the functors.                                        *)

UserCallbacks == {"writeCompleteCallback_", "highWaterMarkCallback_"}

\* What a step appends: the user's callbacks, connectionDestroyed() when the
\* connection leaves the server's map, and the calls of other threads.
Appends(a) ==
  \A i \in 1..Len(a) :
     \/ a[i].op \in UserCallbacks
     \/ a[i].op = "connectionDestroyed" /\ connections_ /\ ~connections_'
     \/ \E t \in Threads : a[i].op = user[t].op

\* The queue grows, perhaps while the head of the batch runs, or the loop
\* takes the queue as its next batch.
QueueStep ==
  \/ \E a \in Seq(Functors) :
       /\ Appends(a)
       /\ pending' = pending \o a
       /\ \/ batch' = batch
          \/ batch # <<>> /\ batch' = Tail(batch)
  \/ batch = <<>> /\ batch' = pending /\ pending' = <<>>

BatchInPhase == phase # "functors" => batch = <<>>

(* Appending nothing.                                                       *)
LEMMA NothingAppended ==
  ASSUME TypeOK, pending' = pending
  PROVE  <<>> \in Seq(Functors) /\ Appends(<<>>) /\ pending' = pending \o <<>>
<1>1. pending = pending \o <<>>
  BY ConcatEmptySeq DEF TypeOK
<1> QED BY <1>1 DEF Appends

(* What sendInLoop() and handleWrite() queue.                               *)
LEMMA CallbackAppended ==
  ASSUME NEW c, NEW op \in UserCallbacks
  PROVE  /\ QueueIf(c, op) \in Seq(Functors)
         /\ \A i \in 1..Len(QueueIf(c, op)) : QueueIf(c, op)[i].op \in UserCallbacks
  BY QueueIfType DEF QueueIf, Functor, UserCallbacks

(* sendInLoop() and handleWrite() append only the user's callbacks.         *)
LEMMA WriteAppends ==
  ASSUME TypeOK, HandleWrite \/ \E m \in Messages : SendInLoop(m)
  PROVE  \E a \in Seq(Functors) : Appends(a) /\ pending' = pending \o a
<1>1. PICK x \in Seq(Functors), y \in Seq(Functors) :
        /\ pending' = pending \o x \o y
        /\ \A i \in 1..Len(x) : x[i].op \in UserCallbacks
        /\ \A i \in 1..Len(y) : y[i].op \in UserCallbacks
  <2>1. CASE HandleWrite
    <3>1. PICK c : pending' = pending \o QueueIf(c, "writeCompleteCallback_")
      BY <2>1 DEF HandleWrite, WriteBuffered
    <3>2. QueueIf(c, "writeCompleteCallback_") \in Seq(Functors)
      BY CallbackAppended DEF UserCallbacks
    <3>3. pending' = pending \o QueueIf(c, "writeCompleteCallback_") \o <<>>
      BY <3>1, <3>2, ConcatEmptySeq, ConcatProperties DEF TypeOK
    <3>4. <<>> \in Seq(Functors) /\ \A i \in 1..Len(<<>>) : <<>>[i].op \in UserCallbacks
      OBVIOUS
    <3> QED BY <3>2, <3>3, <3>4, CallbackAppended DEF UserCallbacks
  <2>2. CASE \E m \in Messages : SendInLoop(m)
    <3>1. PICK c, d : pending' = pending \o QueueIf(c, "writeCompleteCallback_")
                                         \o QueueIf(d, "highWaterMarkCallback_")
      BY <2>2, ZenonT(60) DEF SendInLoop, WriteOrBuffer
    <3> QED BY <3>1, CallbackAppended DEF UserCallbacks
  <2> QED BY <2>1, <2>2
<1>2. pending' = pending \o (x \o y) /\ x \o y \in Seq(Functors)
  <2>1. pending \in Seq(Functors)
    BY DEF TypeOK
  <2>2. (pending \o x) \o y = pending \o (x \o y)
    BY <2>1, ConcatRegroups, SMTT(60)
  <2>3. x \o y \in Seq(Functors)
    BY ConcatProperties
  <2> QED BY <1>1, <2>2, <2>3, Zenon
<1>3. \A i \in 1..Len(x \o y) : (x \o y)[i].op \in UserCallbacks
  <2> SUFFICES ASSUME NEW i \in 1..Len(x \o y)
               PROVE  (x \o y)[i].op \in UserCallbacks
    OBVIOUS
  <2>1. CASE i \in 1..Len(x)
    BY <1>1, <2>1
  <2>2. CASE i > Len(x)
    <3>1. i - Len(x) \in 1..Len(y) /\ (x \o y)[i] = y[i - Len(x)]
      BY <2>2
    <3> QED BY <1>1, <3>1
  <2> QED BY <2>1, <2>2
<1> QED BY <1>2, <1>3 DEF Appends

(* removeConnectionInLoop() appends connectionDestroyed(), or nothing.      *)
LEMMA RemovalAppends ==
  ASSUME TypeOK, RemoveConnectionInLoop
  PROVE  \E a \in Seq(Functors) : Appends(a) /\ pending' = pending \o a
<1> DEFINE f == Functor("connectionDestroyed", 0)
<1>1. CASE connections_
  <2>1. f \in Functors
    BY DEF Functors
  <2>2. pending' = Append(pending, f) /\ pending \in Seq(Functors)
    BY <1>1 DEF RemoveConnectionInLoop, TypeOK
  <2>3. Appends(<<f>>)
    BY <1>1 DEF Appends, RemoveConnectionInLoop, Functor
  <2> HIDE DEF f
  <2>4. Append(pending, f) = pending \o <<f>> /\ <<f>> \in Seq(Functors)
    BY <2>1, <2>2, AppendIsConcat
  <2> QED BY <2>2, <2>3, <2>4
<1>2. CASE ~connections_
  BY <1>2, NothingAppended DEF RemoveConnectionInLoop
<1> QED BY <1>1, <1>2

(* Every step is such a step.                                               *)
LEMMA QueueSteps == TypeOK /\ BatchInPhase /\ [Next]_vars => QueueStep
<1> SUFFICES ASSUME TypeOK, BatchInPhase, [Next]_vars PROVE QueueStep
  OBVIOUS
<1> DEFINE Grows == \E a \in Seq(Functors) : Appends(a) /\ pending' = pending \o a
           Runs == batch' = batch \/ (batch # <<>> /\ batch' = Tail(batch))
<1>g. ASSUME Grows, Runs PROVE QueueStep
  BY <1>g DEF QueueStep
<1>n. ASSUME pending' = pending PROVE Grows
  BY <1>n, NothingAppended
<1>h. ASSUME NEW e, Handle(e) PROVE Runs
  BY <1>h DEF Handle
<1>r. ASSUME NEW op, Run(op) PROVE Runs
  BY <1>r DEF Run
<1> HIDE DEF Grows
<1>c. ASSUME HandleClose PROVE Grows
  <2>1. pending' = pending \/ RemoveConnectionInLoop
    BY <1>c DEF HandleClose, CloseWith
  <2> QED BY <1>n, <2>1, RemovalAppends DEF Grows
<1>w. ASSUME HandleWrite \/ \E m \in Messages : SendInLoop(m) PROVE Grows
  BY <1>w, WriteAppends DEF Grows
<1>1. CASE HandleHup \/ HandleErr \/ HandleIn
  BY <1>1, <1>c, <1>g, <1>h, <1>n
  DEF HandleHup, HandleErr, HandleIn, HandleRead, HandleError
<1>2. CASE HandleOut
  BY <1>2, <1>g, <1>h, <1>w DEF HandleOut
<1>3. CASE RunSendInLoop
  <2>1. Head(batch).msg \in Messages
    BY <1>3, RunTypes DEF RunSendInLoop
  <2> QED BY <1>3, <2>1, <1>g, <1>r, <1>w DEF RunSendInLoop
<1>4. CASE \/ RunConnectionEstablished \/ RunShutdownInLoop
           \/ RunStartReadInLoop \/ RunStopReadInLoop
           \/ RunConnectionDestroyed \/ RunUserCallback
  BY <1>4, <1>g, <1>n, <1>r
  DEF RunConnectionEstablished, RunShutdownInLoop, RunStartReadInLoop,
      RunStopReadInLoop, RunConnectionDestroyed, RunUserCallback,
      ConnectionEstablished, ShutdownInLoop, StartReadInLoop, StopReadInLoop,
      ConnectionDestroyed
<1>5. CASE DoPendingFunctors
  BY <1>5 DEF DoPendingFunctors, QueueStep, BatchInPhase
<1>6. CASE Poll \/ FunctorsDone
  BY <1>6, <1>g, <1>n DEF Poll, FunctorsDone
<1>7. CASE LoopSend
  <2>1. Len(sender') \in Messages
    BY <1>7, NextMessage DEF LoopSend
  <2>2. Grows
    BY <1>7, <2>1, <1>w DEF LoopSend
  <2> QED BY <1>7, <2>2, <1>g DEF LoopSend, loopVars
<1>8. CASE LoopShutdown \/ LoopReadControl
  BY <1>8, <1>g, <1>n DEF LoopShutdown, LoopReadControl, ShutdownInLoop,
                          StartReadInLoop, StopReadInLoop, loopVars
<1>9. CASE BaseLoopRemove
  BY <1>9, <1>g, RemovalAppends DEF BaseLoopRemove, loopVars, Grows
<1>10. CASE Network
  BY <1>10, <1>g, <1>n DEF Network, Ack, PeerData, PeerFin, PeerReset,
                           NetworkUnchanged, loopVars
<1>11. ASSUME NEW t \in Threads, Thread(t) PROVE QueueStep
  <2>1. CASE QueueInLoop(t)
    <3> DEFINE f == user[t]
    <3>1. /\ pending' = Append(pending, f) /\ pending \in Seq(Functors)
          /\ f \in Functors /\ Runs
      BY <2>1 DEF QueueInLoop, TypeOK, Idle, Functor, loopVars
    <3>2. Appends(<<f>>)
      BY DEF Appends
    <3> HIDE DEF f
    <3>3. Append(pending, f) = pending \o <<f>> /\ <<f>> \in Seq(Functors)
      BY <3>1, AppendIsConcat
    <3>4. Grows
      BY <3>1, <3>2, <3>3 DEF Grows
    <3> QED BY <3>1, <3>4, <1>g
  <2>2. CASE Send(t) \/ Shutdown(t) \/ CallReadControl(t) \/ SetDisconnecting(t)
    BY <2>2, <1>g, <1>n DEF Send, Shutdown, CallReadControl, SetDisconnecting,
                            loopVars
  <2> QED BY <1>11, <2>1, <2>2 DEF Thread, Finish
<1>12. CASE UNCHANGED vars
  BY <1>12, <1>g, <1>n DEF vars, loopVars
<1> QED
  BY <1>1, <1>2, <1>3, <1>4, <1>5, <1>6, <1>7, <1>8, <1>9, <1>10, <1>11, <1>12
  DEF Next, Loop, LoopThreadCall

(* So a functor that nobody queues does not appear, and one that waits once *)
(* waits once until it has run.                                             *)
LEMMA NotQueued ==
  ASSUME TypeOK, BatchInPhase, [Next]_vars, NEW op, op \notin UserCallbacks,
         op = "connectionDestroyed" => ~(connections_ /\ ~connections_'),
         \A t \in Threads : user[t].op # op
  PROVE  /\ Queued(op)' => Queued(op)
         /\ AtMostOne(op) => AtMostOne(op)'
<1>0. pending \in Seq(Functors) /\ batch \in Seq(Functors)
  BY DEF TypeOK
<1>1. QueueStep
  BY QueueSteps
<1>2. ASSUME NEW a \in Seq(Functors), Appends(a), pending' = pending \o a,
             batch' = batch \/ (batch # <<>> /\ batch' = Tail(batch))
      PROVE  /\ Queued(op)' => Queued(op)
             /\ AtMostOne(op) => AtMostOne(op)'
  <2>1. ~Has(a, op)
    BY <1>2 DEF Appends, Has
  <2>2. Has(pending', op) <=> Has(pending, op)
    BY <1>0, <1>2, <2>1, HasConcat
  <2>3. Unique(pending, op) => Unique(pending', op)
    BY <1>0, <1>2, <2>1, HasConcat
  <2>4. (Has(batch', op) => Has(batch, op))
        /\ (Unique(batch, op) => Unique(batch', op))
    <3>1. CASE batch' = batch
      BY <3>1
    <3>2. CASE batch # <<>> /\ batch' = Tail(batch)
      BY <1>0, <3>2, HasTail, Zenon
    <3> QED BY <1>2, <3>1, <3>2
  <2> QED BY <2>2, <2>3, <2>4 DEF Queued, AtMostOne, Has, Unique
<1>3. ASSUME batch = <<>>, batch' = pending, pending' = <<>>
      PROVE  /\ Queued(op)' => Queued(op)
             /\ AtMostOne(op) => AtMostOne(op)'
  <2>1. ~Has(<<>>, op) /\ Unique(<<>>, op)
    BY DEF Has, Unique
  <2> QED BY <1>3, <2>1 DEF Queued, AtMostOne, Has, Unique
<1> QED BY <1>1, <1>2, <1>3 DEF QueueStep
------------------------------------------------------------------------------
(* The beginning of a connection.  Until connectionEstablished() has run,   *)
(* its functor is all that waits in the loop, nobody has the connection,    *)
(* and its channel is not registered; afterwards it never runs again.       *)

Established == <<Functor("connectionEstablished", 0)>>

Fresh ==
  /\ state_ = "kConnecting" /\ reading_ /\ channel_ = NewChannel
  /\ outputBuffer_ = <<>> /\ stream = <<>> /\ ~shutWr
  /\ revents_ = {} /\ connections_ /\ removals = 0
  /\ user = [t \in Threads |-> Idle]
  /\ sender = <<>> /\ promised = {} /\ toggles = 0 /\ aborted = "no"
  /\ \/ pending = Established /\ batch = <<>>
     \/ pending = <<>> /\ batch = Established

\* What a call of another thread can be about to do.
UserCalls == {"none", "setState", "sendInLoop", "shutdownInLoop",
              "startReadInLoop", "stopReadInLoop"}

Begins ==
  /\ BatchInPhase
  /\ \A t \in Threads : user[t].op \in UserCalls
  /\ callbacks = <<>> => Fresh
  /\ callbacks # <<>> => ~Queued("connectionEstablished")

(* The user is told of the connection only by a step that appends to        *)
(* callbacks.                                                               *)
LEMMA CallbackSteps ==
  [Next]_vars => \/ UNCHANGED callbacks
                 \/ callbacks' = Append(callbacks, "down")
                 \/ RunConnectionEstablished
<1> SUFFICES ASSUME [Next]_vars
             PROVE  \/ UNCHANGED callbacks
                    \/ callbacks' = Append(callbacks, "down")
                    \/ RunConnectionEstablished
  OBVIOUS
<1>c. ASSUME HandleClose
      PROVE  UNCHANGED callbacks \/ callbacks' = Append(callbacks, "down")
  BY <1>c DEF HandleClose, CloseWith
<1>1. CASE HandleHup \/ HandleErr \/ HandleIn \/ HandleOut
  BY <1>1, <1>c DEF HandleHup, HandleErr, HandleIn, HandleRead, HandleError,
                    HandleOut, HandleWrite, WriteBuffered
<1>2. CASE \/ RunSendInLoop \/ RunShutdownInLoop \/ RunStartReadInLoop
           \/ RunStopReadInLoop \/ RunConnectionDestroyed \/ RunUserCallback
  BY <1>2 DEF RunSendInLoop, RunShutdownInLoop, RunStartReadInLoop,
              RunStopReadInLoop, RunConnectionDestroyed, RunUserCallback,
              SendInLoop, WriteOrBuffer, ShutdownInLoop, StartReadInLoop,
              StopReadInLoop, ConnectionDestroyed
<1>3. CASE Poll \/ DoPendingFunctors \/ FunctorsDone
  BY <1>3 DEF Poll, DoPendingFunctors, FunctorsDone
<1>4. CASE LoopThreadCall \/ BaseLoopRemove
  BY <1>4 DEF LoopThreadCall, LoopSend, LoopShutdown, LoopReadControl,
              SendInLoop, WriteOrBuffer, ShutdownInLoop, StartReadInLoop,
              StopReadInLoop, BaseLoopRemove
<1>5. CASE Network
  BY <1>5 DEF Network, Ack, PeerData, PeerFin, PeerReset, NetworkUnchanged
<1>6. ASSUME NEW t \in Threads, Thread(t) PROVE UNCHANGED callbacks
  BY <1>6 DEF Thread, Finish, Send, Shutdown, CallReadControl,
              SetDisconnecting, QueueInLoop
<1>7. CASE UNCHANGED vars
  BY <1>7 DEF vars
<1> QED BY <1>1, <1>2, <1>3, <1>4, <1>5, <1>6, <1>7 DEF Next, Loop

(* The batch is empty unless it is being run.                               *)
LEMMA BatchStep == TypeOK /\ BatchInPhase /\ [Next]_vars => BatchInPhase'
<1> SUFFICES ASSUME TypeOK, BatchInPhase, [Next]_vars PROVE BatchInPhase'
  OBVIOUS
<1> USE DEF BatchInPhase, loopVars
<1>1. CASE HandleHup \/ HandleErr \/ HandleIn \/ HandleOut
  BY <1>1 DEF HandleHup, HandleErr, HandleIn, HandleOut, Handle
<1>2. CASE \/ RunConnectionEstablished \/ RunSendInLoop \/ RunShutdownInLoop
           \/ RunStartReadInLoop \/ RunStopReadInLoop
           \/ RunConnectionDestroyed \/ RunUserCallback
  BY <1>2 DEF RunConnectionEstablished, RunSendInLoop, RunShutdownInLoop,
              RunStartReadInLoop, RunStopReadInLoop, RunConnectionDestroyed,
              RunUserCallback, Run
<1>3. CASE Poll \/ DoPendingFunctors \/ FunctorsDone
  BY <1>3 DEF Poll, DoPendingFunctors, FunctorsDone
<1>4. CASE LoopThreadCall \/ BaseLoopRemove
  BY <1>4 DEF LoopThreadCall, LoopSend, LoopShutdown, LoopReadControl,
              BaseLoopRemove
<1>5. CASE Network
  BY <1>5 DEF Network, Ack, PeerData, PeerFin, PeerReset, NetworkUnchanged
<1>6. ASSUME NEW t \in Threads, Thread(t) PROVE BatchInPhase'
  BY <1>6 DEF Thread, Finish, Send, Shutdown, CallReadControl,
              SetDisconnecting, QueueInLoop
<1>7. CASE UNCHANGED vars
  BY <1>7 DEF vars
<1> QED BY <1>1, <1>2, <1>3, <1>4, <1>5, <1>6, <1>7 DEF Next, Loop

(* Only users change what has been called.                                  *)
LEMMA CallSteps ==
  ASSUME [Next]_vars
  PROVE  UNCHANGED callVars \/ LoopThreadCall \/ \E t \in Threads : Thread(t)
<1> USE DEF callVars
<1>1. CASE HandleHup \/ HandleErr \/ HandleIn \/ HandleOut
  BY <1>1 DEF HandleHup, HandleErr, HandleIn, HandleOut, Handle
<1>2. CASE \/ RunConnectionEstablished \/ RunSendInLoop \/ RunShutdownInLoop
           \/ RunStartReadInLoop \/ RunStopReadInLoop
           \/ RunConnectionDestroyed \/ RunUserCallback
  BY <1>2 DEF RunConnectionEstablished, RunSendInLoop, RunShutdownInLoop,
              RunStartReadInLoop, RunStopReadInLoop, RunConnectionDestroyed,
              RunUserCallback, Run
<1>3. CASE Poll \/ DoPendingFunctors \/ FunctorsDone
  BY <1>3 DEF Poll, DoPendingFunctors, FunctorsDone
<1>4. CASE BaseLoopRemove
  BY <1>4 DEF BaseLoopRemove
<1>5. CASE Network
  BY <1>5 DEF Network, Ack, PeerData, PeerFin, PeerReset, NetworkUnchanged
<1>6. CASE UNCHANGED vars
  BY <1>6 DEF vars
<1> QED BY <1>1, <1>2, <1>3, <1>4, <1>5, <1>6 DEF Next, Loop

(* Only a thread's own steps change what it is about to do.                 *)
LEMMA UserSteps ==
  ASSUME [Next]_vars
  PROVE  UNCHANGED user \/ \E t \in Threads : Thread(t)
  BY CallSteps DEF callVars, LoopThreadCall, LoopSend, LoopShutdown,
                   LoopReadControl

(* From the beginning the only way on is connectionEstablished().           *)
LEMMA FreshSteps ==
  ASSUME TypeOK, BatchInPhase, callbacks = <<>>, Fresh, [Next]_vars
  PROVE  \/ UNCHANGED callbacks /\ Fresh'
         \/ RunConnectionEstablished /\ batch = Established /\ pending = <<>>
<1> USE DEF Fresh, bufferVars, kernelVars, loopVars, callVars, serverVars
<1>0. ~IsWriting(channel_) /\ ~channel_.registered
  BY DEF NewChannel, IsWriting
<1>1. CASE Poll
  <2>1. revents_' = {}
    BY <1>0, <1>1 DEF Poll, Reported, Handled
  <2> QED BY <1>1, <2>1 DEF Poll
<1>2. CASE HandleHup \/ HandleErr \/ HandleIn \/ HandleOut
  BY <1>2 DEF HandleHup, HandleErr, HandleIn, HandleOut, Handle
<1>3. CASE DoPendingFunctors
  BY <1>3 DEF DoPendingFunctors, BatchInPhase, Established
<1>4. CASE FunctorsDone
  BY <1>4 DEF FunctorsDone, Established
<1>5. ASSUME NEW op, Run(op)
      PROVE  op = "connectionEstablished" /\ batch = Established /\ pending = <<>>
  BY <1>5 DEF Run, Established, Functor
<1>6. CASE \/ RunConnectionEstablished \/ RunSendInLoop \/ RunShutdownInLoop
           \/ RunStartReadInLoop \/ RunStopReadInLoop
           \/ RunConnectionDestroyed \/ RunUserCallback
  <2>0. /\ ~Run("sendInLoop") /\ ~Run("shutdownInLoop")
        /\ ~Run("startReadInLoop") /\ ~Run("stopReadInLoop")
        /\ ~Run("connectionDestroyed") /\ ~Run("writeCompleteCallback_")
        /\ ~Run("highWaterMarkCallback_")
    BY <1>5
  <2>1. RunConnectionEstablished
    BY <1>6, <2>0, Zenon DEF RunSendInLoop, RunShutdownInLoop,
              RunStartReadInLoop, RunStopReadInLoop, RunConnectionDestroyed,
              RunUserCallback
  <2> QED BY <2>1, <1>5 DEF RunConnectionEstablished
<1>7. CASE LoopThreadCall \/ BaseLoopRemove
  BY <1>7 DEF LoopThreadCall, LoopSend, LoopShutdown, LoopReadControl,
              BaseLoopRemove, InUserCode
<1>8. CASE Network
  BY <1>8 DEF Network, Ack, PeerData, PeerFin, PeerReset, NetworkUnchanged
<1>9. ASSUME NEW t \in Threads, Thread(t) PROVE FALSE
  BY <1>9 DEF Thread, Finish, Send, Shutdown, CallReadControl, CanCall,
              SetDisconnecting, QueueInLoop, Idle, Functor
<1>10. CASE UNCHANGED vars
  BY <1>10 DEF vars
<1> QED BY <1>1, <1>2, <1>3, <1>4, <1>6, <1>7, <1>8, <1>9, <1>10 DEF Next, Loop

(* connectionEstablished() tells the user, and leaves no functor behind.    *)
LEMMA EstablishedUp ==
  ASSUME TypeOK, callbacks = <<>>, Fresh, RunConnectionEstablished,
         batch = Established, pending = <<>>
  PROVE  /\ callbacks' = <<"up">> /\ state_' = "kConnected"
         /\ channel_' = EnableReading(NewChannel)
         /\ batch' = <<>> /\ pending' = <<>> /\ aborted' = "no"
         /\ UNCHANGED <<reading_, bufferVars, shutWr, revents_, serverVars,
                        callVars>>
  BY DEF Fresh, RunConnectionEstablished, ConnectionEstablished, Run,
         Established, bufferVars, serverVars, callVars

(* This is an invariant.                                                    *)
LEMMA BeginsInvariant == TypeOK /\ Begins /\ [Next]_vars => Begins'
<1> SUFFICES ASSUME TypeOK, Begins, [Next]_vars PROVE Begins'
  OBVIOUS
<1>1. BatchInPhase'
  BY BatchStep DEF Begins
<1>2. \A u \in Threads : user'[u].op \in UserCalls
  <2>0. /\ user \in [Threads -> Functors \cup {Idle, Functor("setState", 0)}]
        /\ \A u \in Threads : user[u].op \in UserCalls
    BY DEF Begins, TypeOK
  <2>1. ASSUME NEW t \in Threads, Thread(t)
        PROVE  \A u \in Threads : user'[u].op \in UserCalls
    <3>1. \A op \in ReadControl : op \in UserCalls
      BY DEF UserCalls
    <3>2. CASE Send(t)
      BY <2>0, <3>2 DEF Send, Functor, UserCalls
    <3>3. CASE Shutdown(t) \/ SetDisconnecting(t) \/ QueueInLoop(t)
      BY <2>0, <3>3 DEF Shutdown, SetDisconnecting, QueueInLoop, Idle, Functor,
                        UserCalls
    <3>4. CASE CallReadControl(t)
      BY <2>0, <3>1, <3>4 DEF CallReadControl, Functor
    <3> QED BY <2>1, <3>2, <3>3, <3>4 DEF Thread, Finish
  <2>2. CASE UNCHANGED user
    BY <2>0, <2>2
  <2> QED BY <2>1, <2>2, UserSteps
<1>3. callbacks' = <<>> => Fresh'
  <2>1. CASE callbacks = <<>>
    BY <2>1, FreshSteps, EstablishedUp DEF Begins
  <2>2. CASE callbacks # <<>>
    <3>1. \/ callbacks' = callbacks
          \/ callbacks' = Append(callbacks, "up")
          \/ callbacks' = Append(callbacks, "down")
      <4>1. CASE RunConnectionEstablished
        BY <4>1 DEF RunConnectionEstablished, ConnectionEstablished
      <4> QED BY <4>1, CallbackSteps
    <3>2. Append(callbacks, "up") # <<>> /\ Append(callbacks, "down") # <<>>
      <4>1. callbacks \in Seq({"up", "down"})
        BY DEF TypeOK
      <4>2. \A e \in {"up", "down"} : Append(callbacks, e) # <<>>
        BY <4>1, AppendProperties
      <4> QED BY <4>2
    <3> QED BY <2>2, <3>1, <3>2
  <2> QED BY <2>1, <2>2
<1>4. callbacks' # <<>> => ~Queued("connectionEstablished")'
  <2>1. CASE callbacks = <<>> /\ callbacks' # <<>>
    <3>1. batch' = <<>> /\ pending' = <<>>
      BY <2>1, FreshSteps, EstablishedUp DEF Begins
    <3> QED BY <3>1 DEF Queued, Has
  <2>2. CASE callbacks # <<>>
    BY <2>2, NotQueued DEF Begins, UserCalls, UserCallbacks
  <2> QED BY <2>1, <2>2
<1> QED BY <1>1, <1>2, <1>3, <1>4 DEF Begins

(* It holds in every behaviour.                                             *)
LEMMA BeginsAlways == Spec => []Begins
<1>1. Init => Begins
  BY DEF Init, Begins, BatchInPhase, Fresh, Established, UserCalls, Idle, Functor
<1> QED BY <1>1, BeginsInvariant, TypeCorrect, PTL DEF Spec
------------------------------------------------------------------------------
(* What the channel asks for.                                               *)

(* The events after each operation on the channel.                          *)
LEMMA ChannelEvents ==
  ASSUME NEW ch \in Channels
  PROVE  /\ EnableReading(ch).events = ch.events \cup {"IN"}
         /\ DisableReading(ch).events = ch.events \ {"IN"}
         /\ EnableWriting(ch).events = ch.events \cup {"OUT"}
         /\ DisableWriting(ch).events = ch.events \ {"OUT"}
         /\ DisableAll(ch).events = {}
         /\ RemoveChannel(ch).events = ch.events
  BY DEF Channels, EnableReading, DisableReading, EnableWriting,
         DisableWriting, DisableAll, RemoveChannel, UpdateChannel, IsNoneEvent

Asking == (IsWriting(channel_) <=> outputBuffer_ # <<>>)
          /\ (IsReading(channel_) <=> reading_)

(* sendInLoop() switches write events on with the first unit that waits.    *)
LEMMA SendInLoopAsks ==
  ASSUME TypeOK, Asking, NEW m \in Messages, SendInLoop(m)
  PROVE  Asking'
<1> DEFINE direct == ~IsWriting(channel_) /\ outputBuffer_ = <<>>
           n == IF direct THEN Written(MsgLen) ELSE 0
<1>0. channel_ \in Channels /\ outputBuffer_ \in Seq(AllUnits)
  BY DEF TypeOK
<1>1. n \in 0..MsgLen /\ (n = MsgLen => outputBuffer_ = <<>>)
  <2>1. Written(MsgLen) \in 0..MsgLen
    BY WrittenBound
  <2> QED BY <2>1
<1>2. /\ outputBuffer_' = outputBuffer_ \o SubSeq(Units(m), n + 1, MsgLen)
      /\ channel_' = IF n < MsgLen /\ ~IsWriting(channel_)
                       THEN EnableWriting(channel_) ELSE channel_
      /\ reading_' = reading_
  BY DEF SendInLoop, WriteOrBuffer
<1> HIDE DEF n
<1>3. /\ SubSeq(Units(m), n + 1, MsgLen) \in Seq(AllUnits)
      /\ Len(SubSeq(Units(m), n + 1, MsgLen)) = MsgLen - n
  BY <1>1, UnitsType, SubSeqType
<1>4. Len(outputBuffer_') = Len(outputBuffer_) + (MsgLen - n)
      /\ outputBuffer_' \in Seq(AllUnits)
  BY <1>0, <1>2, <1>3, ConcatProperties
<1>5. EnableWriting(channel_).events = channel_.events \cup {"OUT"}
  BY <1>0, ChannelEvents
<1>6. IsReading(channel_') <=> reading_'
  BY <1>2, <1>5 DEF Asking, IsReading
<1>7. CASE n = MsgLen
  <2>1. outputBuffer_' = <<>> /\ channel_' = channel_
    BY <1>0, <1>1, <1>2, <1>4, <1>7, EmptySeq
  <2> QED BY <1>1, <1>6, <1>7, <2>1 DEF Asking, IsWriting, IsReading
<1>8. CASE n # MsgLen
  <2>1. n < MsgLen /\ Len(outputBuffer_') > 0
    BY <1>0, <1>1, <1>4, <1>8
  <2>2. IsWriting(channel_')
    BY <1>2, <1>5, <2>1 DEF IsWriting
  <2>3. outputBuffer_' # <<>>
    BY <1>4, <2>1
  <2> QED BY <1>6, <2>2, <2>3 DEF Asking, IsWriting, IsReading
<1> QED BY <1>7, <1>8

(* handleWrite() switches write events off with the last unit.              *)
LEMMA HandleWriteAsks ==
  ASSUME TypeOK, Asking, HandleWrite
  PROVE  Asking'
<1> DEFINE n == IF IsWriting(channel_) THEN Written(Len(outputBuffer_)) ELSE 0
           rest == SubSeq(outputBuffer_, n + 1, Len(outputBuffer_))
<1>1. outputBuffer_ \in Seq(AllUnits) /\ Len(outputBuffer_) \in Nat
      /\ channel_ \in Channels
  BY DEF TypeOK
<1>2. n \in 0..Len(outputBuffer_)
  BY <1>1, WrittenBound
<1>3. /\ outputBuffer_' = rest /\ reading_' = reading_
      /\ channel_' = IF n > 0 /\ rest = <<>> THEN DisableWriting(channel_)
                                             ELSE channel_
  BY DEF HandleWrite, WriteBuffered
<1>4. DisableWriting(channel_).events = channel_.events \ {"OUT"}
  BY <1>1, ChannelEvents
<1>5. IsReading(channel_') <=> reading_'
  BY <1>3, <1>4 DEF Asking, IsReading
<1>6. IsWriting(channel_') <=> outputBuffer_' # <<>>
  <2>1. CASE n = 0
    <3> HIDE DEF n
    <3>1. rest = outputBuffer_ /\ channel_' = channel_
      BY <1>1, <1>3, <2>1, SubSeqFull
    <3> QED BY <1>3, <3>1 DEF Asking, IsWriting
  <2>2. CASE n > 0
    <3>1. IsWriting(channel_)
      BY <2>2
    <3> HIDE DEF n, rest
    <3> QED BY <1>3, <1>4, <2>2, <3>1 DEF IsWriting
  <2> HIDE DEF n
  <2> QED BY <1>1, <1>2, <2>1, <2>2
<1> QED BY <1>5, <1>6 DEF Asking, IsWriting, IsReading

(* A step that tells the user nothing changes what the channel asks for, or *)
(* the buffer, or reading_, in one of these four functions.                 *)
LEMMA AskingSteps ==
  ASSUME TypeOK, [Next]_vars, UNCHANGED callbacks
  PROVE  \/ channel_'.events = channel_.events /\ UNCHANGED <<outputBuffer_, reading_>>
         \/ HandleWrite
         \/ \E m \in Messages : SendInLoop(m)
         \/ StartReadInLoop \/ StopReadInLoop
<1> DEFINE Quiet == channel_'.events = channel_.events
                    /\ UNCHANGED <<outputBuffer_, reading_>>
<1> USE DEF bufferVars
<1>0. channel_ \in Channels /\ RemoveChannel(channel_).events = channel_.events
  BY ChannelEvents DEF TypeOK
<1>a. \A e \in {"up", "down"} : Append(callbacks, e) # callbacks
  <2>1. callbacks \in Seq({"up", "down"})
    BY DEF TypeOK
  <2>2. ASSUME NEW e \in {"up", "down"} PROVE Append(callbacks, e) # callbacks
    <3>1. Len(Append(callbacks, e)) = Len(callbacks) + 1 /\ Len(callbacks) \in Nat
      BY <2>1, AppendProperties
    <3> QED BY <3>1
  <2> QED BY <2>2
<1>b. callbacks' # Append(callbacks, "up") /\ callbacks' # Append(callbacks, "down")
  BY <1>a
<1>c. ASSUME HandleClose PROVE Quiet
  BY <1>b, <1>c DEF HandleClose, CloseWith
<1>1. CASE HandleHup \/ HandleErr \/ HandleIn
  BY <1>1, <1>c DEF HandleHup, HandleErr, HandleIn, HandleRead, HandleError
<1>2. CASE HandleOut \/ RunStartReadInLoop \/ RunStopReadInLoop
  BY <1>2 DEF HandleOut, RunStartReadInLoop, RunStopReadInLoop
<1>3. CASE RunSendInLoop
  BY <1>3, RunTypes DEF RunSendInLoop
<1>4. CASE RunConnectionEstablished
  BY <1>4, <1>b DEF RunConnectionEstablished, ConnectionEstablished
<1>5. CASE RunConnectionDestroyed
  BY <1>5, <1>b, <1>0 DEF RunConnectionDestroyed, ConnectionDestroyed
<1>6. CASE \/ Poll \/ DoPendingFunctors \/ FunctorsDone
           \/ RunShutdownInLoop \/ RunUserCallback \/ LoopShutdown
           \/ BaseLoopRemove
  BY <1>6 DEF Poll, DoPendingFunctors, FunctorsDone, RunShutdownInLoop,
              ShutdownInLoop, RunUserCallback, LoopShutdown, BaseLoopRemove
<1>7. CASE LoopSend
  BY <1>7, NextMessage DEF LoopSend
<1>8. CASE LoopReadControl
  BY <1>8 DEF LoopReadControl
<1>9. CASE Network
  BY <1>9 DEF Network, Ack, PeerData, PeerFin, PeerReset, NetworkUnchanged
<1>10. ASSUME NEW t \in Threads, Thread(t) PROVE Quiet
  BY <1>10 DEF Thread, Finish, Send, Shutdown, CallReadControl,
               SetDisconnecting, QueueInLoop
<1>11. CASE UNCHANGED vars
  BY <1>11 DEF vars
<1> QED BY <1>1, <1>2, <1>3, <1>4, <1>5, <1>6, <1>7, <1>8, <1>9, <1>10, <1>11
        DEF Next, Loop, LoopThreadCall

(* The connection comes up once: a step that leads to Up is                 *)
(* connectionEstablished() or tells the user nothing.                       *)
LEMMA UpSteps ==
  ASSUME TypeOK, Begins, [Next]_vars, Up'
  PROVE  \/ Up /\ UNCHANGED callbacks
         \/ /\ Fresh /\ state_' = "kConnected"
            /\ channel_' = EnableReading(NewChannel)
            /\ UNCHANGED <<reading_, bufferVars, shutWr, serverVars, callVars>>
<1>1. CASE callbacks = <<>>
  <2>1. callbacks' # callbacks
    BY <1>1 DEF Up
  <2>2. Fresh /\ BatchInPhase
    BY <1>1 DEF Begins
  <2>3. RunConnectionEstablished /\ batch = Established /\ pending = <<>>
    BY <1>1, <2>1, <2>2, FreshSteps
  <2> QED BY <1>1, <2>2, <2>3, EstablishedUp
<1>2. CASE callbacks # <<>>
  <2>1. callbacks \in Seq({"up", "down"}) /\ Len(callbacks) > 0
    BY <1>2, EmptySeq DEF TypeOK
  <2>2. \A e \in {"up", "down"} : Len(Append(callbacks, e)) > 1
    BY <2>1, AppendProperties
  <2>3. Len(callbacks') = 1
    BY DEF Up
  <2>4. callbacks' \in {callbacks, Append(callbacks, "up"), Append(callbacks, "down")}
    <3>1. CASE RunConnectionEstablished
      BY <3>1 DEF RunConnectionEstablished, ConnectionEstablished
    <3> QED BY <3>1, CallbackSteps
  <2> QED BY <2>2, <2>3, <2>4 DEF Up
<1> QED BY <1>1, <1>2

(* While the connection is up, the channel asks for write events exactly    *)
(* while output waits, and for read events exactly while reading_ is set,   *)
(* in every interleaving of the handlers with calls of other threads.       *)
THEOREM ChannelAlwaysFollows == Spec => []ChannelFollows
<1>1. Init => ChannelFollows
  BY DEF Init, ChannelFollows, Up
<1>2. TypeOK /\ Begins /\ ChannelFollows /\ [Next]_vars => ChannelFollows'
  <2> SUFFICES ASSUME TypeOK, Begins, ChannelFollows, [Next]_vars, Up'
               PROVE  Asking'
    BY DEF ChannelFollows, Asking
  <2>1. CASE Up /\ UNCHANGED callbacks
    <3>0. Asking /\ channel_ \in Channels
      BY <2>1 DEF ChannelFollows, Asking, TypeOK
    <3>1. CASE channel_'.events = channel_.events /\ UNCHANGED <<outputBuffer_, reading_>>
      BY <3>0, <3>1 DEF Asking, IsWriting, IsReading
    <3>2. CASE StartReadInLoop
      BY <3>0, <3>2, ChannelEvents DEF StartReadInLoop, Asking, IsWriting,
                                       IsReading, bufferVars
    <3>3. CASE StopReadInLoop
      BY <3>0, <3>3, ChannelEvents DEF StopReadInLoop, Asking, IsWriting,
                                       IsReading, bufferVars
    <3> QED BY <2>1, <3>0, <3>1, <3>2, <3>3, AskingSteps, SendInLoopAsks,
               HandleWriteAsks
  <2>2. CASE /\ Fresh /\ channel_' = EnableReading(NewChannel)
             /\ UNCHANGED <<reading_, bufferVars>>
    BY <2>2 DEF Fresh, Asking, NewChannel, EnableReading, UpdateChannel,
                IsNoneEvent, IsWriting, IsReading, bufferVars
  <2> QED BY <2>1, <2>2, UpSteps
<1> QED BY <1>1, <1>2, TypeCorrect, BeginsAlways, PTL DEF Spec
------------------------------------------------------------------------------
(* shutdown() waits for what was sent.                                      *)

\* u stands somewhere in s, in one piece.
Contains(s, u) ==
  \E k \in 0..Len(s) : k + Len(u) <= Len(s) /\ SubSeq(s, k + 1, k + Len(u)) = u

(* What stands in s stands in what begins with s, and s \o u contains u.    *)
LEMMA ContainsGrows ==
  ASSUME NEW s \in Seq(AllUnits), NEW x \in Seq(AllUnits),
         NEW u \in Seq(AllUnits)
  PROVE  /\ Contains(s, u) => Contains(s \o x, u)
         /\ Contains(s \o u, u)
<1>1. Contains(s, u) => Contains(s \o x, u)
  <2> SUFFICES ASSUME NEW k \in 0..Len(s), k + Len(u) <= Len(s),
                      SubSeq(s, k + 1, k + Len(u)) = u
               PROVE  Contains(s \o x, u)
    BY DEF Contains
  <2> DEFINE c == s \o x
  <2>1. /\ c \in Seq(AllUnits) /\ Len(c) = Len(s) + Len(x)
        /\ Len(s) \in Nat /\ Len(x) \in Nat /\ Len(u) \in Nat
        /\ \A i \in 1..Len(s) : c[i] = s[i]
    BY ConcatProperties
  <2> HIDE DEF c
  <2>2. k \in 0..Len(c) /\ k + Len(u) <= Len(c)
    BY <2>1
  <2>3. SubSeq(c, k + 1, k + Len(u)) = SubSeq(s, k + 1, k + Len(u))
    BY <2>1, <2>2, SMTT(30)
  <2> QED BY <2>2, <2>3 DEF Contains, c
<1>2. Contains(s \o u, u)
  <2> DEFINE c == s \o u
  <2>1. /\ c \in Seq(AllUnits) /\ Len(c) = Len(s) + Len(u)
        /\ Len(s) \in Nat /\ Len(u) \in Nat
        /\ \A i \in 1..Len(u) : c[Len(s) + i] = u[i]
    BY ConcatProperties
  <2> HIDE DEF c
  <2>2. Len(s) \in 0..Len(c) /\ Len(s) + Len(u) <= Len(c)
    BY <2>1
  <2>3. SubSeq(c, Len(s) + 1, Len(s) + Len(u)) = u
    <3> DEFINE d == SubSeq(c, Len(s) + 1, Len(s) + Len(u))
    <3>1. /\ d \in Seq(AllUnits) /\ Len(d) = Len(u)
          /\ \A i \in 1..Len(d) : d[i] = c[Len(s) + i]
      BY <2>1, <2>2
    <3> HIDE DEF d
    <3>2. \A i \in 1..Len(d) : d[i] = u[i]
      BY <2>1, <3>1
    <3>3. d = u
      BY <3>1, <3>2, SeqEqual
    <3> QED BY <3>3 DEF d
  <2> QED BY <2>2, <2>3 DEF Contains, c
<1> QED BY <1>1, <1>2

\* What the loop's thread has sent is in the stream, the promised messages
\* have been sent, and nobody is about to close the write side before the
\* first shutdown() has set state_.
Held ==
  /\ \A m \in DOMAIN sender :
       sender[m] = LoopThread => Contains(stream, Units(m))
  /\ promised \subseteq DOMAIN sender
  /\ state_ \in {"kConnecting", "kConnected"} =>
       /\ ~shutWr /\ ~Queued("shutdownInLoop")
       /\ \A t \in Threads : user[t].op # "shutdownInLoop"

(* The stream and the wire only grow.                                       *)
LEMMA StreamGrows ==
  ASSUME TypeOK, [Next]_vars
  PROVE  /\ \E x \in Seq(AllUnits) : wire' = wire \o x
         /\ \E x \in Seq(AllUnits) : stream' = stream \o x
<1>0. wire \in Seq(AllUnits) /\ stream \in Seq(AllUnits)
      /\ outputBuffer_ \in Seq(AllUnits) /\ Len(outputBuffer_) \in Nat
  BY DEF TypeOK
<1>1. <<>> \in Seq(AllUnits) /\ wire = wire \o <<>> /\ stream = stream \o <<>>
  BY <1>0, ConcatEmptySeq
<1>2. CASE UNCHANGED bufferVars
  <2>1. wire' = wire /\ stream' = stream
    BY <1>2 DEF bufferVars
  <2> QED BY <1>1, <2>1
<1>3. CASE HandleWrite
  <2> DEFINE n == IF IsWriting(channel_) THEN Written(Len(outputBuffer_)) ELSE 0
  <2>1. n \in 0..Len(outputBuffer_)
    BY <1>0, WrittenBound
  <2>2. wire' = wire \o SubSeq(outputBuffer_, 1, n) /\ stream' = stream
    BY <1>3 DEF HandleWrite, WriteBuffered
  <2> HIDE DEF n
  <2>3. SubSeq(outputBuffer_, 1, n) \in Seq(AllUnits)
    BY <1>0, <2>1, SubSeqType
  <2> QED BY <1>1, <2>2, <2>3
<1>4. ASSUME NEW m \in Messages, SendInLoop(m)
      PROVE  /\ \E x \in Seq(AllUnits) : wire' = wire \o x
             /\ \E x \in Seq(AllUnits) : stream' = stream \o x
  <2> DEFINE n == IF ~IsWriting(channel_) /\ outputBuffer_ = <<>>
                    THEN Written(MsgLen) ELSE 0
  <2>1. n \in 0..MsgLen
    <3>1. Written(MsgLen) \in 0..MsgLen
      BY WrittenBound
    <3> QED BY <3>1
  <2>2. wire' = wire \o SubSeq(Units(m), 1, n) /\ stream' = stream \o Units(m)
    BY <1>4 DEF SendInLoop, WriteOrBuffer
  <2> HIDE DEF n
  <2>3. Units(m) \in Seq(AllUnits) /\ SubSeq(Units(m), 1, n) \in Seq(AllUnits)
    BY <2>1, UnitsType, SubSeqType
  <2> QED BY <2>2, <2>3
<1> QED BY <1>2, <1>3, <1>4, StreamSteps

(* The write side is closed by shutdownInLoop(), which leaves a writing     *)
(* channel alone, or by a handleWrite() that empties the buffer.            *)
LEMMA ShutSteps ==
  ASSUME TypeOK, [Next]_vars, ~shutWr, shutWr'
  PROVE  \/ /\ RunShutdownInLoop \/ LoopShutdown
            /\ ~IsWriting(channel_) /\ UNCHANGED bufferVars
         \/ HandleWrite /\ state_ = "kDisconnecting" /\ outputBuffer_' = <<>>
<1>c. ASSUME HandleClose PROVE UNCHANGED shutWr
  BY <1>c DEF HandleClose, CloseWith
<1>1. CASE HandleHup \/ HandleErr \/ HandleIn
  BY <1>1, <1>c DEF HandleHup, HandleErr, HandleIn, HandleRead, HandleError
<1>2. CASE HandleOut
  BY <1>2 DEF HandleOut, HandleWrite, WriteBuffered, TypeOK
<1>3. CASE RunShutdownInLoop \/ LoopShutdown
  BY <1>3 DEF RunShutdownInLoop, LoopShutdown, ShutdownInLoop
<1>4. CASE \/ RunConnectionEstablished \/ RunSendInLoop \/ RunStartReadInLoop
           \/ RunStopReadInLoop \/ RunConnectionDestroyed \/ RunUserCallback
           \/ LoopSend \/ LoopReadControl
  BY <1>4 DEF RunConnectionEstablished, RunSendInLoop, RunStartReadInLoop,
              RunStopReadInLoop, RunConnectionDestroyed, RunUserCallback,
              ConnectionEstablished, SendInLoop, WriteOrBuffer,
              StartReadInLoop, StopReadInLoop, ConnectionDestroyed, LoopSend,
              LoopReadControl
<1>5. CASE Poll \/ DoPendingFunctors \/ FunctorsDone \/ BaseLoopRemove
  BY <1>5 DEF Poll, DoPendingFunctors, FunctorsDone, BaseLoopRemove
<1>6. CASE Network
  BY <1>6 DEF Network, Ack, PeerData, PeerFin, PeerReset, NetworkUnchanged
<1>7. ASSUME NEW t \in Threads, Thread(t) PROVE UNCHANGED shutWr
  BY <1>7 DEF Thread, Finish, Send, Shutdown, CallReadControl,
              SetDisconnecting, QueueInLoop
<1>8. CASE UNCHANGED vars
  BY <1>8 DEF vars
<1> QED BY <1>1, <1>2, <1>3, <1>4, <1>5, <1>6, <1>7, <1>8
        DEF Next, Loop, LoopThreadCall

(* A connection that has left kConnected does not come back.                *)
LEMMA StateSteps ==
  ASSUME TypeOK, [Next]_vars, state_' \in {"kConnecting", "kConnected"}
  PROVE  state_ \in {"kConnecting", "kConnected"}
<1>c. ASSUME HandleClose PROVE state_' \in {state_, "kDisconnected"}
  BY <1>c DEF HandleClose, CloseWith
<1>1. CASE HandleHup \/ HandleErr \/ HandleIn \/ HandleOut
  BY <1>1, <1>c DEF HandleHup, HandleErr, HandleIn, HandleRead, HandleError,
                    HandleOut, HandleWrite, WriteBuffered
<1>2. CASE \/ RunConnectionEstablished \/ RunSendInLoop \/ RunStartReadInLoop
           \/ RunStopReadInLoop \/ RunConnectionDestroyed \/ RunUserCallback
           \/ RunShutdownInLoop
  BY <1>2 DEF RunConnectionEstablished, RunSendInLoop, RunStartReadInLoop,
              RunStopReadInLoop, RunConnectionDestroyed, RunUserCallback,
              RunShutdownInLoop, ConnectionEstablished, SendInLoop,
              WriteOrBuffer, StartReadInLoop, StopReadInLoop,
              ConnectionDestroyed
<1>3. CASE LoopThreadCall
  BY <1>3 DEF LoopThreadCall, LoopSend, LoopShutdown, LoopReadControl,
              SendInLoop, WriteOrBuffer, StartReadInLoop, StopReadInLoop
<1>4. CASE Poll \/ DoPendingFunctors \/ FunctorsDone \/ BaseLoopRemove
  BY <1>4 DEF Poll, DoPendingFunctors, FunctorsDone, BaseLoopRemove
<1>5. CASE Network
  BY <1>5 DEF Network, Ack, PeerData, PeerFin, PeerReset, NetworkUnchanged
<1>6. ASSUME NEW t \in Threads, Thread(t)
      PROVE  state_ \in {"kConnecting", "kConnected"}
  BY <1>6 DEF Thread, Finish, Send, Shutdown, CallReadControl,
              SetDisconnecting, QueueInLoop
<1>7. CASE UNCHANGED vars
  BY <1>7 DEF vars
<1> QED BY <1>1, <1>2, <1>3, <1>4, <1>5, <1>6, <1>7 DEF Next, Loop

(* The senders of the messages so far stay; what is added is either sent by *)
(* another thread or given to sendInLoop() by the loop's thread in the same *)
(* step.                                                                    *)
LEMMA SenderSteps ==
  ASSUME TypeOK, [Next]_vars
  PROVE  /\ \A m \in DOMAIN sender : m \in DOMAIN sender' /\ sender'[m] = sender[m]
         /\ \A m \in DOMAIN sender' \ DOMAIN sender :
              sender'[m] = LoopThread => stream' = stream \o Units(m)
<1>0. sender \in Seq(Threads \cup {LoopThread})
  BY DEF TypeOK
<1>1. CASE UNCHANGED sender
  BY <1>1
<1>2. ASSUME NEW t \in Threads \cup {LoopThread}, sender' = Append(sender, t)
      PROVE  /\ \A m \in DOMAIN sender : m \in DOMAIN sender' /\ sender'[m] = sender[m]
             /\ \A m \in DOMAIN sender' \ DOMAIN sender :
                  m = Len(sender') /\ sender'[m] = t
  BY <1>0, <1>2
<1>3. CASE LoopSend
  <2>1. sender' = Append(sender, LoopThread)
        /\ stream' = stream \o Units(Len(sender'))
    BY <1>3 DEF LoopSend, SendInLoop, WriteOrBuffer
  <2> QED BY <1>2, <2>1
<1>4. ASSUME NEW t \in Threads, Send(t)
      PROVE  /\ \A m \in DOMAIN sender : m \in DOMAIN sender' /\ sender'[m] = sender[m]
             /\ \A m \in DOMAIN sender' \ DOMAIN sender : sender'[m] = t
  <2>1. sender' = Append(sender, t)
    BY <1>4 DEF Send
  <2> QED BY <1>2, <2>1
<1>5. UNCHANGED sender \/ LoopSend \/ \E t \in Threads : Send(t)
  BY CallSteps DEF callVars, LoopThreadCall, LoopShutdown, LoopReadControl,
                   Thread, Finish, Shutdown, CallReadControl, SetDisconnecting,
                   QueueInLoop
<1> QED BY <1>1, <1>3, <1>4, <1>5

(* What is promised is fixed by the first call of shutdown().               *)
LEMMA PromisedSteps ==
  ASSUME [Next]_vars
  PROVE  \/ UNCHANGED promised
         \/ LoopShutdown
         \/ /\ state_ = "kConnected" /\ UNCHANGED <<sender, shutWr>>
            /\ \E t \in Threads : promised' = Sent(t)
<1>1. CASE UNCHANGED callVars \/ LoopThreadCall
  BY <1>1 DEF callVars, LoopThreadCall, LoopSend, LoopReadControl
<1>2. ASSUME NEW t \in Threads, Thread(t)
      PROVE  \/ UNCHANGED promised
             \/ /\ state_ = "kConnected" /\ UNCHANGED <<sender, shutWr>>
                /\ promised' = Sent(t)
  BY <1>2 DEF Thread, Finish, Send, Shutdown, CallReadControl,
              SetDisconnecting, QueueInLoop
<1> QED BY <1>1, <1>2, CallSteps

(* Held is an invariant.                                                    *)
LEMMA HeldInvariant == TypeOK /\ Begins /\ Held /\ [Next]_vars => Held'
<1> SUFFICES ASSUME TypeOK, Begins, Held, [Next]_vars PROVE Held'
  OBVIOUS
<1>t. TypeOK'
  BY TypeInvariant
<1>s. stream \in Seq(AllUnits) /\ sender \in Seq(Threads \cup {LoopThread})
      /\ sender' \in Seq(Threads \cup {LoopThread}) /\ Len(sender') <= MaxSends
      /\ Len(sender) <= MaxSends
  BY <1>t DEF TypeOK
<1>u. \A m \in DOMAIN sender' : m \in Messages
  BY <1>s DEF Messages
<1>1. ASSUME NEW m \in DOMAIN sender', sender'[m] = LoopThread
      PROVE  Contains(stream', Units(m))
  <2>0. Units(m) \in Seq(AllUnits)
    BY <1>u, UnitsType
  <2>1. CASE m \in DOMAIN sender
    <3>1. Contains(stream, Units(m))
      BY <1>1, <2>1, SenderSteps DEF Held
    <3>2. PICK x \in Seq(AllUnits) : stream' = stream \o x
      BY StreamGrows
    <3> QED BY <1>s, <2>0, <3>1, <3>2, ContainsGrows
  <2>2. CASE m \notin DOMAIN sender
    <3>1. stream' = stream \o Units(m)
      BY <1>1, <2>2, SenderSteps
    <3> QED BY <1>s, <2>0, <3>1, ContainsGrows
  <2> QED BY <2>1, <2>2
<1>2. promised' \subseteq DOMAIN sender'
  <2>1. DOMAIN sender \subseteq DOMAIN sender'
    BY SenderSteps
  <2>2. \A t : Sent(t) \subseteq DOMAIN sender
    BY DEF Sent
  <2> QED BY <2>1, <2>2, PromisedSteps DEF Held, LoopShutdown
<1>3. ASSUME state_' \in {"kConnecting", "kConnected"}
      PROVE  /\ ~shutWr' /\ ~Queued("shutdownInLoop")'
             /\ \A t \in Threads : user'[t].op # "shutdownInLoop"
  <2>0. /\ ~shutWr /\ ~Queued("shutdownInLoop")
        /\ \A t \in Threads : user[t].op # "shutdownInLoop"
        /\ state_ # "kDisconnecting"
    BY <1>3, StateSteps DEF Held
  <2>1. ~Queued("shutdownInLoop")'
    BY <2>0, NotQueued DEF Begins, UserCallbacks
  <2>2. ~shutWr'
    <3>1. ~LoopShutdown
      BY <1>3 DEF LoopShutdown
    <3>2. ~RunShutdownInLoop
      <4>1. batch \in Seq(Functors)
        BY DEF TypeOK
      <4>2. ASSUME RunShutdownInLoop PROVE Has(batch, "shutdownInLoop")
        BY <4>1, <4>2, HasTail DEF RunShutdownInLoop, Run
      <4> QED BY <2>0, <4>2 DEF Queued
    <3> QED BY <2>0, <3>1, <3>2, ShutSteps
  <2>3. \A t \in Threads : user'[t].op # "shutdownInLoop"
    <3>1. CASE UNCHANGED user
      BY <2>0, <3>1
    <3>2. ASSUME NEW t \in Threads, Thread(t)
          PROVE  \A u \in Threads : user'[u].op # "shutdownInLoop"
      <4>0. user \in [Threads -> Functors \cup {Idle, Functor("setState", 0)}]
        BY DEF TypeOK
      <4>1. CASE Send(t)
        BY <2>0, <4>0, <4>1 DEF Send, Functor
      <4>2. CASE Shutdown(t) \/ QueueInLoop(t)
        BY <2>0, <4>0, <4>2 DEF Shutdown, QueueInLoop, Idle, Functor
      <4>3. CASE CallReadControl(t)
        <5>1. \A op \in ReadControl : op # "shutdownInLoop"
          OBVIOUS
        <5> QED BY <2>0, <4>0, <4>3, <5>1 DEF CallReadControl, Functor
      <4>4. ~SetDisconnecting(t)
        BY <1>3 DEF SetDisconnecting
      <4> QED BY <3>2, <4>1, <4>2, <4>3, <4>4 DEF Thread, Finish
    <3> QED BY <3>1, <3>2, UserSteps
  <2> QED BY <2>1, <2>2, <2>3
<1> QED BY <1>1, <1>2, <1>3 DEF Held

(* It holds in every behaviour.                                             *)
LEMMA HeldAlways == Spec => []Held
<1>1. Init => Held
  BY DEF Init, Held, Queued, Has, Functor, Idle
<1> QED BY <1>1, HeldInvariant, TypeCorrect, BeginsAlways, PTL DEF Spec

\* GracefulShutdown in terms of Contains.
Graceful ==
  Up /\ shutWr => \A m \in promised : sender[m] = LoopThread =>
                                        Contains(wire, Units(m))

(* The two say the same.                                                    *)
LEMMA GracefulMeans == TypeOK => (Graceful <=> GracefulShutdown)
<1> SUFFICES ASSUME TypeOK, NEW m \in promised
             PROVE  Contains(wire, Units(m))
                      <=> \E k \in 0..Len(wire) :
                            /\ k + MsgLen <= Len(wire)
                            /\ SubSeq(wire, k + 1, k + MsgLen) = Units(m)
  BY DEF Graceful, GracefulShutdown
<1>1. Len(Units(m)) = MsgLen
  BY UnitsType DEF TypeOK
<1> QED BY <1>1 DEF Contains

(* When the write side is being closed, all of the stream is on the wire.   *)
LEMMA AllOnWire ==
  ASSUME TypeOK, ChannelFollows, Up, ByteStream', [Next]_vars,
         ~shutWr, shutWr'
  PROVE  wire' = stream'
<1>t. TypeOK'
  BY TypeInvariant
<1>1. outputBuffer_' = <<>>
  BY ShutSteps DEF ChannelFollows, bufferVars
<1>2. wire' \in Seq(AllUnits)
  BY <1>t DEF TypeOK
<1> QED BY <1>1, <1>2, ConcatEmptySeq DEF ByteStream

(* What the loop's thread sent before it called shutdown() is on the wire   *)
(* before the write side is closed, whatever other threads send or close    *)
(* meanwhile and however the writes are split.                              *)
THEOREM ShutdownAlwaysGraceful == Spec => []GracefulShutdown
<1>1. Init => Graceful
  BY DEF Init, Graceful, Up
<1>2. ASSUME TypeOK, Begins, Held, ChannelFollows, ByteStream', Graceful,
             [Next]_vars
      PROVE  Graceful'
  <2> SUFFICES ASSUME Up', shutWr', NEW m \in promised', sender'[m] = LoopThread
               PROVE  Contains(wire', Units(m))
    BY DEF Graceful
  <2>h. Held' /\ TypeOK'
    BY <1>2, HeldInvariant, TypeInvariant
  <2>m. m \in DOMAIN sender' /\ Contains(stream', Units(m))
    BY <2>h DEF Held
  <2>1. CASE ~shutWr
    <3>1. Up
      BY <1>2, <2>1, UpSteps
    <3> QED BY <1>2, <2>1, <2>m, <3>1, AllOnWire
  <2>2. CASE shutWr
    <3>0. state_ \notin {"kConnecting", "kConnected"}
      BY <1>2, <2>2 DEF Held
    <3>1. Up
      BY <1>2, <2>2, UpSteps DEF Fresh
    <3>2. UNCHANGED promised
      BY <1>2, <3>0, PromisedSteps DEF LoopShutdown
    <3>3. m \in promised /\ sender[m] = LoopThread
      BY <1>2, <3>2, SenderSteps DEF Held
    <3>4. Contains(wire, Units(m)) /\ m \in Messages
      BY <1>2, <2>2, <3>1, <3>3 DEF Graceful, TypeOK
    <3>5. PICK x \in Seq(AllUnits) : wire' = wire \o x
      BY <1>2, StreamGrows
    <3>6. wire \in Seq(AllUnits) /\ Units(m) \in Seq(AllUnits)
      BY <1>2, <3>4, UnitsType DEF TypeOK
    <3> QED BY <3>4, <3>5, <3>6, ContainsGrows
  <2> QED BY <2>1, <2>2
<1> QED BY <1>1, <1>2, TypeCorrect, BeginsAlways, HeldAlways,
           ChannelAlwaysFollows, StreamKept, GracefulMeans, PTL DEF Spec
------------------------------------------------------------------------------
(* Up, then down.  If other threads only call shutdown(), a connection      *)
(* goes through three stages: Fresh, StageUp and StageDown.                 *)

Open(ch) ==
  ch.index = "kAdded" /\ ch.mapped /\ ch.registered /\ "IN" \in ch.events
Closed(ch) == ch.index # "kAdded" /\ ~ch.registered /\ ch.events = {}

\* The map has the connection, and its removal has not begun.
StageUp ==
  /\ callbacks = <<"up">>
  /\ state_ \in {"kConnected", "kDisconnecting"}
  /\ connections_ /\ removals = 0
  /\ ~Queued("connectionDestroyed")
  /\ Open(channel_)
  /\ ~("HUP" \in revents_ /\ "IN" \in revents_)

\* The channel is disabled, so handleClose() is not called again.  The removal
\* goes from the base loop to connectionDestroyed(), which runs once and finds
\* the channel in EPoller's map.
StageDown ==
  /\ callbacks = <<"up", "down">>
  /\ state_ \in {"kDisconnected", "kDisconnecting"}
  /\ Closed(channel_)
  /\ "HUP" \notin revents_ /\ "IN" \notin revents_
  /\ AtMostOne("connectionDestroyed")
  /\ Queued("connectionDestroyed") => channel_.mapped
  /\ \/ /\ removals = 1 /\ connections_ /\ channel_.mapped
        /\ ~Queued("connectionDestroyed")
     \/ removals = 0 /\ ~connections_

SendOrRead == {"sendInLoop", "startReadInLoop", "stopReadInLoop"}
NoSendOrRead ==
  \A op \in SendOrRead : ~Queued(op) /\ \A t \in Threads : user[t].op # op

Stages ==
  OnlyLoopThread => /\ aborted = "no"
                    /\ NoSendOrRead
                    /\ callbacks = <<>> \/ StageUp \/ StageDown

(* What the channel's operations make of an open and of a closed channel.   *)
LEMMA OpenClosed ==
  ASSUME NEW ch \in Channels
  PROVE  /\ Open(ch) => Open(EnableWriting(ch)) /\ Open(DisableWriting(ch))
         /\ Open(ch) => Closed(DisableAll(ch)) /\ DisableAll(ch).mapped
         /\ Closed(ch) => Closed(RemoveChannel(ch))
         /\ Open(EnableReading(NewChannel))
  BY DEF Channels, Open, Closed, EnableReading, EnableWriting, DisableWriting,
         DisableAll, RemoveChannel, UpdateChannel, IsNoneEvent, NewChannel

(* The functor that runs was queued, and is gone if it was there once.      *)
LEMMA RunQueued ==
  ASSUME TypeOK, NEW op, Run(op)
  PROVE  /\ Queued(op)
         /\ AtMostOne(op) /\ pending' = pending => ~Queued(op)' /\ AtMostOne(op)'
<1>1. batch \in Seq(Functors) /\ batch # <<>> /\ batch' = Tail(batch)
      /\ Head(batch).op = op
  BY DEF TypeOK, Run
<1>2. /\ Has(batch, op)
      /\ Unique(batch, op) => ~Has(batch', op) /\ Unique(batch', op)
  BY <1>1, HasTail
<1> QED BY <1>2 DEF Queued, AtMostOne, Has, Unique

(* removeConnectionInLoop() queues connectionDestroyed() once.              *)
LEMMA RemovalQueued ==
  ASSUME TypeOK, connections_, RemoveConnectionInLoop, batch' = batch,
         ~Queued("connectionDestroyed")
  PROVE  /\ AtMostOne("connectionDestroyed")'
         /\ ~connections_' /\ UNCHANGED aborted
<1> DEFINE cd == "connectionDestroyed"
           f == Functor(cd, 0)
<1>0. pending' = Append(pending, f) /\ ~connections_' /\ UNCHANGED aborted
  BY DEF RemoveConnectionInLoop
<1>1. f \in Functors /\ f.op = cd /\ pending \in Seq(Functors)
      /\ batch \in Seq(Functors)
  BY DEF Functors, Functor, TypeOK
<1>2. ~Has(batch, cd) /\ ~Has(pending, cd)
  BY DEF Queued
<1> HIDE DEF f
<1>3. pending' = pending \o <<f>> /\ <<f>> \in Seq(Functors)
  BY <1>0, <1>1, AppendIsConcat
<1>4. Unique(<<f>>, cd)
  BY DEF Unique
<1>5. Unique(pending', cd)
  BY <1>1, <1>2, <1>3, <1>4, HasConcat
<1>6. Unique(batch', cd) /\ ~Has(batch', cd)
  BY <1>2 DEF Unique, Has
<1> QED BY <1>0, <1>5, <1>6 DEF AtMostOne, Unique, Has

(* handleClose() leads from up to down.                                     *)
LEMMA CloseStage ==
  ASSUME TypeOK, StageUp, HandleClose, batch' = batch,
         "HUP" \notin revents_', "IN" \notin revents_'
  PROVE  StageDown' /\ UNCHANGED aborted
<1>1. /\ state_' = "kDisconnected" /\ channel_' = DisableAll(channel_)
      /\ callbacks' = <<"up", "down">>
  BY DEF StageUp, HandleClose, CloseWith
<1>2. Closed(channel_') /\ channel_'.mapped
  BY <1>1, OpenClosed DEF StageUp, TypeOK
<1>3. CASE SharedLoop
  <2>1. RemoveConnectionInLoop /\ UNCHANGED removals
    BY <1>3 DEF StageUp, HandleClose, CloseWith
  <2>2. AtMostOne("connectionDestroyed")' /\ ~connections_' /\ UNCHANGED aborted
    BY <2>1, RemovalQueued DEF StageUp
  <2> QED BY <1>1, <1>2, <2>1, <2>2 DEF StageUp, StageDown, Closed
<1>4. CASE ~SharedLoop
  <2>1. removals' = removals + 1 /\ UNCHANGED <<connections_, pending, aborted>>
    BY <1>4 DEF StageUp, HandleClose, CloseWith
  <2>2. ~Queued("connectionDestroyed")'
    BY <2>1 DEF StageUp, Queued, Has
  <2>3. AtMostOne("connectionDestroyed")'
    BY <2>2 DEF AtMostOne, Queued, Unique, Has
  <2>4. removals' = 1 /\ connections_'
    BY <2>1 DEF StageUp
  <2> QED BY <1>1, <1>2, <2>1, <2>2, <2>3, <2>4 DEF StageDown, Closed
<1> QED BY <1>3, <1>4

\* The functors and calls that do not occur in these stages.
Excluded ==
  /\ ~RunConnectionEstablished /\ ~RunSendInLoop
  /\ ~RunStartReadInLoop /\ ~RunStopReadInLoop
  /\ ~LoopReadControl
  /\ \A t \in Threads : ~Send(t) /\ ~CallReadControl(t)

(* They need a functor that nobody has queued, or break OnlyLoopThread.     *)
LEMMA ExcludedSteps ==
  ASSUME TypeOK, Begins, callbacks # <<>>, NoSendOrRead, OnlyLoopThread'
  PROVE  Excluded
<1>1. \A op \in SendOrRead \cup {"connectionEstablished"} : ~Run(op)
  BY RunQueued DEF NoSendOrRead, Begins
<1>2. /\ ~RunConnectionEstablished /\ ~RunSendInLoop
      /\ ~RunStartReadInLoop /\ ~RunStopReadInLoop
  BY <1>1 DEF SendOrRead, RunConnectionEstablished, RunSendInLoop,
              RunStartReadInLoop, RunStopReadInLoop
<1>3. toggles \in Nat /\ toggles' = 0
  BY DEF TypeOK, OnlyLoopThread
<1>4. ~LoopReadControl /\ \A t \in Threads : ~CallReadControl(t)
  BY <1>3 DEF LoopReadControl, CallReadControl
<1>5. ASSUME NEW t \in Threads, Send(t) PROVE FALSE
  <2>1. sender \in Seq(Threads \cup {LoopThread}) /\ sender' = Append(sender, t)
    BY <1>5 DEF TypeOK, Send
  <2>2. Len(sender') \in DOMAIN sender' /\ sender'[Len(sender')] = t
    BY <2>1
  <2> QED BY <2>2 DEF OnlyLoopThread
<1> QED BY <1>2, <1>4, <1>5 DEF Excluded

(* From StageUp.                                                            *)
LEMMA StageUpStep ==
  ASSUME TypeOK, Begins, Excluded, StageUp, aborted = "no", [Next]_vars
  PROVE  (StageUp' \/ StageDown') /\ aborted' = "no"
<1> USE DEF serverVars, loopVars
<1> DEFINE Keep == /\ callbacks' = callbacks /\ aborted' = aborted
                   /\ connections_' = connections_ /\ removals' = removals
                   /\ state_' \in {"kConnected", "kDisconnecting"}
                   /\ Open(channel_')
                   /\ ~("HUP" \in revents_' /\ "IN" \in revents_')
           Goal == (StageUp' \/ StageDown') /\ aborted' = "no"
<1>k. ASSUME Keep PROVE Goal
  <2>1. ~Queued("connectionDestroyed")'
    BY <1>k, NotQueued DEF Begins, UserCalls, UserCallbacks, StageUp
  <2> QED BY <1>k, <2>1 DEF StageUp, serverVars, Open
<1>o. Open(channel_) /\ state_ \in {"kConnected", "kDisconnecting"}
      /\ channel_ \in Channels
      /\ ~("HUP" \in revents_ /\ "IN" \in revents_)
  BY DEF StageUp, TypeOK
<1>h. ASSUME NEW e, Handle(e)
      PROVE  /\ batch' = batch /\ revents_' = revents_ \ {e}
             /\ ~("HUP" \in revents_' /\ "IN" \in revents_')
  BY <1>h, <1>o DEF Handle
<1>r. ASSUME NEW op, Run(op) PROVE revents_' = revents_
  BY <1>r DEF Run
<1>w. EnableWriting(channel_) \in Channels /\ Open(EnableWriting(channel_))
      /\ Open(DisableWriting(channel_))
  BY <1>o, ChannelTypes, OpenClosed
<1>1. CASE Poll
  <2>1. ~("HUP" \in revents_' /\ "IN" \in revents_')
    BY <1>1 DEF Poll, Handled
  <2> QED BY <1>1, <1>k, <1>o, <2>1 DEF Poll
<1>2. CASE HandleHup
  <2>1. "HUP" \notin revents_' /\ "IN" \notin revents_' /\ batch' = batch
    BY <1>2, <1>o, <1>h DEF HandleHup, Handle
  <2> QED BY <1>2, <2>1, CloseStage DEF HandleHup
<1>3. CASE HandleErr
  BY <1>3, <1>k, <1>o, <1>h DEF HandleErr, HandleError
<1>4. CASE HandleIn
  <2>1. "HUP" \notin revents_' /\ "IN" \notin revents_' /\ batch' = batch
    BY <1>4, <1>h DEF HandleIn, Handle, Precedes
  <2>2. CASE HandleClose
    BY <2>1, <2>2, CloseStage
  <2>3. CASE UNCHANGED <<callbacks, serverVars, aborted, state_, channel_>>
    BY <1>k, <1>o, <2>1, <2>3
  <2> QED BY <1>4, <2>2, <2>3 DEF HandleIn, HandleRead, HandleError
<1>5. CASE HandleOut
  <2>1. /\ channel_' \in {channel_, DisableWriting(channel_)}
        /\ UNCHANGED <<callbacks, serverVars, aborted, state_>>
    BY <1>5 DEF HandleOut, HandleWrite, WriteBuffered
  <2>2. ~("HUP" \in revents_' /\ "IN" \in revents_')
    BY <1>5, <1>h DEF HandleOut
  <2> QED BY <1>k, <1>o, <1>w, <2>1, <2>2
<1>6. CASE DoPendingFunctors \/ FunctorsDone
  BY <1>6, <1>k, <1>o DEF DoPendingFunctors, FunctorsDone
<1>7. CASE RunConnectionDestroyed
  BY <1>7, RunQueued DEF RunConnectionDestroyed, StageUp
<1>8. CASE RunShutdownInLoop \/ RunUserCallback
  BY <1>8, <1>k, <1>o, <1>r DEF RunShutdownInLoop, ShutdownInLoop, RunUserCallback
<1>9. CASE LoopSend
  <2>1. /\ channel_' \in {channel_, EnableWriting(channel_)}
        /\ UNCHANGED <<callbacks, serverVars, aborted, state_, revents_>>
    BY <1>9 DEF LoopSend, SendInLoop, WriteOrBuffer
  <2> QED BY <1>k, <1>o, <1>w, <2>1
<1>10. CASE LoopShutdown
  BY <1>10, <1>k, <1>o DEF LoopShutdown, ShutdownInLoop
<1>11. CASE BaseLoopRemove
  BY <1>11 DEF BaseLoopRemove, StageUp
<1>12. CASE Network
  BY <1>12, <1>k, <1>o DEF Network, Ack, PeerData, PeerFin, PeerReset,
                           NetworkUnchanged
<1>13. ASSUME NEW t \in Threads, Thread(t) PROVE Goal
  BY <1>13, <1>k, <1>o DEF Thread, Finish, Excluded, Shutdown,
                           SetDisconnecting, QueueInLoop
<1>14. CASE UNCHANGED vars
  BY <1>14, <1>k, <1>o DEF vars
<1> QED BY <1>1, <1>2, <1>3, <1>4, <1>5, <1>6, <1>7, <1>8, <1>9, <1>10, <1>11,
           <1>12, <1>13, <1>14
        DEF Excluded, Next, Loop, LoopThreadCall

(* From StageDown.                                                          *)
LEMMA StageDownStep ==
  ASSUME TypeOK, Begins, Excluded, StageDown, aborted = "no", [Next]_vars
  PROVE  StageDown' /\ aborted' = "no"
<1> USE DEF serverVars, loopVars
<1> DEFINE cd == "connectionDestroyed"
           Keep == /\ callbacks' = callbacks /\ aborted' = aborted
                   /\ connections_' = connections_ /\ removals' = removals
                   /\ channel_' = channel_
                   /\ state_' \in {"kDisconnected", "kDisconnecting"}
                   /\ revents_' \subseteq revents_
           Goal == StageDown' /\ aborted' = "no"
<1>k. ASSUME Keep PROVE Goal
  <2>1. (Queued(cd)' => Queued(cd)) /\ AtMostOne(cd)'
    BY <1>k, NotQueued DEF Begins, UserCalls, UserCallbacks, StageDown
  <2> QED BY <1>k, <2>1 DEF StageDown, serverVars, Closed
<1>o. /\ Closed(channel_) /\ state_ \in {"kDisconnected", "kDisconnecting"}
      /\ "HUP" \notin revents_ /\ "IN" \notin revents_ /\ channel_ \in Channels
      /\ AtMostOne(cd)
  BY DEF StageDown, TypeOK
<1>r. ASSUME NEW op, Run(op) PROVE revents_' = revents_
  BY <1>r DEF Run
<1>1. CASE Poll
  <2>1. revents_' = {}
    BY <1>1, <1>o DEF Poll, Handled, Reported, Closed
  <2> QED BY <1>1, <1>k, <1>o, <2>1 DEF Poll
<1>2. CASE HandleHup \/ HandleIn
  BY <1>2, <1>o DEF HandleHup, HandleIn, Handle
<1>3. CASE HandleErr
  BY <1>3, <1>k, <1>o DEF HandleErr, HandleError, Handle
<1>4. CASE HandleOut
  <2>1. ~IsWriting(channel_)
    BY <1>o DEF Closed, IsWriting
  <2>2. UNCHANGED <<callbacks, serverVars, aborted, channel_, state_>>
    BY <1>4, <2>1 DEF HandleOut, HandleWrite, WriteBuffered
  <2> QED BY <1>4, <1>k, <1>o, <2>2 DEF HandleOut, Handle
<1>5. CASE DoPendingFunctors \/ FunctorsDone
  BY <1>5, <1>k, <1>o DEF DoPendingFunctors, FunctorsDone
<1>6. CASE RunConnectionDestroyed
  <2>1. Queued(cd) /\ Run(cd)
    BY <1>6, RunQueued DEF RunConnectionDestroyed
  <2>2. channel_.mapped /\ removals = 0 /\ ~connections_
    BY <2>1 DEF StageDown
  <2>3. /\ UNCHANGED <<state_, callbacks, serverVars, pending>>
        /\ channel_' = RemoveChannel(channel_) /\ aborted' = "no"
    BY <1>6, <1>o, <2>2 DEF RunConnectionDestroyed, ConnectionDestroyed, Closed,
                            IsNoneEvent
  <2>4. ~Queued(cd)' /\ AtMostOne(cd)'
    BY <1>o, <2>1, <2>3, RunQueued
  <2>5. Closed(channel_')
    BY <1>o, <2>3, OpenClosed
  <2>6. revents_' = revents_
    BY <2>1, <1>r
  <2> QED BY <2>2, <2>3, <2>4, <2>5, <2>6
          DEF StageDown, serverVars, Closed
<1>7. CASE RunShutdownInLoop \/ RunUserCallback
  BY <1>7, <1>k, <1>o, <1>r DEF RunShutdownInLoop, ShutdownInLoop, RunUserCallback
<1>8. CASE LoopSend \/ LoopShutdown
  BY <1>8, <1>o DEF LoopSend, LoopShutdown
<1>9. CASE BaseLoopRemove
  <2>1. /\ removals = 1 /\ connections_ /\ channel_.mapped /\ ~Queued(cd)
    BY <1>9 DEF BaseLoopRemove, StageDown
  <2>2. /\ removals' = removals - 1 /\ RemoveConnectionInLoop
        /\ UNCHANGED <<state_, callbacks, channel_, revents_, batch>>
    BY <1>9 DEF BaseLoopRemove
  <2>3. AtMostOne(cd)' /\ ~connections_' /\ UNCHANGED aborted
    BY <2>1, <2>2, RemovalQueued
  <2> QED BY <1>o, <2>1, <2>2, <2>3 DEF StageDown, Closed
<1>10. CASE Network
  BY <1>10, <1>k, <1>o DEF Network, Ack, PeerData, PeerFin, PeerReset,
                           NetworkUnchanged
<1>11. ASSUME NEW t \in Threads, Thread(t) PROVE Goal
  BY <1>11, <1>k, <1>o DEF Thread, Finish, Excluded, Shutdown,
                           SetDisconnecting, QueueInLoop
<1>12. CASE UNCHANGED vars
  BY <1>12, <1>k, <1>o DEF vars
<1> QED BY <1>1, <1>2, <1>3, <1>4, <1>5, <1>6, <1>7, <1>8, <1>9, <1>10, <1>11,
           <1>12
        DEF Excluded, Next, Loop, LoopThreadCall

(* The stages are an invariant.                                             *)
LEMMA StagesInvariant == TypeOK /\ Begins /\ Stages /\ [Next]_vars => Stages'
<1> SUFFICES ASSUME TypeOK, Begins, Stages, [Next]_vars, OnlyLoopThread'
             PROVE  /\ aborted' = "no" /\ NoSendOrRead'
                    /\ callbacks' = <<>> \/ StageUp' \/ StageDown'
  BY DEF Stages
<1>1. OnlyLoopThread
  <2>1. \A m \in DOMAIN sender : sender[m] = LoopThread
    BY SenderSteps DEF OnlyLoopThread
  <2>2. toggles' \in {toggles, toggles + 1}
    BY CallSteps DEF callVars, LoopThreadCall, LoopSend, LoopShutdown,
         LoopReadControl, Thread, Finish, Send, Shutdown, CallReadControl,
         SetDisconnecting, QueueInLoop
  <2>3. toggles \in Nat /\ toggles' = 0
    BY DEF TypeOK, OnlyLoopThread
  <2>4. toggles = 0
    BY <2>2, <2>3
  <2> QED BY <2>1, <2>4 DEF OnlyLoopThread
<1>2. aborted = "no" /\ NoSendOrRead
      /\ (callbacks = <<>> \/ StageUp \/ StageDown)
  BY <1>1 DEF Stages
<1>3. CASE callbacks = <<>>
  <2>0. Fresh /\ BatchInPhase
    BY <1>3 DEF Begins
  <2>1. CASE UNCHANGED callbacks /\ Fresh'
    <3>1. NoSendOrRead'
      BY <2>1 DEF Fresh, NoSendOrRead, SendOrRead, Established, Queued, Has,
                  Functor, Idle
    <3> QED BY <1>3, <2>1, <3>1 DEF Fresh
  <2>2. CASE RunConnectionEstablished /\ batch = Established /\ pending = <<>>
    <3>1. /\ callbacks' = <<"up">> /\ state_' = "kConnected"
          /\ channel_' = EnableReading(NewChannel)
          /\ batch' = <<>> /\ pending' = <<>> /\ aborted' = "no"
          /\ UNCHANGED <<revents_, serverVars, callVars>>
      BY <1>3, <2>0, <2>2, EstablishedUp
    <3>2. NoSendOrRead' /\ ~Queued("connectionDestroyed")'
      BY <1>2, <3>1 DEF NoSendOrRead, Queued, Has, callVars
    <3>3. Open(channel_')
      BY <3>1, OpenClosed DEF TypeOK
    <3> QED BY <2>0, <3>1, <3>2, <3>3 DEF StageUp, Fresh, serverVars, Open
  <2> QED BY <1>3, <2>0, <2>1, <2>2, FreshSteps
<1>4. CASE callbacks # <<>>
  <2>0. Excluded
    BY <1>2, <1>4, ExcludedSteps
  <2>1. ASSUME NEW op \in SendOrRead
        PROVE  ~Queued(op)' /\ \A t \in Threads : user'[t].op # op
    <3>1. ~Queued(op)'
      BY <1>2, NotQueued DEF Begins, NoSendOrRead, SendOrRead, UserCallbacks
    <3>2. CASE UNCHANGED user
      BY <1>2, <3>1, <3>2 DEF NoSendOrRead
    <3>3. ASSUME NEW t \in Threads, Thread(t)
          PROVE  \A u \in Threads : user'[u].op # op
      <4>1. user \in [Threads -> Functors \cup {Idle, Functor("setState", 0)}]
            /\ \A u \in Threads : user[u].op # op
        BY <1>2 DEF TypeOK, NoSendOrRead
      <4> QED BY <2>0, <3>3, <4>1 DEF Thread, Finish, Excluded, Shutdown,
                 SetDisconnecting, QueueInLoop, SendOrRead, Idle, Functor
    <3> QED BY <3>1, <3>2, <3>3, UserSteps
  <2>2. NoSendOrRead'
    BY <2>1 DEF NoSendOrRead
  <2> QED BY <1>2, <1>4, <2>0, <2>2, StageUpStep, StageDownStep
<1> QED BY <1>3, <1>4

(* If only the loop's thread sends and reading is left alone, the user is   *)
(* told up and then at most once down, and no assert fails, whichever       *)
(* threads call shutdown() at whatever moment and however the peer ends.    *)
THEOREM UpThenDownAlways == Spec => []UpThenDown
<1>1. Init => Stages
  BY DEF Init, Stages, NoSendOrRead, SendOrRead, Queued, Has, Functor, Idle
<1>2. Stages => UpThenDown
  BY DEF Stages, UpThenDown, StageUp, StageDown
<1> QED BY <1>1, <1>2, StagesInvariant, TypeCorrect, BeginsAlways, PTL DEF Spec
==============================================================================
