---------------------------- MODULE TcpConnection ----------------------------
(***************************************************************************)
(* chaonet::TcpConnection (TcpConnection.cpp) from the moment TcpServer    *)
(* has created it, with the parts it works with:                           *)
(*  - its Channel and EPoller's record of it (module Channel);             *)
(*  - its socket and the peer at the other end, as the kernel shows them;  *)
(*  - the I/O loop, which polls, dispatches, and runs the functors of one  *)
(*    batch (module EventLoop shows that they run in queueing order);      *)
(*  - TcpServer::removeConnection(), on the base loop;                     *)
(*  - user code on the loop's thread and on other threads, which keeps the *)
(*    TcpConnectionPtr it was given by the connection callback.            *)
(* A message is MsgLen units, <<m, 1>> to <<m, MsgLen>>.  The assert that  *)
(* fails is kept in "aborted", after which the process takes no step.      *)
(***************************************************************************)
EXTENDS Naturals, Sequences, Channel

CONSTANTS Threads,        \* user threads other than the loop's
          LoopThread,     \* the thread of the I/O loop
          SharedLoop,     \* the I/O loop is also the server's base loop
          ReadControl,    \* the calls of startRead() and stopRead() users make
          MsgLen,         \* units of a message
          SndCap,         \* units the kernel's send buffer holds
          highWaterMark_, \* in units
          MaxSends,       \* bound on the calls of send()
          MaxToggles,     \* bound on the calls of startRead() and stopRead()
          MaxCalls        \* bound on the calls of these three together

ASSUME ThreadsAssumption == LoopThread \notin Threads
ASSUME ParametersAssumption ==
         /\ SharedLoop \in BOOLEAN
         /\ ReadControl \subseteq {"startReadInLoop", "stopReadInLoop"}
         /\ MsgLen \in Nat \ {0}
         /\ SndCap \in Nat \ {0}
         /\ highWaterMark_ \in Nat \ {0}
         /\ MaxSends \in Nat
         /\ MaxToggles \in Nat
         /\ MaxCalls \in Nat

VARIABLES
  state_, reading_, outputBuffer_,
  channel_,      \* the record of module Channel
  wire,          \* the units write() has taken
  acked,         \* how many of them have left the send buffer
  shutWr,        \* shutdown(SHUT_WR) has been called
  peer,          \* "open", "fin" after its shutdown, or "reset"
  soError,       \* the socket has an error nobody has read
  rcv,           \* there is input to read
  phase,         \* where the loop's thread is
  revents_,      \* the events of channel_ still to be handled
  pending,       \* pendingFunctors_ of the I/O loop
  batch,         \* the functors of the batch that is being run
  connections_,  \* the server's map has the connection
  removals,      \* removeConnectionInLoop() functors in the base loop
  user,          \* per thread: what the call it is in has still to do
  stream,        \* every unit given to sendInLoop(), in order
  sender,        \* who sent each message
  promised,      \* the messages sent by the first caller of shutdown() before it
  callbacks,     \* "up" and "down", as connectionCallback_ reported them
  warnings,      \* highWaterMarkCallback_ queued since it was below the mark
  toggles,       \* calls of startRead() and stopRead() so far
  aborted        \* the function whose assert failed, or "no"

bufferVars == <<outputBuffer_, wire, stream, warnings>>
serverVars == <<connections_, removals>>
kernelVars == <<acked, peer>>
loopVars == <<phase, revents_, batch>>
callVars == <<user, sender, promised, toggles>>
vars == <<state_, reading_, channel_, bufferVars, kernelVars, shutWr, soError,
          rcv, loopVars, pending, serverVars, callVars, callbacks, aborted>>

Messages == 1..MaxSends
Units(m) == [i \in 1..MsgLen |-> <<m, i>>]

\* A functor of the loop; msg is 0 unless op is "sendInLoop".
Functor(op, m) == [op |-> op, msg |-> m]
Idle == Functor("none", 0)

\* newConnection() has constructed the connection and given
\* connectionEstablished to the I/O loop.
Init == /\ state_ = "kConnecting"
        /\ reading_ = TRUE
        /\ outputBuffer_ = <<>>
        /\ channel_ = NewChannel
        /\ wire = <<>> /\ acked = 0 /\ shutWr = FALSE
        /\ peer = "open" /\ soError = FALSE /\ rcv = FALSE
        /\ phase = "poll" /\ revents_ = {} /\ batch = <<>>
        /\ pending = <<Functor("connectionEstablished", 0)>>
        /\ connections_ = TRUE /\ removals = 0
        /\ user = [t \in Threads |-> Idle]
        /\ stream = <<>> /\ sender = <<>> /\ promised = {}
        /\ callbacks = <<>>
        /\ warnings = 0
        /\ toggles = 0
        /\ aborted = "no"

------------------------------------------------------------------------------
(* Helpers.                                                                 *)

\* No assert has failed.
Running == aborted = "no"

\* The connection has been reported up, and not yet down.
Up == callbacks = <<"up">>

CanWrite == ~shutWr /\ peer # "reset"

\* ::write() of len units: how many the kernel takes, 0 when it returns -1.
Written(len) ==
  LET space == SndCap - (Len(wire) - acked)
  IN  IF ~CanWrite THEN 0 ELSE IF len < space THEN len ELSE space

\* A write() that fails hands the socket's error to its caller.
ErrorAfterWrite == soError /\ CanWrite

\* What the kernel has to report of the socket.
Conditions ==
  {e \in Revents :
     \/ e = "IN" /\ (rcv \/ peer # "open")
     \/ e = "OUT" /\ (~CanWrite \/ Len(wire) - acked < SndCap)
     \/ e = "HUP" /\ (peer = "reset" \/ (peer = "fin" /\ shutWr))
     \/ e = "ERR" /\ soError}

\* A call of queueInLoop() under a condition, as what it appends to pending.
QueueIf(cond, op) == IF cond THEN <<Functor(op, 0)>> ELSE <<>>

------------------------------------------------------------------------------
(* The member functions, as what they do on the loop's thread.  They leave  *)
(* loopVars, callVars and kernelVars to the step that calls them.           *)

\* A plausible mistake: every append above the mark counts.
PassesMarkAgain(oldLen, newLen) == newLen >= highWaterMark_

PassesMark(oldLen, newLen) ==
  newLen >= highWaterMark_ /\ oldLen < highWaterMark_

\* sendInLoop(): write now if direct, then buffer what is left.  A write that
\* fails leaves the whole message.
WriteOrBuffer(m, direct) ==
  LET n == IF direct THEN Written(MsgLen) ELSE 0
      high == n < MsgLen /\ PassesMark(Len(outputBuffer_),
                                       Len(outputBuffer_) + (MsgLen - n))
  IN  /\ wire' = wire \o SubSeq(Units(m), 1, n)
      /\ soError' = IF direct THEN ErrorAfterWrite ELSE soError
      /\ outputBuffer_' = outputBuffer_ \o SubSeq(Units(m), n + 1, MsgLen)
      /\ channel_' = IF n < MsgLen /\ ~IsWriting(channel_)
                       THEN EnableWriting(channel_) ELSE channel_
      /\ pending' = pending \o QueueIf(n = MsgLen, "writeCompleteCallback_")
                            \o QueueIf(high, "highWaterMarkCallback_")
      /\ stream' = stream \o Units(m)
      /\ warnings' = warnings + (IF high THEN 1 ELSE 0)
      /\ UNCHANGED <<state_, reading_, shutWr, rcv, serverVars, callbacks,
                     aborted>>

\* A plausible mistake: always write first.
SendInLoopOvertakes(m) == WriteOrBuffer(m, TRUE)

SendInLoop(m) ==
  WriteOrBuffer(m, ~IsWriting(channel_) /\ outputBuffer_ = <<>>)

StartReadInLoop ==
  /\ channel_' = IF ~reading_ \/ ~IsReading(channel_)
                   THEN EnableReading(channel_) ELSE channel_
  /\ reading_' = TRUE
  /\ UNCHANGED <<state_, bufferVars, shutWr, soError, rcv, pending, serverVars,
                 callbacks, aborted>>

\* A plausible mistake: reading_ is left set.
StopReadInLoopKeepsFlag ==
  /\ channel_' = IF reading_ THEN DisableReading(channel_) ELSE channel_
  /\ UNCHANGED <<state_, reading_, bufferVars, shutWr, soError, rcv, pending,
                 serverVars, callbacks, aborted>>

StopReadInLoop ==
  /\ channel_' = IF reading_ \/ IsReading(channel_)
                   THEN DisableReading(channel_) ELSE channel_
  /\ reading_' = FALSE
  /\ UNCHANGED <<state_, bufferVars, shutWr, soError, rcv, pending, serverVars,
                 callbacks, aborted>>

\* A plausible mistake: output that waits is not waited for.
ShutdownInLoopAtOnce ==
  /\ shutWr' = TRUE
  /\ UNCHANGED <<reading_, channel_, bufferVars, soError, rcv, pending,
                 serverVars, callbacks, aborted>>

\* The caller says what becomes of state_.
ShutdownInLoop ==
  /\ shutWr' = (shutWr \/ ~IsWriting(channel_))
  /\ UNCHANGED <<reading_, channel_, bufferVars, soError, rcv, pending,
                 serverVars, callbacks, aborted>>

\* connectionEstablished() asserts that it runs first.
ConnectionEstablished ==
  /\ IF state_ = "kConnecting"
       THEN /\ state_' = "kConnected"
            /\ channel_' = EnableReading(channel_)
            /\ callbacks' = Append(callbacks, "up")
            /\ UNCHANGED aborted
       ELSE /\ aborted' = "connectionEstablished"
            /\ UNCHANGED <<state_, channel_, callbacks>>
  /\ UNCHANGED <<reading_, bufferVars, shutWr, soError, rcv, pending,
                 serverVars>>

\* A plausible mistake: connectionDestroyed() is not queued.
RemoveConnectionInLoopForgets ==
  /\ connections_' = FALSE
  /\ UNCHANGED <<pending, aborted>>

\* removeConnectionInLoop() of TcpServer, which asserts that the map has the
\* connection.
RemoveConnectionInLoop ==
  IF connections_
    THEN /\ connections_' = FALSE
         /\ pending' = Append(pending, Functor("connectionDestroyed", 0))
         /\ UNCHANGED aborted
    ELSE /\ aborted' = "removeConnectionInLoop"
         /\ UNCHANGED <<connections_, pending>>

\* handleClose() with what it makes of the channel, up to and including
\* closeCallback_, which is TcpServer's removeConnection().
CloseWith(ch) ==
  IF state_ \in {"kConnected", "kDisconnecting"}
    THEN /\ state_' = "kDisconnected"
         /\ channel_' = ch
         /\ callbacks' = Append(callbacks, "down")
         /\ IF SharedLoop
              THEN RemoveConnectionInLoop /\ UNCHANGED removals
              ELSE /\ removals' = removals + 1
                   /\ UNCHANGED <<connections_, pending, aborted>>
         /\ UNCHANGED <<reading_, bufferVars, shutWr, soError, rcv>>
    ELSE /\ aborted' = "handleClose"
         /\ UNCHANGED <<state_, channel_, callbacks, serverVars, pending,
                        reading_, bufferVars, shutWr, soError, rcv>>

\* A plausible mistake: the channel is not disabled.
HandleCloseKeepsEvents == CloseWith(channel_)

HandleClose == CloseWith(DisableAll(channel_))

\* handleError() reads, and so clears, the error of the socket.
HandleError ==
  /\ soError' = FALSE
  /\ UNCHANGED <<state_, reading_, channel_, bufferVars, shutWr, rcv, pending,
                 serverVars, callbacks, aborted>>

\* A plausible mistake: the end of the stream is taken for an error.
HandleReadIgnoresEof ==
  \/ /\ rcv
     /\ rcv' = FALSE
     /\ UNCHANGED <<state_, reading_, channel_, bufferVars, shutWr, soError,
                    pending, serverVars, callbacks, aborted>>
  \/ ~rcv /\ HandleError

\* handleRead(): input, an error (readv() has read it already), or the end.
HandleRead ==
  \/ /\ rcv
     /\ rcv' = FALSE
     /\ UNCHANGED <<state_, reading_, channel_, bufferVars, shutWr, soError,
                    pending, serverVars, callbacks, aborted>>
  \/ ~rcv /\ soError /\ HandleError
  \/ ~rcv /\ ~soError /\ HandleClose

\* handleWrite(), which calls shutdownInLoop() if closing holds when the
\* buffer has become empty.
WriteBuffered(closing) ==
  LET n == IF IsWriting(channel_) THEN Written(Len(outputBuffer_)) ELSE 0
      rest == SubSeq(outputBuffer_, n + 1, Len(outputBuffer_))
      done == n > 0 /\ rest = <<>>
  IN  /\ wire' = wire \o SubSeq(outputBuffer_, 1, n)
      /\ soError' = IF IsWriting(channel_) THEN ErrorAfterWrite ELSE soError
      /\ outputBuffer_' = rest
      /\ warnings' = IF Len(rest) < highWaterMark_ THEN 0 ELSE warnings
      /\ channel_' = IF done THEN DisableWriting(channel_) ELSE channel_
      /\ pending' = pending \o QueueIf(done, "writeCompleteCallback_")
      /\ shutWr' = (shutWr \/ (done /\ closing))
      /\ UNCHANGED <<state_, reading_, rcv, stream, serverVars, callbacks,
                     aborted>>

\* A plausible mistake: the shutdown that was put off is forgotten.
HandleWriteNoShutdown == WriteBuffered(FALSE)

HandleWrite == WriteBuffered(state_ = "kDisconnecting")

\* A plausible mistake: the user is told again.
ConnectionDestroyedReports ==
  /\ callbacks' = Append(callbacks, "down")
  /\ channel_' = RemoveChannel(channel_)
  /\ UNCHANGED <<state_, reading_, bufferVars, shutWr, soError, rcv, pending,
                 serverVars, aborted>>

\* connectionDestroyed(), with the asserts of EPoller::removeChannel().
ConnectionDestroyed ==
  LET ch == IF state_ = "kConnected" THEN DisableAll(channel_) ELSE channel_
  IN  /\ state_' = IF state_ = "kConnected" THEN "kDisconnected" ELSE state_
      /\ callbacks' = IF state_ = "kConnected" THEN Append(callbacks, "down")
                                               ELSE callbacks
      /\ channel_' = RemoveChannel(ch)
      /\ aborted' = IF ch.mapped /\ IsNoneEvent(ch) THEN "no"
                                                    ELSE "removeChannel"
      /\ UNCHANGED <<reading_, bufferVars, shutWr, soError, rcv, pending,
                     serverVars>>
------------------------------------------------------------------------------
(* The loop's thread: loop() of EventLoop and handleEvent() of Channel.     *)

\* poll() returns with the events of this channel, if any: other channels
\* and the timeout make it return too.
Poll == /\ Running
        /\ phase = "poll"
        /\ phase' = "events"
        /\ revents_' = Handled(Reported(channel_, Conditions))
        /\ UNCHANGED <<state_, reading_, channel_, bufferVars, kernelVars,
                       shutWr, soError, rcv, batch, pending, serverVars,
                       callVars, callbacks, aborted>>

\* handleEvent() looks at the events in this order.
Precedes(e) == CASE e = "HUP" -> {}
                 [] e = "ERR" -> {"HUP"}
                 [] e = "IN"  -> {"HUP", "ERR"}
                 [] e = "OUT" -> {"HUP", "ERR", "IN"}

Handle(e) == /\ Running
             /\ phase = "events"
             /\ e \in revents_
             /\ revents_ \cap Precedes(e) = {}
             /\ revents_' = revents_ \ {e}
             /\ UNCHANGED <<phase, batch, kernelVars, callVars>>

HandleHup == Handle("HUP") /\ HandleClose
HandleErr == Handle("ERR") /\ HandleError
HandleIn == Handle("IN") /\ HandleRead
HandleOut == Handle("OUT") /\ HandleWrite

\* doPendingFunctors(): the swap.
DoPendingFunctors ==
  /\ Running
  /\ phase = "events" /\ revents_ = {}
  /\ phase' = "functors"
  /\ batch' = pending
  /\ pending' = <<>>
  /\ UNCHANGED <<state_, reading_, channel_, bufferVars, kernelVars, shutWr,
                 soError, rcv, revents_, serverVars, callVars, callbacks,
                 aborted>>

Run(op) == /\ Running
           /\ phase = "functors"
           /\ batch # <<>>
           /\ Head(batch).op = op
           /\ batch' = Tail(batch)
           /\ UNCHANGED <<phase, revents_, kernelVars, callVars>>

RunConnectionEstablished == Run("connectionEstablished") /\ ConnectionEstablished
RunSendInLoop == Run("sendInLoop") /\ SendInLoop(Head(batch).msg)
RunShutdownInLoop == Run("shutdownInLoop") /\ ShutdownInLoop /\ UNCHANGED state_
RunStartReadInLoop == Run("startReadInLoop") /\ StartReadInLoop
RunStopReadInLoop == Run("stopReadInLoop") /\ StopReadInLoop
RunConnectionDestroyed == Run("connectionDestroyed") /\ ConnectionDestroyed

\* The user's write-complete and high-water callbacks: what they call on the
\* connection is LoopThreadCall.
RunUserCallback ==
  /\ \E op \in {"writeCompleteCallback_", "highWaterMarkCallback_"} : Run(op)
  /\ UNCHANGED <<state_, reading_, channel_, bufferVars, shutWr, soError, rcv,
                 pending, serverVars, callbacks, aborted>>

FunctorsDone ==
  /\ Running
  /\ phase = "functors" /\ batch = <<>>
  /\ phase' = "poll"
  /\ UNCHANGED <<state_, reading_, channel_, bufferVars, kernelVars, shutWr,
                 soError, rcv, revents_, batch, pending, serverVars, callVars,
                 callbacks, aborted>>

------------------------------------------------------------------------------
(* User code.                                                               *)

\* On the loop's thread it runs in a callback of this connection, of another
\* channel, or in a functor: wherever the thread is not in poll().
InUserCode == Running /\ callbacks # <<>> /\ phase # "poll"

Sent(t) == {m \in DOMAIN sender : sender[m] = t}

LoopSend ==
  /\ InUserCode
  /\ Len(sender) < MaxSends /\ Len(sender) + toggles < MaxCalls
  /\ state_ = "kConnected"
  /\ sender' = Append(sender, LoopThread)
  /\ SendInLoop(Len(sender'))
  /\ UNCHANGED <<loopVars, kernelVars, user, promised, toggles>>

LoopShutdown ==
  /\ InUserCode
  /\ state_ = "kConnected"
  /\ state_' = "kDisconnecting"
  /\ promised' = Sent(LoopThread)
  /\ ShutdownInLoop
  /\ UNCHANGED <<loopVars, kernelVars, user, sender, toggles>>

LoopReadControl ==
  /\ InUserCode
  /\ toggles < MaxToggles /\ Len(sender) + toggles < MaxCalls
  /\ toggles' = toggles + 1
  /\ \/ "startReadInLoop" \in ReadControl /\ StartReadInLoop
     \/ "stopReadInLoop" \in ReadControl /\ StopReadInLoop
  /\ UNCHANGED <<loopVars, kernelVars, user, sender, promised>>

LoopThreadCall == LoopSend \/ LoopShutdown \/ LoopReadControl

\* Another thread: send() and shutdown() first test state_ ...
CanCall(t) == Running /\ callbacks # <<>> /\ user[t] = Idle

Send(t) ==
  /\ CanCall(t)
  /\ Len(sender) < MaxSends /\ Len(sender) + toggles < MaxCalls
  /\ state_ = "kConnected"
  /\ sender' = Append(sender, t)
  /\ user' = [user EXCEPT ![t] = Functor("sendInLoop", Len(sender'))]
  /\ UNCHANGED <<state_, reading_, channel_, bufferVars, kernelVars, shutWr,
                 soError, rcv, loopVars, pending, serverVars, promised, toggles,
                 callbacks, aborted>>

Shutdown(t) ==
  /\ CanCall(t)
  /\ state_ = "kConnected"
  /\ user' = [user EXCEPT ![t] = Functor("setState", 0)]
  /\ UNCHANGED <<state_, reading_, channel_, bufferVars, kernelVars, shutWr,
                 soError, rcv, loopVars, pending, serverVars, sender, promised,
                 toggles, callbacks, aborted>>

\* ... then shutdown() sets it, whatever it has become ...
SetDisconnecting(t) ==
  /\ Running
  /\ user[t].op = "setState"
  /\ state_' = "kDisconnecting"
  /\ promised' = IF state_ = "kConnected" THEN Sent(t) ELSE promised
  /\ user' = [user EXCEPT ![t] = Functor("shutdownInLoop", 0)]
  /\ UNCHANGED <<reading_, channel_, bufferVars, kernelVars, shutWr, soError,
                 rcv, loopVars, pending, serverVars, sender, toggles, callbacks,
                 aborted>>

CallReadControl(t) ==
  /\ CanCall(t)
  /\ toggles < MaxToggles /\ Len(sender) + toggles < MaxCalls
  /\ toggles' = toggles + 1
  /\ \E op \in ReadControl : user' = [user EXCEPT ![t] = Functor(op, 0)]
  /\ UNCHANGED <<state_, reading_, channel_, bufferVars, kernelVars, shutWr,
                 soError, rcv, loopVars, pending, serverVars, sender, promised,
                 callbacks, aborted>>

\* ... and each ends in queueInLoop().
QueueInLoop(t) ==
  /\ Running
  /\ user[t].op \notin {"none", "setState"}
  /\ pending' = Append(pending, user[t])
  /\ user' = [user EXCEPT ![t] = Idle]
  /\ UNCHANGED <<state_, reading_, channel_, bufferVars, kernelVars, shutWr,
                 soError, rcv, loopVars, serverVars, sender, promised, toggles,
                 callbacks, aborted>>

\* The base loop runs removeConnectionInLoop().
BaseLoopRemove ==
  /\ Running
  /\ removals > 0
  /\ removals' = removals - 1
  /\ RemoveConnectionInLoop
  /\ UNCHANGED <<state_, reading_, channel_, bufferVars, kernelVars, shutWr,
                 soError, rcv, loopVars, callVars, callbacks>>

------------------------------------------------------------------------------
(* The network.                                                             *)

NetworkUnchanged ==
  UNCHANGED <<state_, reading_, channel_, bufferVars, shutWr, loopVars, pending,
              serverVars, callVars, callbacks, aborted>>

\* The peer takes what the send buffer holds.
Ack == /\ Running /\ peer # "reset"
       /\ acked < Len(wire)
       /\ acked' = acked + 1
       /\ UNCHANGED <<peer, soError, rcv>> /\ NetworkUnchanged

PeerData == /\ Running /\ peer = "open"
            /\ ~rcv
            /\ rcv' = TRUE
            /\ UNCHANGED <<acked, peer, soError>> /\ NetworkUnchanged

PeerFin == /\ Running /\ peer = "open"
           /\ peer' = "fin"
           /\ UNCHANGED <<acked, soError, rcv>> /\ NetworkUnchanged

PeerReset == /\ Running /\ peer # "reset"
             /\ peer' = "reset"
             /\ soError' = TRUE
             /\ UNCHANGED <<acked, rcv>> /\ NetworkUnchanged

------------------------------------------------------------------------------
Loop == \/ Poll \/ HandleHup \/ HandleErr \/ HandleIn \/ HandleOut
        \/ DoPendingFunctors \/ FunctorsDone
        \/ RunConnectionEstablished \/ RunSendInLoop \/ RunShutdownInLoop
        \/ RunStartReadInLoop \/ RunStopReadInLoop \/ RunConnectionDestroyed
        \/ RunUserCallback

Finish(t) == SetDisconnecting(t) \/ QueueInLoop(t)

Thread(t) == Send(t) \/ Shutdown(t) \/ CallReadControl(t) \/ Finish(t)

Network == Ack \/ PeerData \/ PeerFin \/ PeerReset

Next == \/ Loop \/ LoopThreadCall \/ BaseLoopRemove \/ Network
        \/ \E t \in Threads : Thread(t)

\* Both loops run, a thread finishes the call it is in, and the peer takes
\* the data it is sent until it resets the connection.  Users need not call
\* anything, and the peer need not send or close.
Fairness == /\ WF_vars(Loop)
            /\ WF_vars(BaseLoopRemove)
            /\ WF_vars(Ack)
            /\ \A t \in Threads : WF_vars(Finish(t))

Spec == Init /\ [][Next]_vars /\ Fairness

------------------------------------------------------------------------------
Functors == {Functor(op, 0) : op \in {"connectionEstablished", "shutdownInLoop",
               "startReadInLoop", "stopReadInLoop", "connectionDestroyed",
               "writeCompleteCallback_", "highWaterMarkCallback_"}}
            \cup {Functor("sendInLoop", m) : m \in Messages}

AllUnits == Messages \X (1..MsgLen)

TypeOK ==
  /\ state_ \in {"kConnecting", "kConnected", "kDisconnecting", "kDisconnected"}
  /\ reading_ \in BOOLEAN
  /\ channel_ \in Channels
  /\ outputBuffer_ \in Seq(AllUnits) /\ wire \in Seq(AllUnits)
  /\ stream \in Seq(AllUnits)
  /\ acked \in 0..Len(wire) /\ Len(wire) - acked <= SndCap
  /\ shutWr \in BOOLEAN /\ soError \in BOOLEAN /\ rcv \in BOOLEAN
  /\ peer \in {"open", "fin", "reset"}
  /\ phase \in {"poll", "events", "functors"}
  /\ revents_ \subseteq Revents
  /\ pending \in Seq(Functors) /\ batch \in Seq(Functors)
  /\ connections_ \in BOOLEAN /\ removals \in Nat
  /\ user \in [Threads -> Functors \cup {Idle, Functor("setState", 0)}]
  /\ sender \in Seq(Threads \cup {LoopThread}) /\ Len(sender) <= MaxSends
  /\ promised \subseteq Messages
  /\ callbacks \in Seq({"up", "down"})
  /\ warnings \in Nat
  /\ toggles \in 0..MaxToggles
  /\ aborted \in {"no", "handleClose", "removeConnectionInLoop",
                  "removeChannel", "connectionEstablished"}

(* EPoller's record of the channel and the kernel's epoll set agree at all  *)
(* times, also when functors run after the connection was closed or         *)
(* removed and put its channel back.                                        *)
ChannelRegistered == Registration(channel_)

(* What has been written and what waits in outputBuffer_ is together every  *)
(* message that sendInLoop() was given, whole and in order: a direct write  *)
(* never overtakes buffered data, a partial or failing write loses nothing. *)
ByteStream == wire \o outputBuffer_ = stream

(* While the connection is up, the channel asks for write events exactly    *)
(* while output waits (else it would wait for ever, or the loop would       *)
(* spin), and isReading() tells whether it asks for read events.            *)
ChannelFollows ==
  Up => /\ IsWriting(channel_) <=> outputBuffer_ # <<>>
        /\ IsReading(channel_) <=> reading_

(* A caller that sends and then calls shutdown() has its data on the wire   *)
(* before the write side is closed: shutdownInLoop() leaves a writing       *)
(* channel alone and handleWrite() closes it once the buffer is empty.  It  *)
(* holds for what the loop's thread sends, whoever else shuts down.         *)
(* Another thread's shutdown() sets state_ while its own sendInLoop() still *)
(* waits in the loop, and a handleWrite() that empties the buffer before    *)
(* that functor runs closes the write side.                                 *)
GracefulShutdown ==
  Up /\ shutWr => \A m \in promised : sender[m] = LoopThread =>
                     \E k \in 0..Len(wire) :
                       k + MsgLen <= Len(wire)
                       /\ SubSeq(wire, k + 1, k + MsgLen) = Units(m)

(* sendInLoop() queues the high-water callback exactly once for each time   *)
(* the buffer reaches highWaterMark_: with the append that reaches it, with *)
(* none that stays below and with no further one until handleWrite() has    *)
(* brought the buffer below the mark again.                                 *)
HighWaterTold ==
  warnings = IF Len(outputBuffer_) >= highWaterMark_ THEN 1 ELSE 0

\* Only the loop's thread has sent, and reading was left alone.
OnlyLoopThread == toggles = 0 /\ \A m \in DOMAIN sender : sender[m] = LoopThread

(* If only the loop's thread sends and reading is left alone, whoever calls *)
(* shutdown(), the user is told that the connection is up and then at most  *)
(* once that it is down, and no assert fails: handleClose() runs once, and  *)
(* connectionDestroyed() finds the channel disabled.                        *)
UpThenDown ==
  OnlyLoopThread => /\ callbacks \in {<<>>, <<"up">>, <<"up", "down">>}
                    /\ aborted = "no"

(* Buffered output gets written while the connection is up, and shutdown()  *)
(* then gets the write side closed, unless the connection goes down first.  *)
OutputCompletes ==
  /\ (Up /\ outputBuffer_ # <<>>)
       ~> (outputBuffer_ = <<>> \/ shutWr \/ ~Up \/ ~Running)
  /\ (Up /\ state_ = "kDisconnecting") ~> (shutWr \/ ~Up \/ ~Running)

(* The end of the peer's stream is noticed, also through an error, unless   *)
(* the user stops reading.                                                  *)
PeerCloseNoticed ==
  (Up /\ peer # "open") ~> (~Up \/ ~IsReading(channel_) \/ ~Running)

(* A connection that goes down is some time out of the server's map and out *)
(* of the poller at once, through handleClose(), removeConnectionInLoop()   *)
(* and the functor of connectionDestroyed() on the one loop of a server     *)
(* without I/O threads.  A call that comes later may register its channel   *)
(* once more.  The way over two loops is ClosedIsFreed of TcpServer.        *)
CloseCompletes ==
  <>(~Up /\ state_ # "kConnecting")
    => <>((~connections_ /\ ~channel_.mapped) \/ ~Running)
==============================================================================
