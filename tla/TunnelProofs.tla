---------------------------- MODULE TunnelProofs ----------------------------
(***************************************************************************)
(* Proofs about Tunnel, for any high water mark, any size of a request and *)
(* any amount of data: back pressure (FlowControl), where it can fail      *)
(* (FaultCauses) and that no stream is damaged (StreamsKept).  First the   *)
(* effect of each operator on the record `relay`, then one invariant on    *)
(* the control and a second one, which needs the first, on the streams.    *)
(***************************************************************************)
EXTENDS Tunnel, SequenceTheorems, WellFoundedInduction, TLAPS

Units == {"0", "d", "h", "u", "v4", "v4a", "v4n", "bad", "r", "x"}
States == {"none", "kConnected", "kDisconnecting", "kDisconnected"}

ConnType ==
  [state_ : States, isReading : BOOLEAN, inputBuffer_ : Seq(Units),
   outputBuffer_ : Seq(Units), written : Seq(Units), fin : BOOLEAN,
   destroyed : BOOLEAN, highWaterMarkCallback_ : BOOLEAN,
   writeCompleteCallback_ : BOOLEAN]

FunctorType ==
  [on : {"onHighWaterMark", "onWriteComplete", "connectionDestroyed"}, side : Sides]

RelayType ==
  [conn : [Sides -> ConnType], context_ : BOOLEAN, clientConn_ : BOOLEAN,
   connection_ : BOOLEAN, callbacks : BOOLEAN, tunnels : BOOLEAN, freed : BOOLEAN,
   pending : Seq(FunctorType), fault : {"none", "assert", "null"}]

EventType ==
  [on : {"IN", "HUP", "OUT", "connect"}, side : Sides,
   seen : {"open", "closed", "reset"}]

------------------------------------------------------------------------------
\* A new connection is well formed.
LEMMA NewConnType ==
  ASSUME NEW st \in States, NEW reading \in BOOLEAN
  PROVE  NewConn(st, reading) \in ConnType
BY EmptySeq DEF NewConn, ConnType

\* onServerConnection() starts from a well-formed relay.
LEMMA AcceptedType ==
  ASSUME NEW m PROVE Accepted(m) \in RelayType
<1> DEFINE s == [conn |-> [x \in Sides |->
                        IF x = "server" THEN NewConn("kConnected", m = "socks4a")
                        ELSE NewConn("none", FALSE)],
            context_ |-> FALSE, clientConn_ |-> FALSE, connection_ |-> FALSE,
            callbacks |-> FALSE,   tunnels |-> FALSE, 
            freed |-> FALSE, pending |-> <<>>, fault |-> "none"]
<1>1. s.conn \in [Sides -> ConnType]
  <2>1. NewConn("kConnected", m = "socks4a") \in ConnType /\ NewConn("none", FALSE) \in ConnType
    BY NewConnType DEF States
  <2> QED BY <2>1 DEF Sides
<1>2. s \in RelayType
  BY <1>1, EmptySeq DEF RelayType
<1>3. Setup(s) \in RelayType
  <2>1. s.conn["server"] \in ConnType
    BY <1>1 DEF Sides
  <2> HIDE DEF s
  <2>3. [s.conn["server"] EXCEPT !.highWaterMarkCallback_ = TRUE] \in ConnType
    BY <2>1 DEF ConnType
  <2> QED BY <1>2, <1>1, <2>3 DEF RelayType, Setup, Sides
<1> QED BY <1>2, <1>3 DEF Accepted
------------------------------------------------------------------------------
(* What the operators on the relay do to its parts.                         *)

SameFlags(s, t) ==
  /\ t.context_ = s.context_ /\ t.clientConn_ = s.clientConn_
  /\ t.connection_ = s.connection_ /\ t.callbacks = s.callbacks
  /\ t.tunnels = s.tunnels /\ t.freed = s.freed /\ t.fault = s.fault

SameControl(c, d) ==
  /\ d.state_ = c.state_ /\ d.isReading = c.isReading /\ d.fin = c.fin
  /\ d.destroyed = c.destroyed
  /\ d.highWaterMarkCallback_ = c.highWaterMarkCallback_
  /\ d.writeCompleteCallback_ = c.writeCompleteCallback_

SameStreams(c, d) ==
  /\ d.inputBuffer_ = c.inputBuffer_ /\ d.outputBuffer_ = c.outputBuffer_
  /\ d.written = c.written

\* The other side of a side.
LEMMA Others ==
  ASSUME NEW x \in Sides
  PROVE  Other(x) \in Sides /\ Other(x) # x /\ Other(Other(x)) = x
BY DEF Sides, Other

\* The types of the relay's fields.
LEMMA RelayFields ==
  ASSUME NEW s \in RelayType
  PROVE  /\ s.conn \in [Sides -> ConnType]
         /\ \A x \in Sides : s.conn[x] \in ConnType
         /\ s.pending \in Seq(FunctorType)
BY DEF RelayType

\* One connection is given another record.
WithConn(s, t, x, c) ==
  /\ t \in RelayType /\ SameFlags(s, t) /\ t.pending = s.pending
  /\ t.conn[x] = c /\ t.conn[Other(x)] = s.conn[Other(x)]

\* A relay in which one connection is replaced.
LEMMA SetConn ==
  ASSUME NEW s \in RelayType, NEW x \in Sides, NEW c \in ConnType
  PROVE  WithConn(s, [s EXCEPT !.conn[x] = c], x, c)
BY Others DEF WithConn, RelayType, SameFlags

\* A functor is queued.
Enqueued(s, t, on, x) ==
  /\ t \in RelayType /\ SameFlags(s, t) /\ t.conn = s.conn
  /\ t.pending = Append(s.pending, Functor(on, x))

\* queueInLoop() adds one functor and changes nothing else.
LEMMA QueueEffect ==
  ASSUME NEW s \in RelayType, NEW x \in Sides,
         NEW on \in {"onHighWaterMark", "onWriteComplete", "connectionDestroyed"}
  PROVE  Enqueued(s, QueueInLoop(s, on, x), on, x)
<1>1. Functor(on, x) \in FunctorType
  BY DEF Functor, FunctorType
<1>2. s.pending \in Seq(FunctorType)
  BY RelayFields
<1>3. Append(s.pending, Functor(on, x)) \in Seq(FunctorType)
  BY <1>1, <1>2
<1> QED BY <1>3 DEF Enqueued, QueueInLoop, RelayType, SameFlags
------------------------------------------------------------------------------
(* sendInLoop(), send() and shutdown().                                     *)

\* data cut in two after k units.
IsParted(data, k, a, b) ==
  /\ a \in Seq(Units) /\ b \in Seq(Units)
  /\ Len(a) = k /\ Len(b) = Len(data) - k /\ a \o b = data

\* A sequence is what ::write() took of it and what is left.
LEMMA Parts ==
  ASSUME NEW data \in Seq(Units), NEW k \in 0..Len(data)
  PROVE  IsParted(data, k, SubSeq(data, 1, k), SubSeq(data, k + 1, Len(data)))
<1>1. /\ SubSeq(data, 1, k) \in Seq(Units) /\ Len(SubSeq(data, 1, k)) = k
      /\ SubSeq(data, k + 1, Len(data)) \in Seq(Units)
      /\ Len(SubSeq(data, k + 1, Len(data))) = Len(data) - k
  OBVIOUS
<1>2. /\ 1 \in 1..Len(data) + 1 /\ k \in 1 - 1..Len(data)
      /\ Len(data) \in k..Len(data)
  OBVIOUS
<1>3. SubSeq(data, 1, k) \o SubSeq(data, k + 1, Len(data)) = SubSeq(data, 1, Len(data))
  BY <1>2, ConcatAdjacentSubSeq, Zenon
<1>4. SubSeq(data, 1, Len(data)) = data
  BY SubSeqFull, Zenon
<1> QED BY <1>1, <1>3, <1>4 DEF IsParted

Assoc(a, b, c) == (a \o b) \o c = a \o (b \o c)

\* Concatenation is associative, on units.
LEMMA Joins ==
  ASSUME NEW a \in Seq(Units), NEW b \in Seq(Units), NEW c \in Seq(Units)
  PROVE  Assoc(a, b, c)
BY ConcatAssociative DEF Assoc

\* The length of two sequences of units put together.
LEMMA JoinLen ==
  ASSUME NEW a \in Seq(Units), NEW b \in Seq(Units)
  PROVE  a \o b \in Seq(Units) /\ Len(a \o b) = Len(a) + Len(b)
OBVIOUS

\* Nothing is added by an empty sequence.
LEMMA JoinEmpty ==
  ASSUME NEW a \in Seq(Units)
  PROVE  a \o <<>> = a /\ <<>> \o a = a /\ <<>> \in Seq(Units) /\ Len(<<>>) = 0
OBVIOUS

\* Only the empty sequence has length 0.
LEMMA EmptyLen ==
  ASSUME NEW a \in Seq(Units)
  PROVE  Len(a) \in Nat /\ (a = <<>> <=> Len(a) = 0)
OBVIOUS

\* The kernel takes no more than it is given.
LEMMA AtMost ==
  ASSUME NEW a \in Nat, NEW b \in Nat
  PROVE  Min({a, b}) \in 0..b
<1> DEFINE S == {a, b}
<1>1. \E x \in S : \A y \in S : x =< y
  OBVIOUS
<1> HIDE DEF S
<1>2. Min(S) \in S /\ \A y \in S : Min(S) =< y
  BY <1>1, Zenon DEF Min
<1> QED BY <1>2 DEF S

\* The functor that follows from a connection's buffer having grown.
Notified(s, t, x, old, new) ==
  LET c == s.conn[x]
  IN  \/ t.pending = s.pending /\ ~(Crosses(old, new) /\ c.highWaterMarkCallback_)
      \/ /\ c.writeCompleteCallback_
         /\ t.pending = Append(s.pending, Functor("onWriteComplete", x))
      \/ /\ Crosses(old, new) /\ c.highWaterMarkCallback_
         /\ t.pending = Append(s.pending, Functor("onHighWaterMark", x))

\* A connection is given data to send.
Given(s, t, x, data) ==
  LET c == s.conn[x]
      d == t.conn[x]
      old == Len(c.outputBuffer_)
      new == Len(d.outputBuffer_)
  IN  /\ SameControl(c, d) /\ d.inputBuffer_ = c.inputBuffer_
      /\ d.written \o d.outputBuffer_ = (c.written \o c.outputBuffer_) \o data
      /\ old <= new /\ new <= old + Len(data)
      /\ Notified(s, t, x, old, new)

\* What send() of data on one connection does.
Sent(s, t, x, data) ==
  /\ t \in RelayType /\ SameFlags(s, t)
  /\ t.conn[Other(x)] = s.conn[Other(x)]
  /\ Given(s, t, x, data)

\* sendInLoop(): whatever the kernel takes at once, the stream is the old one
\* with the data after it.
LEMMA SendInLoopEffect ==
  ASSUME NEW s \in RelayType, NEW x \in Sides, NEW data \in Seq(Units), NEW n \in Nat
  PROVE  Sent(s, SendInLoop(s, x, data, n), x, data)
<1>0. PICK c \in ConnType : c = s.conn[x]
  BY RelayFields
<1>1. /\ c.outputBuffer_ \in Seq(Units) /\ c.written \in Seq(Units)
      /\ c.writeCompleteCallback_ \in BOOLEAN /\ c.highWaterMarkCallback_ \in BOOLEAN
  BY DEF ConnType
<1>2. PICK k : k = IF c.outputBuffer_ = <<>> THEN Min({n, Len(data)}) ELSE 0
  OBVIOUS
<1>3. Len(data) \in Nat /\ k \in 0..Len(data)
  BY <1>2, AtMost, EmptyLen
<1>4. PICK first, rest : first = SubSeq(data, 1, k) /\ rest = SubSeq(data, k + 1, Len(data))
  OBVIOUS
<1>5. IsParted(data, k, first, rest)
  BY <1>3, <1>4, Parts
<1>6. /\ first \in Seq(Units) /\ rest \in Seq(Units) /\ Len(rest) = Len(data) - k
      /\ first \o rest = data
  BY <1>5 DEF IsParted
<1>7. PICK d : d = [c EXCEPT !.written = @ \o first, !.outputBuffer_ = @ \o rest]
  OBVIOUS
<1>8. /\ c.written \o first \in Seq(Units) /\ c.outputBuffer_ \o rest \in Seq(Units)
      /\ Len(c.outputBuffer_ \o rest) = Len(c.outputBuffer_) + Len(rest)
  BY <1>1, <1>6, JoinLen
<1>9. /\ d \in ConnType /\ SameControl(c, d) /\ d.inputBuffer_ = c.inputBuffer_
      /\ d.written = c.written \o first /\ d.outputBuffer_ = c.outputBuffer_ \o rest
  BY <1>7, <1>8 DEF ConnType, SameControl
<1>10. PICK y : y = [s EXCEPT !.conn[x] = d]
  OBVIOUS
<1>11. WithConn(s, y, x, d)
  BY <1>9, <1>10, SetConn
<1>12. y = [s EXCEPT !.conn[x].written = @ \o SubSeq(data, 1, k),
                     !.conn[x].outputBuffer_ = @ \o SubSeq(data, k + 1, Len(data))]
  BY <1>0, <1>4, <1>7, <1>10 DEF RelayType
<1>13. d.written \o d.outputBuffer_ = (c.written \o c.outputBuffer_) \o data
  <2>1. CASE c.outputBuffer_ = <<>>
    <3>1. d.outputBuffer_ = rest /\ c.written \o c.outputBuffer_ = c.written
      BY <2>1, <1>1, <1>6, <1>9, JoinEmpty
    <3>2. Assoc(c.written, first, rest)
      BY <1>1, <1>6, Joins
    <3> QED BY <3>1, <3>2, <1>6, <1>9 DEF Assoc
  <2>2. CASE c.outputBuffer_ # <<>>
    <3>1. k = 0
      BY <2>2, <1>2
    <3>2. first = <<>>
      BY <3>1, <1>5, EmptyLen DEF IsParted
    <3>3. rest = data /\ d.written = c.written
      BY <3>2, <1>1, <1>6, <1>9, JoinEmpty
    <3>4. Assoc(c.written, c.outputBuffer_, rest)
      BY <1>1, <1>6, Joins
    <3> QED BY <3>3, <3>4, <1>9 DEF Assoc
  <2> QED BY <2>1, <2>2
<1>14. PICK old \in Nat, new \in Nat, len \in Nat :
         /\ old = Len(c.outputBuffer_) /\ new = Len(d.outputBuffer_) /\ len = Len(rest)
         /\ new = old + len /\ len <= Len(data) /\ (rest = <<>> <=> len = 0)
  BY <1>1, <1>3, <1>6, <1>8, <1>9, EmptyLen
<1>15. /\ y \in RelayType /\ SameFlags(s, y) /\ y.pending = s.pending
       /\ y.conn[x] = d /\ y.conn[Other(x)] = s.conn[Other(x)]
  BY <1>11 DEF WithConn
<1>16. old <= new /\ new <= old + Len(data)
  BY <1>3, <1>14
<1>17. PICK t : t = SendInLoop(s, x, data, n)
  OBVIOUS
<1>18. t = IF rest = <<>> /\ c.writeCompleteCallback_
             THEN QueueInLoop(y, "onWriteComplete", x)
           ELSE IF Crosses(old, old + len) /\ rest # <<>> /\ c.highWaterMarkCallback_
             THEN QueueInLoop(y, "onHighWaterMark", x)
           ELSE y
  BY <1>0, <1>2, <1>4, <1>12, <1>14, <1>17 DEF SendInLoop
<1>19. Crosses(old, new) => rest # <<>>
  BY <1>14, TunnelAssumption DEF Crosses
<1>20. ASSUME t \in RelayType, SameFlags(y, t), t.conn = y.conn,
              \/ t.pending = s.pending /\ ~(Crosses(old, new) /\ c.highWaterMarkCallback_)
              \/ /\ c.writeCompleteCallback_
                 /\ t.pending = Append(s.pending, Functor("onWriteComplete", x))
              \/ /\ Crosses(old, new) /\ c.highWaterMarkCallback_
                 /\ t.pending = Append(s.pending, Functor("onHighWaterMark", x))
       PROVE  Sent(s, t, x, data)
  <2>1. SameFlags(s, t)
    BY <1>15, <1>20 DEF SameFlags
  <2> QED BY <2>1, <1>0, <1>9, <1>13, <1>14, <1>15, <1>16, <1>20 DEF Sent, Given, Notified
<1>21. CASE rest = <<>> /\ c.writeCompleteCallback_
  <2>1. t = QueueInLoop(y, "onWriteComplete", x)
    BY <1>18, <1>21
  <2>2. /\ t \in RelayType /\ SameFlags(y, t) /\ t.conn = y.conn
        /\ t.pending = Append(y.pending, Functor("onWriteComplete", x))
    BY <2>1, <1>15, QueueEffect DEF Enqueued
  <2> QED BY <2>2, <1>15, <1>17, <1>20, <1>21
<1>22. CASE ~(rest = <<>> /\ c.writeCompleteCallback_) /\ Crosses(old, new)
              /\ c.highWaterMarkCallback_
  <2>1. t = QueueInLoop(y, "onHighWaterMark", x)
    BY <1>14, <1>18, <1>19, <1>22
  <2>2. /\ t \in RelayType /\ SameFlags(y, t) /\ t.conn = y.conn
        /\ t.pending = Append(y.pending, Functor("onHighWaterMark", x))
    BY <2>1, <1>15, QueueEffect DEF Enqueued
  <2> QED BY <2>2, <1>15, <1>17, <1>20, <1>22
<1>23. CASE ~(rest = <<>> /\ c.writeCompleteCallback_)
              /\ ~(Crosses(old, new) /\ c.highWaterMarkCallback_)
  <2>1. t = y
    BY <1>14, <1>18, <1>23
  <2>2. SameFlags(y, y)
    BY DEF SameFlags
  <2> QED BY <2>1, <2>2, <1>15, <1>17, <1>20, <1>23
<1> QED BY <1>21, <1>22, <1>23

\* What send() of the other side's inputBuffer_ does.
Forwarded(s, t, x) ==
  LET c == s.conn[Other(x)]
      d == t.conn[Other(x)]
  IN  /\ t \in RelayType /\ SameFlags(s, t)
      /\ SameControl(c, d) /\ d.inputBuffer_ = <<>>
      /\ d.outputBuffer_ = c.outputBuffer_ /\ d.written = c.written
      /\ Given(s, t, x, c.inputBuffer_)

\* send(Buffer*) moves the other side's inputBuffer_, if the connection is up,
\* and otherwise leaves it where it is.
LEMMA SendBufferEffect ==
  ASSUME NEW s \in RelayType, NEW x \in Sides, NEW n \in Nat
  PROVE  IF s.conn[x].state_ = "kConnected" THEN Forwarded(s, SendBuffer(s, x, n), x)
         ELSE SendBuffer(s, x, n) = s
<1> SUFFICES ASSUME s.conn[x].state_ = "kConnected"
             PROVE  Forwarded(s, SendBuffer(s, x, n), x)
  BY DEF SendBuffer
<1>0. Other(x) \in Sides /\ Other(x) # x /\ Other(Other(x)) = x
  BY Others
<1>1. PICK c \in ConnType, o \in ConnType, ob \in Sides :
        c = s.conn[x] /\ o = s.conn[Other(x)] /\ ob = Other(x)
  BY <1>0, RelayFields
<1>2. PICK e : e = [o EXCEPT !.inputBuffer_ = <<>>]
  OBVIOUS
<1>3. /\ e \in ConnType /\ SameControl(o, e) /\ e.inputBuffer_ = <<>>
      /\ e.outputBuffer_ = o.outputBuffer_ /\ e.written = o.written
  BY <1>2, JoinEmpty DEF ConnType, SameControl
<1>4. PICK y : y = [s EXCEPT !.conn[ob] = e]
  OBVIOUS
<1>5. WithConn(s, y, ob, e)
  BY <1>0, <1>1, <1>3, <1>4, SetConn
<1>6. /\ y \in RelayType /\ SameFlags(s, y) /\ y.pending = s.pending
      /\ y.conn[ob] = e /\ y.conn[x] = c
  BY <1>0, <1>1, <1>5 DEF WithConn
<1>7. y = [s EXCEPT !.conn[Other(x)].inputBuffer_ = <<>>]
  BY <1>0, <1>1, <1>2, <1>4 DEF RelayType
<1>8. PICK t : t = SendInLoop(y, x, o.inputBuffer_, n)
  OBVIOUS
<1>9. SendBuffer(s, x, n) = t
  BY <1>1, <1>7, <1>8 DEF SendBuffer
<1>10. o.inputBuffer_ \in Seq(Units)
  BY DEF ConnType
<1>11. Sent(y, t, x, o.inputBuffer_)
  BY <1>6, <1>8, <1>10, SendInLoopEffect
<1>12. /\ t \in RelayType /\ SameFlags(s, t) /\ t.conn[ob] = e
  BY <1>1, <1>6, <1>11 DEF Sent, SameFlags
<1>13. Given(s, t, x, o.inputBuffer_)
  BY <1>1, <1>6, <1>11 DEF Sent, Given, Notified
<1> QED BY <1>1, <1>3, <1>9, <1>12, <1>13 DEF Forwarded

\* send() of an answer.
LEMMA SendEffect ==
  ASSUME NEW s \in RelayType, NEW x \in Sides, NEW data \in Seq(Units), NEW n \in Nat
  PROVE  IF s.conn[x].state_ = "kConnected" THEN Sent(s, Send(s, x, data, n), x, data)
         ELSE Send(s, x, data, n) = s
BY SendInLoopEffect DEF Send

\* What shutdown() does: the end is sent unless something waits to be written.
ShutConn(c, d) ==
  /\ SameStreams(c, d) /\ d.isReading = c.isReading /\ d.destroyed = c.destroyed
  /\ d.highWaterMarkCallback_ = c.highWaterMarkCallback_
  /\ d.writeCompleteCallback_ = c.writeCompleteCallback_
  /\ d.state_ = IF c.state_ = "kConnected" THEN "kDisconnecting" ELSE c.state_
  /\ d.fin <=> (c.fin \/ (c.state_ = "kConnected" /\ c.outputBuffer_ = <<>>))

ShutDown(s, t, x) ==
  /\ t \in RelayType /\ SameFlags(s, t) /\ t.pending = s.pending
  /\ t.conn[Other(x)] = s.conn[Other(x)]
  /\ ShutConn(s.conn[x], t.conn[x])

\* shutdown() changes the state and, if nothing waits, sends the end.
LEMMA ShutdownEffect ==
  ASSUME NEW s \in RelayType, NEW x \in Sides
  PROVE  ShutDown(s, Shutdown(s, x), x)
<1>0. PICK c \in ConnType : c = s.conn[x]
  BY RelayFields
<1>1. CASE c.state_ # "kConnected"
  <2>1. Shutdown(s, x) = s
    BY <1>0, <1>1 DEF Shutdown
  <2>2. c.fin \in BOOLEAN
    BY DEF ConnType
  <2> QED BY <2>1, <2>2, <1>0, <1>1 DEF ShutDown, ShutConn, SameFlags, SameStreams
<1>2. CASE c.state_ = "kConnected"
  <2>1. PICK d, e : /\ d = [c EXCEPT !.state_ = "kDisconnecting"]
                    /\ e = [d EXCEPT !.fin = TRUE]
    OBVIOUS
  <2>2. d \in ConnType /\ e \in ConnType
    BY <2>1 DEF ConnType, States
  <2>3. PICK y, z : y = [s EXCEPT !.conn[x] = d] /\ z = [y EXCEPT !.conn[x] = e]
    OBVIOUS
  <2>4. WithConn(s, y, x, d)
    BY <2>2, <2>3, SetConn
  <2>5. y.conn[x] = d /\ y \in RelayType
    BY <2>4 DEF WithConn
  <2>6. WithConn(y, z, x, e)
    BY <2>2, <2>3, <2>5, SetConn
  <2>7. y = [s EXCEPT !.conn[x].state_ = "kDisconnecting"]
    BY <1>0, <2>1, <2>3 DEF RelayType
  <2>8. z = [y EXCEPT !.conn[x].fin = TRUE]
    BY <2>1, <2>3, <2>5 DEF RelayType
  <2>9. IsWriting(d) <=> c.outputBuffer_ # <<>>
    BY <2>1 DEF IsWriting, Up, ConnType
  <2>10. Shutdown(s, x) = IF c.outputBuffer_ # <<>> THEN y ELSE z
    BY <1>0, <1>2, <2>5, <2>7, <2>8, <2>9 DEF Shutdown, ShutdownInLoop
  <2>11. ShutDown(s, IF c.outputBuffer_ # <<>> THEN y ELSE z, x)
    <3>1. CASE c.outputBuffer_ # <<>>
      BY <1>0, <1>2, <2>1, <2>4, <3>1 DEF ShutDown, ShutConn, WithConn, ConnType, SameStreams
    <3>2. CASE c.outputBuffer_ = <<>>
      <4>1. SameFlags(s, z) /\ z.pending = s.pending /\ z.conn[Other(x)] = s.conn[Other(x)]
            /\ z \in RelayType /\ z.conn[x] = e
        BY <2>4, <2>6 DEF WithConn, SameFlags
      <4>2. /\ SameStreams(c, e) /\ e.isReading = c.isReading
            /\ e.destroyed = c.destroyed /\ e.state_ = "kDisconnecting" /\ e.fin
            /\ e.highWaterMarkCallback_ = c.highWaterMarkCallback_
            /\ e.writeCompleteCallback_ = c.writeCompleteCallback_
        BY <2>1 DEF ConnType, SameStreams
      <4>3. e.fin <=> (c.fin \/ (c.state_ = "kConnected" /\ c.outputBuffer_ = <<>>))
        BY <1>2, <2>2, <3>2, <4>2 DEF ConnType
      <4> QED BY <1>0, <1>2, <3>2, <4>1, <4>2, <4>3 DEF ShutDown, ShutConn
    <3> QED BY <3>1, <3>2
  <2> QED BY <2>10, <2>11
<1> QED BY <1>1, <1>2
------------------------------------------------------------------------------
(* A connection that comes up or goes down.                                 *)

\* What is left of the connection that went down.
Closed(c, d) ==
  /\ SameStreams(c, d) /\ d.state_ = "kDisconnected" /\ d.isReading = FALSE
  /\ d.fin = c.fin /\ d.destroyed = c.destroyed
  /\ d.highWaterMarkCallback_ = c.highWaterMarkCallback_
  /\ d.writeCompleteCallback_ = c.writeCompleteCallback_

\* The record handleClose() starts from.
HasClosed(s, y, x) ==
  /\ y \in RelayType /\ SameFlags(s, y) /\ y.pending = s.pending
  /\ Closed(s.conn[x], y.conn[x]) /\ y.conn[Other(x)] = s.conn[Other(x)]

\* handleClose() up to its callbacks.
LEMMA CloseConn ==
  ASSUME NEW s \in RelayType, NEW x \in Sides
  PROVE  HasClosed(s, [s EXCEPT !.conn[x].state_ = "kDisconnected",
                                !.conn[x].isReading = FALSE], x)
<1>0. PICK y : y = [s EXCEPT !.conn[x].state_ = "kDisconnected",
                             !.conn[x].isReading = FALSE]
  OBVIOUS
<1>1. PICK c \in ConnType : c = s.conn[x]
  BY RelayFields
<1>2. PICK d : d = [c EXCEPT !.state_ = "kDisconnected", !.isReading = FALSE]
  OBVIOUS
<1>3. d \in ConnType /\ Closed(c, d)
  BY <1>2 DEF ConnType, States, Closed, SameStreams
<1>4. y = [s EXCEPT !.conn[x] = d]
  BY <1>0, <1>1, <1>2 DEF RelayType
<1>5. WithConn(s, y, x, d)
  BY <1>3, <1>4, SetConn
<1> QED BY <1>0, <1>1, <1>3, <1>5 DEF WithConn, HasClosed

\* What handleClose() of serverConn_ does.
ServerClosed(s, t) ==
  /\ t \in RelayType
  /\ Closed(s.conn["server"], t.conn["server"])
  /\ IF s.tunnels /\ s.connection_ THEN ShutConn(s.conn["client"], t.conn["client"])
     ELSE t.conn["client"] = s.conn["client"]
  /\ t.context_ = s.context_ /\ t.clientConn_ = s.clientConn_
  /\ t.connection_ = s.connection_ /\ t.callbacks = s.callbacks
  /\ t.tunnels = FALSE /\ t.freed = s.freed /\ t.fault = s.fault
  /\ t.pending = Append(s.pending, Functor("connectionDestroyed", "server"))

\* handleClose() of serverConn_, with onServerConnection() of either program.
LEMMA ServerCloseEffect ==
  ASSUME NEW s \in RelayType, Up(s.conn["server"]), mode = "tcprelay" => s.tunnels
  PROVE  ServerClosed(s, HandleClose(s, "server"))
<1>0. "server" \in Sides /\ "client" \in Sides /\ Other("server") = "client"
      /\ Other("client") = "server"
  BY DEF Sides, Other
<1>1. PICK y : y = [s EXCEPT !.conn["server"].state_ = "kDisconnected",
                             !.conn["server"].isReading = FALSE]
  OBVIOUS
<1>2. /\ y \in RelayType /\ SameFlags(s, y) /\ y.pending = s.pending
      /\ Closed(s.conn["server"], y.conn["server"])
      /\ y.conn["client"] = s.conn["client"]
  <2>1. HasClosed(s, y, "server")
    BY <1>0, <1>1, CloseConn
  <2> QED BY <1>0, <2>1 DEF HasClosed
<1>3. PICK u : u = Disconnect(y)
  OBVIOUS
<1>4. PICK z : z = [u EXCEPT !.tunnels = FALSE]
  OBVIOUS
<1>5. PICK down : down = OnServerDown(y)
  OBVIOUS
<1>6. down = IF s.tunnels THEN z ELSE y
  BY <1>2, <1>3, <1>4, <1>5 DEF OnServerDown, Forget, SameFlags
<1>7. HandleClose(s, "server") = QueueInLoop(down, "connectionDestroyed", "server")
  BY <1>1, <1>5 DEF HandleClose
<1>8. /\ u \in RelayType /\ SameFlags(s, u) /\ u.pending = s.pending
      /\ u.conn["server"] = y.conn["server"]
      /\ IF s.connection_ THEN ShutConn(s.conn["client"], u.conn["client"])
         ELSE u.conn["client"] = s.conn["client"]
  <2>1. CASE s.connection_
    <3>1. u = Shutdown(y, "client")
      BY <2>1, <1>2, <1>3 DEF Disconnect, SameFlags
    <3>2. ShutDown(y, u, "client")
      BY <3>1, <1>0, <1>2, ShutdownEffect
    <3> QED BY <2>1, <3>2, <1>0, <1>2 DEF ShutDown, SameFlags
  <2>2. CASE ~s.connection_
    <3>1. u = y
      BY <2>2, <1>2, <1>3 DEF Disconnect, SameFlags
    <3> QED BY <2>2, <3>1, <1>2
  <2> QED BY <2>1, <2>2
<1>9. /\ down \in RelayType /\ down.pending = s.pending
      /\ down.conn["server"] = y.conn["server"]
      /\ IF s.tunnels /\ s.connection_ THEN ShutConn(s.conn["client"], down.conn["client"])
         ELSE down.conn["client"] = s.conn["client"]
      /\ down.context_ = s.context_ /\ down.clientConn_ = s.clientConn_
      /\ down.connection_ = s.connection_ /\ down.callbacks = s.callbacks
      /\ down.tunnels = FALSE /\ down.freed = s.freed /\ down.fault = s.fault
  <2>1. CASE s.tunnels
    <3>1. /\ z \in RelayType /\ z.conn = u.conn /\ z.pending = u.pending
          /\ z.context_ = u.context_ /\ z.clientConn_ = u.clientConn_
          /\ z.connection_ = u.connection_ /\ z.callbacks = u.callbacks
          /\ z.tunnels = FALSE /\ z.freed = u.freed /\ z.fault = u.fault
      BY <1>4, <1>8 DEF RelayType
    <3> QED BY <2>1, <3>1, <1>6, <1>8 DEF SameFlags
  <2>2. CASE ~s.tunnels
    <3>1. s.tunnels = FALSE
      BY <2>2 DEF RelayType
    <3> QED BY <2>2, <3>1, <1>2, <1>6 DEF SameFlags
  <2> QED BY <2>1, <2>2
<1>10. PICK t : t = QueueInLoop(down, "connectionDestroyed", "server")
  OBVIOUS
<1>11. /\ t \in RelayType /\ SameFlags(down, t) /\ t.conn = down.conn
       /\ t.pending = Append(down.pending, Functor("connectionDestroyed", "server"))
  BY <1>0, <1>9, <1>10, QueueEffect DEF Enqueued
<1>12. ServerClosed(s, t)
  BY <1>2, <1>9, <1>11 DEF ServerClosed, SameFlags
<1> QED BY <1>7, <1>10, <1>12

\* What handleClose() of clientConn_ does.
ClientClosed(s, t) ==
  /\ t \in RelayType
  /\ Closed(s.conn["client"], t.conn["client"])
  /\ ShutConn(s.conn["server"], t.conn["server"])
  /\ t.context_ = FALSE /\ t.clientConn_ = FALSE /\ t.connection_ = FALSE
  /\ t.callbacks = FALSE /\ t.tunnels = s.tunnels /\ t.freed = s.freed
  /\ t.fault = s.fault
  /\ t.pending = Append(s.pending, Functor("connectionDestroyed", "client"))

\* handleClose() of clientConn_, with teardown().
LEMMA ClientCloseEffect ==
  ASSUME NEW s \in RelayType, Up(s.conn["client"])
  PROVE  ClientClosed(s, HandleClose(s, "client"))
<1>0. "server" \in Sides /\ "client" \in Sides /\ Other("server") = "client"
      /\ Other("client") = "server" /\ "client" # "server"
  BY DEF Sides, Other
<1>1. PICK y : y = [s EXCEPT !.conn["client"].state_ = "kDisconnected",
                             !.conn["client"].isReading = FALSE]
  OBVIOUS
<1>2. /\ y \in RelayType /\ SameFlags(s, y) /\ y.pending = s.pending
      /\ Closed(s.conn["client"], y.conn["client"])
      /\ y.conn["server"] = s.conn["server"]
  <2>1. HasClosed(s, y, "client")
    BY <1>0, <1>1, CloseConn
  <2> QED BY <1>0, <2>1 DEF HasClosed
<1>3. PICK u : u = [y EXCEPT !.callbacks = FALSE, !.context_ = FALSE]
  OBVIOUS
<1>4. /\ u \in RelayType /\ u.conn = y.conn /\ u.pending = y.pending
      /\ u.context_ = FALSE /\ u.clientConn_ = y.clientConn_
      /\ u.connection_ = y.connection_ /\ u.callbacks = FALSE
      /\ u.tunnels = y.tunnels /\ u.freed = y.freed /\ u.fault = y.fault
  BY <1>2, <1>3 DEF RelayType
<1>5. PICK v : v = Shutdown(u, "server")
  OBVIOUS
<1>6. ShutDown(u, v, "server")
  BY <1>0, <1>4, <1>5, ShutdownEffect
<1>7. PICK w : w = [v EXCEPT !.clientConn_ = FALSE]
  OBVIOUS
<1>8. OnClientConnection(y, 0) = w
  BY <1>2, <1>3, <1>5, <1>7 DEF OnClientConnection, Teardown, Closed
<1>9. PICK down : down = [w EXCEPT !.connection_ = FALSE]
  OBVIOUS
<1>10. HandleClose(s, "client") = QueueInLoop(down, "connectionDestroyed", "client")
  BY <1>0, <1>1, <1>8, <1>9 DEF HandleClose
<1>11. /\ v \in RelayType /\ v.pending = s.pending
       /\ v.conn["client"] = y.conn["client"]
       /\ ShutConn(s.conn["server"], v.conn["server"])
       /\ v.context_ = FALSE /\ v.callbacks = FALSE
       /\ v.tunnels = s.tunnels /\ v.freed = s.freed /\ v.fault = s.fault
  BY <1>0, <1>2, <1>4, <1>6 DEF ShutDown, SameFlags
<1>12. /\ w \in RelayType /\ w.conn = v.conn /\ w.pending = v.pending
       /\ w.context_ = v.context_ /\ w.clientConn_ = FALSE /\ w.callbacks = v.callbacks
       /\ w.tunnels = v.tunnels /\ w.freed = v.freed /\ w.fault = v.fault
  BY <1>7, <1>11 DEF RelayType
<1>13. /\ down \in RelayType /\ down.conn = w.conn /\ down.pending = w.pending
       /\ down.context_ = w.context_ /\ down.clientConn_ = w.clientConn_
       /\ down.connection_ = FALSE /\ down.callbacks = w.callbacks
       /\ down.tunnels = w.tunnels /\ down.freed = w.freed /\ down.fault = w.fault
  BY <1>9, <1>12 DEF RelayType
<1>14. PICK t : t = QueueInLoop(down, "connectionDestroyed", "client")
  OBVIOUS
<1>15. /\ t \in RelayType /\ SameFlags(down, t) /\ t.conn = down.conn
       /\ t.pending = Append(down.pending, Functor("connectionDestroyed", "client"))
  BY <1>0, <1>13, <1>14, QueueEffect DEF Enqueued
<1>16. ClientClosed(s, t)
  BY <1>2, <1>11, <1>12, <1>13, <1>15 DEF ClientClosed, SameFlags
<1> QED BY <1>10, <1>14, <1>16

\* The connection to the backend is new: onClientConnection() before it sends.
Opened(s, y) ==
  LET c == s.conn["server"]
      d == y.conn["server"]
  IN  /\ y \in RelayType
      /\ y.conn["client"] = [NewConn("kConnected", TRUE) EXCEPT
                               !.highWaterMarkCallback_ = TRUE]
      /\ SameStreams(c, d) /\ d.state_ = c.state_ /\ d.isReading = TRUE /\ d.fin = c.fin
      /\ d.destroyed = c.destroyed
      /\ d.highWaterMarkCallback_ = c.highWaterMarkCallback_
      /\ d.writeCompleteCallback_ = c.writeCompleteCallback_
      /\ y.context_ = TRUE /\ y.clientConn_ = TRUE /\ y.connection_ = TRUE
      /\ y.callbacks = s.callbacks /\ y.tunnels = s.tunnels /\ y.freed = s.freed
      /\ y.fault = s.fault /\ y.pending = s.pending

\* What newConnection() does.
Connected(s, t) == \E y : Opened(s, y) /\ Forwarded(y, t, "client")

\* Sending an empty inputBuffer_ changes nothing.
LEMMA NothingForwarded ==
  ASSUME NEW y \in RelayType, NEW x \in Sides, y.conn[Other(x)].inputBuffer_ = <<>>
  PROVE  Forwarded(y, y, x)
<1>1. PICK c \in ConnType, o \in ConnType : c = y.conn[x] /\ o = y.conn[Other(x)]
  BY RelayFields, Others
<1>2. c.outputBuffer_ \in Seq(Units) /\ c.written \in Seq(Units)
  BY DEF ConnType
<1>3. PICK l : l = Len(c.outputBuffer_)
  OBVIOUS
<1>4. l \in Nat /\ Len(<<>>) = 0 /\ l <= l + 0
  BY <1>2, <1>3, JoinEmpty, EmptyLen
<1>5. ~Crosses(l, l)
  BY <1>4, TunnelAssumption DEF Crosses
<1>6. (c.written \o c.outputBuffer_) \o <<>> = c.written \o c.outputBuffer_
  BY <1>2, JoinLen, JoinEmpty
<1>7. SameControl(c, c) /\ SameControl(o, o) /\ SameFlags(y, y)
  BY DEF SameControl, SameFlags
<1>8. Notified(y, y, x, l, l)
  BY <1>5 DEF Notified
<1>9. Given(y, y, x, <<>>)
  BY <1>1, <1>3, <1>4, <1>6, <1>7, <1>8 DEF Given
<1> QED BY <1>1, <1>7, <1>9 DEF Forwarded

\* newConnection() opens clientConn_ and sends what has come before.
LEMMA NewConnectionEffect ==
  ASSUME NEW s \in RelayType, NEW n \in Nat
  PROVE  Connected(s, OnClientConnection(
                        [s EXCEPT !.conn["client"] = NewConn("kConnected", TRUE),
                                  !.connection_ = TRUE], n))
<1>0. "server" \in Sides /\ "client" \in Sides /\ Other("server") = "client"
      /\ Other("client") = "server" /\ "client" # "server"
  BY DEF Sides, Other
<1>1. PICK new \in ConnType : new = NewConn("kConnected", TRUE)
  BY NewConnType DEF States
<1>2. PICK a, r : /\ a = [s EXCEPT !.conn["client"] = NewConn("kConnected", TRUE)]
                  /\ r = [a EXCEPT !.connection_ = TRUE]
  OBVIOUS
<1>3. r = [s EXCEPT !.conn["client"] = NewConn("kConnected", TRUE), !.connection_ = TRUE]
  BY <1>2 DEF RelayType
<1>4. WithConn(s, a, "client", new)
  BY <1>0, <1>1, <1>2, SetConn
<1>5. /\ r \in RelayType /\ r.pending = s.pending
      /\ r.conn["client"] = new /\ r.conn["server"] = s.conn["server"]
      /\ r.context_ = s.context_ /\ r.clientConn_ = s.clientConn_
      /\ r.connection_ = TRUE /\ r.callbacks = s.callbacks
      /\ r.tunnels = s.tunnels /\ r.freed = s.freed /\ r.fault = s.fault
  <2>1. /\ a \in RelayType /\ SameFlags(s, a) /\ a.pending = s.pending
        /\ a.conn["client"] = new /\ a.conn["server"] = s.conn["server"]
    BY <1>0, <1>4 DEF WithConn
  <2>2. /\ r \in RelayType /\ r.pending = a.pending /\ r.conn = a.conn
        /\ r.context_ = a.context_ /\ r.clientConn_ = a.clientConn_
        /\ r.connection_ = TRUE /\ r.callbacks = a.callbacks
        /\ r.tunnels = a.tunnels /\ r.freed = a.freed /\ r.fault = a.fault
    BY <1>2, <2>1 DEF RelayType
  <2> QED BY <2>1, <2>2 DEF SameFlags
<1>6. PICK c \in ConnType : c = s.conn["server"]
  BY <1>0, RelayFields
<1>7. PICK d, e : /\ d = [c EXCEPT !.isReading = TRUE]
                  /\ e = [new EXCEPT !.highWaterMarkCallback_ = TRUE]
  OBVIOUS
<1>8. d \in ConnType /\ e \in ConnType
  BY <1>7 DEF ConnType
<1>9. PICK u, v, y : /\ u = [r EXCEPT !.conn["server"] = d]
                     /\ v = [u EXCEPT !.conn["client"] = e]
                     /\ y = [v EXCEPT !.context_ = TRUE, !.clientConn_ = TRUE]
  OBVIOUS
<1>10. WithConn(r, u, "server", d)
  BY <1>0, <1>5, <1>8, <1>9, SetConn
<1>11. /\ u \in RelayType /\ SameFlags(r, u) /\ u.pending = r.pending
       /\ u.conn["server"] = d /\ u.conn["client"] = new
  BY <1>0, <1>5, <1>10 DEF WithConn
<1>12. WithConn(u, v, "client", e)
  BY <1>0, <1>8, <1>9, <1>11, SetConn
<1>13. /\ v \in RelayType /\ SameFlags(u, v) /\ v.pending = u.pending
       /\ v.conn["server"] = d /\ v.conn["client"] = e
  BY <1>0, <1>11, <1>12 DEF WithConn
<1>14. /\ y \in RelayType /\ y.conn = v.conn /\ y.pending = v.pending
       /\ y.context_ = TRUE /\ y.clientConn_ = TRUE /\ y.connection_ = v.connection_
       /\ y.callbacks = v.callbacks /\ y.tunnels = v.tunnels
       /\ y.freed = v.freed /\ y.fault = v.fault
  <2>1. v \in RelayType /\ y = [v EXCEPT !.context_ = TRUE, !.clientConn_ = TRUE]
    BY <1>9, <1>13
  <2> QED BY <2>1 DEF RelayType
<1>15. /\ SameStreams(c, d) /\ d.state_ = c.state_ /\ d.isReading = TRUE /\ d.fin = c.fin
       /\ d.destroyed = c.destroyed
       /\ d.highWaterMarkCallback_ = c.highWaterMarkCallback_
       /\ d.writeCompleteCallback_ = c.writeCompleteCallback_
  BY <1>7 DEF ConnType, SameStreams
<1>16. Opened(s, y)
  <2>1. y.conn["client"] = [NewConn("kConnected", TRUE) EXCEPT !.highWaterMarkCallback_ = TRUE]
    BY <1>1, <1>7, <1>13, <1>14, Zenon
  <2>2. y.conn["server"] = d
    BY <1>13, <1>14, Zenon
  <2>3. /\ y.connection_ = TRUE /\ y.callbacks = s.callbacks /\ y.tunnels = s.tunnels
        /\ y.freed = s.freed /\ y.fault = s.fault /\ y.pending = s.pending
    BY <1>5, <1>11, <1>13, <1>14, Zenon DEF SameFlags
  <2> QED BY <2>1, <2>2, <2>3, <1>6, <1>14, <1>15, Zenon DEF Opened
<1>17. u = StartRead(r, "server")
  BY <1>5, <1>6, <1>7, <1>9 DEF StartRead, RelayType
<1>18. v = [u EXCEPT !.conn["client"].highWaterMarkCallback_ = TRUE]
  BY <1>0, <1>7, <1>9, <1>11 DEF RelayType
<1>19. y = [StartRead(r, "server") EXCEPT !.conn["client"].highWaterMarkCallback_ = TRUE,
                                          !.context_ = TRUE, !.clientConn_ = TRUE]
  BY <1>9, <1>17, <1>18
<1>20. r.conn["client"].state_ = "kConnected" /\ r.conn["server"] = c
  BY <1>1, <1>5, <1>6 DEF NewConn
<1>21. OnClientConnection(r, n) = IF c.inputBuffer_ = <<>> THEN y ELSE SendBuffer(y, "client", n)
  BY <1>19, <1>20 DEF OnClientConnection
<1>22. y.conn["client"].state_ = "kConnected" /\ y.conn["server"].inputBuffer_ = c.inputBuffer_
  <2>1. e.state_ = "kConnected"
    BY <1>1, <1>7 DEF NewConn
  <2>2. y.conn["client"] = e /\ y.conn["server"] = d
    BY <1>13, <1>14, Zenon
  <2> QED BY <2>1, <2>2, <1>15 DEF SameStreams
<1>23. CASE c.inputBuffer_ = <<>>
  <2>1. Forwarded(y, y, "client")
    BY <1>0, <1>14, <1>22, <1>23, NothingForwarded
  <2> QED BY <2>1, <1>3, <1>16, <1>21, <1>23 DEF Connected
<1>24. CASE c.inputBuffer_ # <<>>
  <2>1. Forwarded(y, SendBuffer(y, "client", n), "client")
    BY <1>0, <1>14, <1>22, SendBufferEffect
  <2> QED BY <2>1, <1>3, <1>16, <1>21, <1>24 DEF Connected
<1> QED BY <1>23, <1>24
------------------------------------------------------------------------------
(* Reading, writing and the functors.                                       *)

\* Data has been read into a connection's inputBuffer_.
Received(s, y, x, data) ==
  LET c == s.conn[x]
      d == y.conn[x]
  IN  /\ y \in RelayType /\ SameFlags(s, y) /\ y.pending = s.pending
      /\ y.conn[Other(x)] = s.conn[Other(x)]
      /\ SameControl(c, d) /\ d.inputBuffer_ = c.inputBuffer_ \o data
      /\ d.outputBuffer_ = c.outputBuffer_ /\ d.written = c.written

\* handleRead() up to its callback.
LEMMA ReceiveEffect ==
  ASSUME NEW s \in RelayType, NEW x \in Sides, NEW data \in Seq(Units)
  PROVE  Received(s, [s EXCEPT !.conn[x].inputBuffer_ = @ \o data], x, data)
<1>1. PICK c \in ConnType : c = s.conn[x]
  BY RelayFields
<1>2. PICK d : d = [c EXCEPT !.inputBuffer_ = @ \o data]
  OBVIOUS
<1>3. c.inputBuffer_ \o data \in Seq(Units)
  BY JoinLen DEF ConnType
<1>4. /\ d \in ConnType /\ SameControl(c, d) /\ d.inputBuffer_ = c.inputBuffer_ \o data
      /\ d.outputBuffer_ = c.outputBuffer_ /\ d.written = c.written
  BY <1>2, <1>3 DEF ConnType, SameControl
<1>5. PICK y : y = [s EXCEPT !.conn[x] = d]
  OBVIOUS
<1>6. y = [s EXCEPT !.conn[x].inputBuffer_ = @ \o data]
  BY <1>1, <1>2, <1>5 DEF RelayType
<1>7. WithConn(s, y, x, d)
  BY <1>4, <1>5, SetConn
<1>8. Received(s, y, x, data)
  BY <1>1, <1>4, <1>7 DEF WithConn, Received
<1> QED BY <1>6, <1>8

\* What handleWrite() does when the kernel takes k units.
Wrote(s, t, x, k) ==
  LET c == s.conn[x]
      d == t.conn[x]
  IN  /\ t \in RelayType /\ SameFlags(s, t)
      /\ t.conn[Other(x)] = s.conn[Other(x)]
      /\ d.inputBuffer_ = c.inputBuffer_
      /\ d.written \o d.outputBuffer_ = c.written \o c.outputBuffer_
      /\ Len(d.outputBuffer_) = Len(c.outputBuffer_) - k
      /\ d.state_ = c.state_ /\ d.isReading = c.isReading /\ d.destroyed = c.destroyed
      /\ d.highWaterMarkCallback_ = c.highWaterMarkCallback_
      /\ d.writeCompleteCallback_ = c.writeCompleteCallback_
      /\ d.fin <=> c.fin \/ (k = Len(c.outputBuffer_) /\ c.state_ = "kDisconnecting")
      /\ t.pending = IF k = Len(c.outputBuffer_) /\ c.writeCompleteCallback_
                       THEN Append(s.pending, Functor("onWriteComplete", x))
                       ELSE s.pending

\* The relay after handleWrite().
Written(s, x, k) ==
  LET c == s.conn[x]
      y == [s EXCEPT !.conn[x].written = @ \o SubSeq(c.outputBuffer_, 1, k),
                     !.conn[x].outputBuffer_ = SubSeq(@, k + 1, Len(@))]
      z == IF c.writeCompleteCallback_ THEN QueueInLoop(y, "onWriteComplete", x) ELSE y
  IN  IF k < Len(c.outputBuffer_) THEN y
      ELSE IF c.state_ = "kDisconnecting" THEN ShutdownInLoop(z, x)
      ELSE z

\* handleWrite() moves what was taken from outputBuffer_ to the stream.
LEMMA WriteEffect ==
  ASSUME NEW s \in RelayType, NEW x \in Sides, NEW k \in 1..Len(s.conn[x].outputBuffer_)
  PROVE  Wrote(s, Written(s, x, k), x, k)
<1>1. PICK c \in ConnType : c = s.conn[x]
  BY RelayFields
<1>2. PICK out, len : out = c.outputBuffer_ /\ len = Len(out)
  OBVIOUS
<1>3. out \in Seq(Units) /\ c.written \in Seq(Units) /\ len \in Nat /\ k \in 0..len /\ k <= len
  BY <1>1, <1>2, EmptyLen DEF ConnType
<1>4. PICK first, rest : first = SubSeq(out, 1, k) /\ rest = SubSeq(out, k + 1, Len(out))
  OBVIOUS
<1>5. IsParted(out, k, first, rest)
  BY <1>2, <1>3, <1>4, Parts
<1>6. /\ first \in Seq(Units) /\ rest \in Seq(Units) /\ Len(rest) = len - k
      /\ first \o rest = out
  BY <1>2, <1>5 DEF IsParted
<1>7. PICK d : d = [c EXCEPT !.written = @ \o first, !.outputBuffer_ = rest]
  OBVIOUS
<1>8. c.written \o first \in Seq(Units)
  BY <1>3, <1>6, JoinLen
<1>9. /\ d \in ConnType /\ SameControl(c, d) /\ d.inputBuffer_ = c.inputBuffer_
      /\ d.written = c.written \o first /\ d.outputBuffer_ = rest
  BY <1>6, <1>7, <1>8 DEF ConnType, SameControl
<1>10. d.written \o d.outputBuffer_ = c.written \o out
  <2>1. Assoc(c.written, first, rest)
    BY <1>3, <1>6, Joins
  <2> QED BY <2>1, <1>6, <1>9 DEF Assoc
<1>11. PICK y : y = [s EXCEPT !.conn[x] = d]
  OBVIOUS
<1>12. y = [s EXCEPT !.conn[x].written = @ \o SubSeq(c.outputBuffer_, 1, k),
                     !.conn[x].outputBuffer_ = SubSeq(@, k + 1, Len(@))]
  BY <1>1, <1>2, <1>4, <1>7, <1>11 DEF RelayType
<1>13. WithConn(s, y, x, d)
  BY <1>9, <1>11, SetConn
<1>14. /\ y \in RelayType /\ SameFlags(s, y) /\ y.pending = s.pending
       /\ y.conn[x] = d /\ y.conn[Other(x)] = s.conn[Other(x)]
  BY <1>13 DEF WithConn
<1>15. PICK z : z = IF c.writeCompleteCallback_ THEN QueueInLoop(y, "onWriteComplete", x)
                    ELSE y
  OBVIOUS
<1>16. /\ z \in RelayType /\ SameFlags(s, z) /\ z.conn[x] = d
       /\ z.conn[Other(x)] = s.conn[Other(x)]
       /\ z.pending = IF c.writeCompleteCallback_
                        THEN Append(s.pending, Functor("onWriteComplete", x)) ELSE s.pending
  <2>1. CASE c.writeCompleteCallback_
    <3>1. Enqueued(y, z, "onWriteComplete", x)
      BY <2>1, <1>14, <1>15, QueueEffect
    <3> QED BY <2>1, <3>1, <1>14 DEF Enqueued, SameFlags
  <2>2. CASE ~c.writeCompleteCallback_
    BY <2>2, <1>14, <1>15
  <2> QED BY <2>1, <2>2
<1>17. PICK e : e = [d EXCEPT !.fin = TRUE]
  OBVIOUS
<1>18. /\ e \in ConnType /\ e.inputBuffer_ = d.inputBuffer_ /\ e.written = d.written
       /\ e.outputBuffer_ = d.outputBuffer_ /\ e.state_ = d.state_
       /\ e.isReading = d.isReading /\ e.destroyed = d.destroyed /\ e.fin
       /\ e.highWaterMarkCallback_ = d.highWaterMarkCallback_
       /\ e.writeCompleteCallback_ = d.writeCompleteCallback_
  BY <1>9, <1>17 DEF ConnType
<1>19. PICK f : f = [z EXCEPT !.conn[x] = e]
  OBVIOUS
<1>20. WithConn(z, f, x, e)
  BY <1>16, <1>18, <1>19, SetConn
<1>21. f = [z EXCEPT !.conn[x].fin = TRUE]
  BY <1>16, <1>17, <1>19 DEF RelayType
<1>22. Written(s, x, k) = IF k < len THEN y
                          ELSE IF c.state_ = "kDisconnecting" THEN ShutdownInLoop(z, x)
                          ELSE z
  BY <1>1, <1>2, <1>12, <1>15 DEF Written
<1>23. PICK t : t = Written(s, x, k)
  OBVIOUS
<1>24. CASE k < len
  <2>1. t = y /\ k # len
    BY <1>3, <1>22, <1>23, <1>24
  <2> QED BY <2>1, <1>1, <1>2, <1>6, <1>9, <1>10, <1>14, <1>23 DEF Wrote, SameControl
<1>25. CASE ~(k < len)
  <2>0. k = len /\ rest = <<>>
    <3>1. k = len
      BY <1>3, <1>25
    <3>2. Len(rest) = 0
      BY <3>1, <1>3, <1>6
    <3> QED BY <3>1, <3>2, <1>6, EmptyLen
  <2>1. CASE c.state_ # "kDisconnecting"
    <3>1. t = z
      BY <2>1, <1>22, <1>23, <1>25
    <3> QED BY <2>0, <2>1, <3>1, <1>1, <1>2, <1>6, <1>9, <1>10, <1>16, <1>23
            DEF Wrote, SameControl
  <2>2. CASE c.state_ = "kDisconnecting"
    <3>1. ~IsWriting(d)
      BY <2>0, <1>9 DEF IsWriting
    <3>2. t = f
      BY <2>2, <3>1, <1>16, <1>21, <1>22, <1>23, <1>25 DEF ShutdownInLoop
    <3>3. /\ f \in RelayType /\ SameFlags(s, f) /\ f.pending = z.pending
          /\ f.conn[x] = e /\ f.conn[Other(x)] = s.conn[Other(x)]
      BY <1>16, <1>20 DEF WithConn, SameFlags
    <3>4. /\ e.state_ = c.state_ /\ e.isReading = c.isReading
          /\ e.destroyed = c.destroyed /\ e.inputBuffer_ = c.inputBuffer_
          /\ e.highWaterMarkCallback_ = c.highWaterMarkCallback_
          /\ e.writeCompleteCallback_ = c.writeCompleteCallback_ /\ e.fin
          /\ e.written \o e.outputBuffer_ = c.written \o c.outputBuffer_
          /\ Len(e.outputBuffer_) = Len(c.outputBuffer_) - k
      BY <1>2, <1>6, <1>9, <1>10, <1>18 DEF SameControl
    <3> QED BY <2>0, <2>2, <3>2, <3>3, <3>4, <1>1, <1>2, <1>16, <1>23 DEF Wrote
  <2> QED BY <2>1, <2>2
<1> QED BY <1>24, <1>25
------------------------------------------------------------------------------
(* A SOCKS request.                                                         *)

\* A set of naturals that is not empty has a least element.
LEMMA LeastNat ==
  ASSUME NEW T, T \subseteq Nat, T # {}
  PROVE  Min(T) \in T /\ \A x \in T : Min(T) <= x
<1>1. PICK m \in T : \A y \in T : <<y, m>> \notin OpToRel(<, Nat)
  BY NatLessThanWellFounded, WFMin
<1>2. ASSUME NEW x \in T PROVE m <= x
  <2>1. ~(x < m)
    <3>1. SUFFICES ASSUME x < m PROVE <<x, m>> \in OpToRel(<, Nat)
      BY <1>1
    <3>2. <<x, m>> \in {ss \in Nat \X Nat : ss[1] < ss[2]}
      BY <3>1
    <3> QED BY <3>2, Zenon DEF OpToRel
  <2> QED BY <2>1
<1> QED BY <1>2, Zenon DEF Min

\* p is where the first NUL after a place is, or 0.
IsNul(buf, place, p) ==
  \/ p = 0 /\ \A i \in (place + 1)..Len(buf) : buf[i] # "0"
  \/ /\ p \in (place + 1)..Len(buf) /\ buf[p] = "0"
     /\ \A i \in (place + 1)..(p - 1) : buf[i] # "0"

\* std::find() returns the first NUL after a place.
LEMMA NulProps ==
  ASSUME NEW buf \in Seq(Units), NEW place \in Nat
  PROVE  IsNul(buf, place, Nul(buf, place))
<1>1. PICK at : at = {i \in (place + 1)..Len(buf) : buf[i] = "0"}
  OBVIOUS
<1>2. Nul(buf, place) = IF at = {} THEN 0 ELSE Min(at)
  BY <1>1 DEF Nul
<1>3. at \subseteq Nat
  BY <1>1
<1>4. CASE at = {}
  BY <1>1, <1>2, <1>4 DEF IsNul
<1>5. CASE at # {}
  <2>1. Min(at) \in at /\ \A x \in at : Min(at) <= x
    BY <1>3, <1>5, LeastNat
  <2>2. PICK p : p = Min(at)
    OBVIOUS
  <2>3. p \in (place + 1)..Len(buf) /\ buf[p] = "0"
    BY <1>1, <2>1, <2>2
  <2>4. ASSUME NEW i \in (place + 1)..(p - 1) PROVE buf[i] # "0"
    <3>1. i \notin at
      BY <2>1, <2>2, <2>3
    <3> QED BY <3>1, <1>1, <2>3
  <2> QED BY <2>2, <2>3, <2>4, <1>2, <1>5 DEF IsNul
<1> QED BY <1>4, <1>5

\* A request ends within the buffer.
LEMMA RequestEndType ==
  ASSUME NEW buf \in Seq(Units)
  PROVE  RequestEnd(buf) \in 0..Len(buf)
<1>0. kFixed \in Nat
  BY TunnelAssumption
<1>1. PICK where : where = Nul(buf, kFixed)
  OBVIOUS
<1>2. where \in 0..Len(buf)
  BY <1>0, <1>1, NulProps DEF IsNul
<1>3. Nul(buf, where) \in 0..Len(buf)
  <2>1. where \in Nat
    BY <1>2
  <2>2. IsNul(buf, where, Nul(buf, where))
    BY <2>1, NulProps
  <2> QED BY <2>1, <2>2 DEF IsNul
<1> QED BY <1>1, <1>2, <1>3 DEF RequestEnd

\* The tunnel is made, and the request taken from the buffer.
SetUp(s, y, end) ==
  LET c == s.conn["server"]
      d == y.conn["server"]
  IN  /\ y \in RelayType /\ y.conn["client"] = s.conn["client"]
      /\ d.inputBuffer_ = SubSeq(c.inputBuffer_, end + 1, Len(c.inputBuffer_))
      /\ d.outputBuffer_ = c.outputBuffer_ /\ d.written = c.written
      /\ d.state_ = c.state_ /\ d.isReading = c.isReading /\ d.fin = c.fin
      /\ d.destroyed = c.destroyed /\ d.highWaterMarkCallback_ = TRUE
      /\ d.writeCompleteCallback_ = c.writeCompleteCallback_
      /\ y.context_ = s.context_ /\ y.clientConn_ = s.clientConn_
      /\ y.connection_ = s.connection_ /\ y.callbacks = TRUE /\ y.tunnels = TRUE
      /\ y.freed = s.freed /\ y.fault = s.fault /\ y.pending = s.pending

SetupOf(s, buf, end) ==
  [Setup(s) EXCEPT !.conn["server"].inputBuffer_ = SubSeq(buf, end + 1, Len(buf))]

\* setup(), and the request taken from the buffer.
LEMMA SetupEffect ==
  ASSUME NEW s \in RelayType, NEW end \in 0..Len(s.conn["server"].inputBuffer_)
  PROVE  SetUp(s, SetupOf(s, s.conn["server"].inputBuffer_, end), end)
<1>0. "server" \in Sides /\ Other("server") = "client"
  BY DEF Sides, Other
<1>1. PICK c \in ConnType : c = s.conn["server"]
  BY <1>0, RelayFields
<1>2. PICK buf, rest : buf = c.inputBuffer_ /\ rest = SubSeq(buf, end + 1, Len(buf))
  OBVIOUS
<1>3. buf \in Seq(Units)
  BY <1>2 DEF ConnType
<1>4. IsParted(buf, end, SubSeq(buf, 1, end), rest)
  BY <1>1, <1>2, <1>3, Parts
<1>5. rest \in Seq(Units)
  BY <1>4 DEF IsParted
<1>6. PICK d, e : /\ d = [c EXCEPT !.highWaterMarkCallback_ = TRUE]
                  /\ e = [d EXCEPT !.inputBuffer_ = rest]
  OBVIOUS
<1>7. /\ d \in ConnType /\ e \in ConnType
      /\ e.inputBuffer_ = rest
      /\ e.outputBuffer_ = c.outputBuffer_ /\ e.written = c.written
      /\ e.state_ = c.state_ /\ e.isReading = c.isReading /\ e.fin = c.fin
      /\ e.destroyed = c.destroyed /\ e.highWaterMarkCallback_ = TRUE
      /\ e.writeCompleteCallback_ = c.writeCompleteCallback_
  BY <1>5, <1>6 DEF ConnType
<1>8. PICK a, b, y : /\ a = [s EXCEPT !.conn["server"] = d]
                     /\ b = [a EXCEPT !.callbacks = TRUE, !.tunnels = TRUE]
                     /\ y = [b EXCEPT !.conn["server"] = e]
  OBVIOUS
<1>9. WithConn(s, a, "server", d)
  BY <1>0, <1>7, <1>8, SetConn
<1>10. /\ a \in RelayType /\ SameFlags(s, a) /\ a.pending = s.pending
       /\ a.conn["server"] = d /\ a.conn["client"] = s.conn["client"]
  BY <1>0, <1>9 DEF WithConn
<1>11. /\ b \in RelayType /\ b.conn = a.conn /\ b.pending = a.pending
       /\ b.context_ = a.context_ /\ b.clientConn_ = a.clientConn_
       /\ b.connection_ = a.connection_ /\ b.callbacks = TRUE /\ b.tunnels = TRUE
       /\ b.freed = a.freed /\ b.fault = a.fault
  <2>1. a \in RelayType /\ b = [a EXCEPT !.callbacks = TRUE, !.tunnels = TRUE]
    BY <1>8, <1>10
  <2> QED BY <2>1 DEF RelayType
<1>12. WithConn(b, y, "server", e)
  BY <1>0, <1>7, <1>8, <1>11, SetConn
<1>13. /\ y \in RelayType /\ SameFlags(b, y) /\ y.pending = b.pending
       /\ y.conn["server"] = e /\ y.conn["client"] = b.conn["client"]
  BY <1>0, <1>12 DEF WithConn
<1>14. a = [s EXCEPT !.conn["server"].highWaterMarkCallback_ = TRUE]
  BY <1>1, <1>6, <1>8 DEF RelayType
<1>15. b = Setup(s)
  BY <1>8, <1>14 DEF Setup
<1>16. y = SetupOf(s, buf, end)
  <2>1. b \in RelayType /\ b.conn["server"] = d /\ y = [b EXCEPT !.conn["server"] = e]
    BY <1>8, <1>10, <1>11
  <2>2. y = [b EXCEPT !.conn["server"].inputBuffer_ = rest]
    BY <2>1, <1>6 DEF RelayType
  <2> QED BY <2>2, <1>2, <1>15, Zenon DEF SetupOf
<1>17. SetUp(s, y, end)
  BY <1>1, <1>2, <1>7, <1>10, <1>11, <1>13 DEF SetUp, SameFlags
<1> QED BY <1>1, <1>2, <1>16, <1>17

\* A whole request of an acceptable length.
Whole(buf) == Len(buf) <= kMaxRequest /\ Len(buf) > kFixed /\ RequestEnd(buf) # 0

\* The request is granted: the tunnel is made and the answer sent.
Granted(s, t) ==
  \E y : /\ SetUp(s, y, RequestEnd(s.conn["server"].inputBuffer_))
         /\ IF s.conn["server"].state_ = "kConnected" THEN Sent(y, t, "server", <<"r">>)
            ELSE t = y

\* What onServerMessage() does before there is a tunnel.
Requested(s, t) ==
  LET c == s.conn["server"]
      buf == c.inputBuffer_
  IN  \/ t = s
      \/ Len(buf) > kMaxRequest /\ ShutDown(s, t, "server")
      \/ /\ Whole(buf) /\ buf[1] \notin {"v4", "v4a"}
         /\ \E u : /\ IF c.state_ = "kConnected" THEN Sent(s, u, "server", <<"x">>)
                      ELSE u = s
                   /\ ShutDown(u, t, "server")
      \/ /\ Whole(buf) /\ buf[1] \in {"v4", "v4a"}
         /\ Granted(s, t)

\* Everything onServerMessage() of socks4a can do before there is a tunnel.
LEMMA RequestEffect ==
  ASSUME NEW s \in RelayType, NEW n \in Nat
  PROVE  Requested(s, OnRequest(s, s.conn["server"].inputBuffer_, n))
<1>0. "server" \in Sides
  BY DEF Sides
<1>1. PICK c \in ConnType, buf \in Seq(Units) : c = s.conn["server"] /\ buf = c.inputBuffer_
  BY <1>0, RelayFields DEF ConnType
<1>2. PICK end : end = RequestEnd(buf)
  OBVIOUS
<1>3. end \in 0..Len(buf) /\ Len(buf) \in Nat /\ kMaxRequest \in Nat /\ kFixed \in Nat
  BY <1>2, RequestEndType, EmptyLen, TunnelAssumption
<1>4. PICK t : t = OnRequest(s, buf, n)
  OBVIOUS
<1>5. t = IF Len(buf) > kMaxRequest THEN Shutdown(s, "server")
          ELSE IF Len(buf) <= kFixed \/ end = 0 THEN s
          ELSE IF buf[1] \in {"v4", "v4a"}
            THEN Send(SetupOf(s, buf, end), "server", <<"r">>, n)
          ELSE Shutdown(Send(s, "server", <<"x">>, n), "server")
  BY <1>2, <1>4 DEF OnRequest, SetupOf
<1>6. CASE Len(buf) > kMaxRequest
  <2>1. ShutDown(s, t, "server")
    BY <1>0, <1>5, <1>6, ShutdownEffect
  <2> QED BY <2>1, <1>1, <1>4, <1>6 DEF Requested
<1>7. CASE ~(Len(buf) > kMaxRequest) /\ (Len(buf) <= kFixed \/ end = 0)
  <2>1. t = s
    BY <1>5, <1>7
  <2> QED BY <2>1, <1>1, <1>4 DEF Requested
<1>8. CASE ~(Len(buf) > kMaxRequest) /\ ~(Len(buf) <= kFixed \/ end = 0)
  <2>0. Whole(buf)
    BY <1>2, <1>3, <1>8 DEF Whole
  <2>1. CASE buf[1] \in {"v4", "v4a"}
    <3>1. PICK y : y = SetupOf(s, buf, end)
      OBVIOUS
    <3>2. SetUp(s, y, end)
      BY <3>1, <1>1, <1>3, SetupEffect
    <3>3. t = Send(y, "server", <<"r">>, n)
      BY <2>1, <3>1, <1>5, <1>8
    <3>4. y \in RelayType /\ y.conn["server"].state_ = c.state_
      BY <3>2, <1>1 DEF SetUp
    <3>5. <<"r">> \in Seq(Units)
      BY DEF Units
    <3>6. IF c.state_ = "kConnected" THEN Sent(y, t, "server", <<"r">>) ELSE t = y
      <4>1. PICK r \in Seq(Units) : r = <<"r">>
        BY <3>5
      <4>2. IF y.conn["server"].state_ = "kConnected" THEN Sent(y, Send(y, "server", r, n), "server", r)
            ELSE Send(y, "server", r, n) = y
        BY <3>4, <1>0, SendEffect
      <4> QED BY <3>3, <3>4, <4>1, <4>2
    <3> QED BY <2>0, <2>1, <3>2, <3>6, <1>1, <1>2, <1>4 DEF Requested, Granted
  <2>2. CASE buf[1] \notin {"v4", "v4a"}
    <3>1. PICK u : u = Send(s, "server", <<"x">>, n)
      OBVIOUS
    <3>2. t = Shutdown(u, "server")
      BY <2>2, <3>1, <1>5, <1>8
    <3>3. <<"x">> \in Seq(Units)
      BY DEF Units
    <3>4. IF c.state_ = "kConnected" THEN Sent(s, u, "server", <<"x">>) ELSE u = s
      BY <3>1, <3>3, <1>0, <1>1, SendEffect
    <3>5. u \in RelayType
      BY <3>4 DEF Sent
    <3>6. ShutDown(u, t, "server")
      BY <3>2, <3>5, <1>0, ShutdownEffect
    <3> QED BY <2>0, <2>2, <3>4, <3>6, <1>1, <1>4 DEF Requested
  <2> QED BY <2>1, <2>2
<1> QED BY <1>6, <1>7, <1>8
------------------------------------------------------------------------------
(* The functors.                                                            *)

\* The tunnel has failed.
Faulted(s, t, what) ==
  /\ t \in RelayType /\ t.conn = s.conn /\ t.pending = s.pending
  /\ t.context_ = s.context_ /\ t.clientConn_ = s.clientConn_
  /\ t.connection_ = s.connection_ /\ t.callbacks = s.callbacks
  /\ t.tunnels = s.tunnels /\ t.freed = s.freed /\ t.fault = what

\* A fault stops everything else.
LEMMA FaultEffect ==
  ASSUME NEW s \in RelayType, s.fault = "none", NEW what \in {"assert", "null"}
  PROVE  Faulted(s, Fault(s, what), what)
BY DEF Faulted, Fault, RelayType

\* A connection's own part ends.
Destroyed(s, t, x) ==
  LET c == s.conn[x]
      d == t.conn[x]
  IN  /\ t \in RelayType /\ SameFlags(s, t) /\ t.pending = s.pending
      /\ t.conn[Other(x)] = s.conn[Other(x)]
      /\ SameStreams(c, d) /\ d.state_ = c.state_ /\ d.isReading = c.isReading
      /\ d.fin = c.fin /\ d.highWaterMarkCallback_ = c.highWaterMarkCallback_
      /\ d.writeCompleteCallback_ = c.writeCompleteCallback_

\* connectionDestroyed() fails its assert if the channel was made to read.
LEMMA DestroyedEffect ==
  ASSUME NEW s \in RelayType, NEW x \in Sides, s.fault = "none"
  PROVE  IF s.conn[x].isReading THEN Faulted(s, ConnectionDestroyed(s, x), "assert")
         ELSE Destroyed(s, ConnectionDestroyed(s, x), x)
<1>1. PICK c \in ConnType : c = s.conn[x]
  BY RelayFields
<1>2. CASE c.isReading
  BY <1>1, <1>2, FaultEffect DEF ConnectionDestroyed
<1>3. CASE ~c.isReading
  <2>1. PICK d : d = [c EXCEPT !.destroyed = TRUE]
    OBVIOUS
  <2>2. /\ d \in ConnType /\ SameStreams(c, d) /\ d.state_ = c.state_
        /\ d.isReading = c.isReading /\ d.fin = c.fin
        /\ d.highWaterMarkCallback_ = c.highWaterMarkCallback_
        /\ d.writeCompleteCallback_ = c.writeCompleteCallback_
    BY <2>1 DEF ConnType, SameStreams
  <2>3. PICK t : t = [s EXCEPT !.conn[x] = d]
    OBVIOUS
  <2>4. t = [s EXCEPT !.conn[x].destroyed = TRUE]
    BY <1>1, <2>1, <2>3 DEF RelayType
  <2>5. WithConn(s, t, x, d)
    BY <2>2, <2>3, SetConn
  <2>6. Destroyed(s, t, x)
    BY <1>1, <2>2, <2>5 DEF WithConn, Destroyed
  <2> QED BY <1>1, <1>3, <2>4, <2>6 DEF ConnectionDestroyed
<1> QED BY <1>2, <1>3

\* The other side of x is made to read or not to, and x to tell when all is
\* written in the second case.
Switched(s, t, x, reading) ==
  LET c == s.conn[x]
      d == t.conn[x]
      o == s.conn[Other(x)]
      p == t.conn[Other(x)]
  IN  /\ t \in RelayType /\ SameFlags(s, t) /\ t.pending = s.pending
      /\ SameStreams(c, d) /\ SameStreams(o, p)
      /\ d.state_ = c.state_ /\ d.isReading = c.isReading /\ d.fin = c.fin
      /\ d.destroyed = c.destroyed
      /\ d.highWaterMarkCallback_ = c.highWaterMarkCallback_
      /\ d.writeCompleteCallback_ = ~reading
      /\ p.state_ = o.state_ /\ p.isReading = reading /\ p.fin = o.fin
      /\ p.destroyed = o.destroyed
      /\ p.highWaterMarkCallback_ = o.highWaterMarkCallback_
      /\ p.writeCompleteCallback_ = o.writeCompleteCallback_

\* startRead() or stopRead() of one side, with the callback of the other one.
LEMMA SwitchEffect ==
  ASSUME NEW s \in RelayType, NEW x \in Sides, NEW reading \in BOOLEAN
  PROVE  Switched(s, [s EXCEPT !.conn[Other(x)].isReading = reading,
                               !.conn[x].writeCompleteCallback_ = ~reading], x, reading)
<1>0. Other(x) \in Sides /\ Other(x) # x /\ Other(Other(x)) = x
  BY Others
<1>1. PICK c \in ConnType, o \in ConnType, z \in Sides :
        c = s.conn[x] /\ z = Other(x) /\ o = s.conn[z]
  BY <1>0, RelayFields
<1>2. PICK d, p : /\ d = [c EXCEPT !.writeCompleteCallback_ = ~reading]
                  /\ p = [o EXCEPT !.isReading = reading]
  OBVIOUS
<1>3. /\ d \in ConnType /\ SameStreams(c, d)
      /\ d.state_ = c.state_ /\ d.isReading = c.isReading /\ d.fin = c.fin
      /\ d.destroyed = c.destroyed
      /\ d.highWaterMarkCallback_ = c.highWaterMarkCallback_
      /\ d.writeCompleteCallback_ = ~reading
  BY <1>2 DEF ConnType, SameStreams
<1>4. /\ p \in ConnType /\ SameStreams(o, p)
      /\ p.state_ = o.state_ /\ p.isReading = reading /\ p.fin = o.fin
      /\ p.destroyed = o.destroyed
      /\ p.highWaterMarkCallback_ = o.highWaterMarkCallback_
      /\ p.writeCompleteCallback_ = o.writeCompleteCallback_
  BY <1>2 DEF ConnType, SameStreams
<1>5. PICK u, t : u = [s EXCEPT !.conn[z] = p] /\ t = [u EXCEPT !.conn[x] = d]
  OBVIOUS
<1>6. WithConn(s, u, z, p)
  BY <1>1, <1>4, <1>5, SetConn
<1>7. /\ u \in RelayType /\ SameFlags(s, u) /\ u.pending = s.pending
      /\ u.conn[z] = p /\ u.conn[x] = c
  BY <1>0, <1>1, <1>6 DEF WithConn
<1>8. WithConn(u, t, x, d)
  BY <1>3, <1>5, <1>7, SetConn
<1>9. /\ t \in RelayType /\ SameFlags(s, t) /\ t.pending = s.pending
      /\ t.conn[z] = p /\ t.conn[x] = d
  BY <1>1, <1>7, <1>8 DEF WithConn, SameFlags
<1>10. u = [s EXCEPT !.conn[z].isReading = reading]
  BY <1>1, <1>2, <1>5 DEF RelayType
<1>11. t = [u EXCEPT !.conn[x].writeCompleteCallback_ = ~reading]
  BY <1>2, <1>5, <1>7 DEF RelayType
<1>12. t = [s EXCEPT !.conn[z].isReading = reading,
                     !.conn[x].writeCompleteCallback_ = ~reading]
  BY <1>10, <1>11
<1>13. Switched(s, t, x, reading)
  BY <1>1, <1>3, <1>4, <1>9 DEF Switched
<1> QED BY <1>1, <1>12, <1>13

\* onHighWaterMark(), for every state it may find.
LEMMA HighWaterMarkEffect ==
  ASSUME NEW s \in RelayType, NEW x \in Sides, s.fault = "none",
         NEW t, t = OnHighWaterMark(s, x)
  PROVE  IF s.conn[x].outputBuffer_ = <<>>
           THEN t = s \/ (~s.clientConn_ /\ Faulted(s, t, "null"))
         ELSE IF ~s.clientConn_ THEN Faulted(s, t, "null")
         ELSE Switched(s, t, x, FALSE)
<1>1. s.clientConn_ \/ Faulted(s, Fault(s, "null"), "null")
  BY FaultEffect
<1>2. Switched(s, [StopRead(s, Other(x)) EXCEPT
                     !.conn[x].writeCompleteCallback_ = TRUE], x, FALSE)
  BY SwitchEffect DEF StopRead
<1> QED BY <1>1, <1>2 DEF OnHighWaterMark

\* onWriteComplete(), for every state it may find.
LEMMA WriteCompleteEffect ==
  ASSUME NEW s \in RelayType, NEW x \in Sides, s.fault = "none",
         NEW t, t = OnWriteComplete(s, x)
  PROVE  IF s.clientConn_ THEN Switched(s, t, x, TRUE) ELSE Faulted(s, t, "null")
<1>1. s.clientConn_ \/ Faulted(s, Fault(s, "null"), "null")
  BY FaultEffect
<1>2. Switched(s, [StartRead(s, Other(x)) EXCEPT
                     !.conn[x].writeCompleteCallback_ = FALSE], x, TRUE)
  BY SwitchEffect DEF StartRead
<1> QED BY <1>1, <1>2 DEF OnWriteComplete
------------------------------------------------------------------------------
(* What is queued.                                                          *)

\* There is such an entry for this side among the functors, or the events, q.
In(q, on, x) == \E i \in DOMAIN q : q[i].on = on /\ q[i].side = x

\* Nothing is in an empty queue.
LEMMA InEmpty == \A on, x : ~In(<<>>, on, x)
BY DEF In

\* In q2 there is the entry, or was in q1.
OneMore(q1, q2, on, x) ==
  \A on2, x2 : In(q2, on2, x2) <=> In(q1, on2, x2) \/ (on2 = on /\ x2 = x)

\* What is in a queue after an entry was added.
LEMMA InAppend ==
  ASSUME NEW q \in Seq(FunctorType), NEW on, NEW x
  PROVE  OneMore(q, Append(q, Functor(on, x)), on, x)
<1>0. PICK n \in Nat : n = Len(q)
  OBVIOUS
<1>1. PICK f, q2 : f = Functor(on, x) /\ q2 = Append(q, f)
  OBVIOUS
<1>2. f.on = on /\ f.side = x
  BY <1>1 DEF Functor
<1>3. /\ DOMAIN q = 1..n /\ DOMAIN q2 = 1..(n + 1)
      /\ q2[n + 1] = f /\ \A i \in 1..n : q2[i] = q[i]
  BY <1>0, <1>1
<1>4. ASSUME NEW on2, NEW x2 PROVE In(q2, on2, x2) <=> In(q, on2, x2) \/ (on2 = on /\ x2 = x)
  <2>1. ASSUME In(q2, on2, x2) PROVE In(q, on2, x2) \/ (on2 = on /\ x2 = x)
    <3>1. PICK i \in 1..(n + 1) : q2[i].on = on2 /\ q2[i].side = x2
      BY <2>1, <1>3 DEF In
    <3>2. CASE i = n + 1
      BY <3>1, <3>2, <1>2, <1>3
    <3>3. CASE i # n + 1
      <4>1. i \in 1..n
        BY <3>3
      <4> QED BY <3>1, <4>1, <1>3 DEF In
    <3> QED BY <3>2, <3>3
  <2>2. ASSUME In(q, on2, x2) PROVE In(q2, on2, x2)
    <3>1. PICK i \in 1..n : q[i].on = on2 /\ q[i].side = x2
      BY <2>2, <1>3 DEF In
    <3>2. i \in 1..(n + 1) /\ q2[i] = q[i]
      BY <1>3
    <3> QED BY <3>1, <3>2, <1>3 DEF In
  <2>3. ASSUME on2 = on, x2 = x PROVE In(q2, on2, x2)
    <3>1. n + 1 \in 1..(n + 1)
      OBVIOUS
    <3> QED BY <2>3, <3>1, <1>2, <1>3 DEF In
  <2> QED BY <2>1, <2>2, <2>3
<1> QED BY <1>1, <1>4 DEF OneMore

\* The first entry of q has been taken.
OneLess(q, rest) ==
  /\ \A on, x : In(rest, on, x) => In(q, on, x)
  /\ \A on, x : In(q, on, x) => In(rest, on, x) \/ (q[1].on = on /\ q[1].side = x)

\* What is in a queue after its first entry was taken.
LEMMA InTail ==
  ASSUME NEW S, NEW q \in Seq(S), q # <<>>
  PROVE  OneLess(q, Tail(q)) /\ In(q, q[1].on, q[1].side)
<1>0. PICK n \in Nat : n = Len(q)
  OBVIOUS
<1>1. PICK r : r = Tail(q)
  OBVIOUS
<1>2. /\ n > 0 /\ DOMAIN q = 1..n /\ DOMAIN r = 1..(n - 1)
      /\ \A i \in 1..(n - 1) : r[i] = q[i + 1]
  BY <1>0, <1>1
<1>3. ASSUME NEW on, NEW x, In(r, on, x) PROVE In(q, on, x)
  <2>1. PICK i \in 1..(n - 1) : r[i].on = on /\ r[i].side = x
    BY <1>2, <1>3 DEF In
  <2>2. i + 1 \in 1..n /\ q[i + 1] = r[i]
    BY <1>2
  <2> QED BY <2>1, <2>2, <1>2 DEF In
<1>4. ASSUME NEW on, NEW x, In(q, on, x)
      PROVE  In(r, on, x) \/ (q[1].on = on /\ q[1].side = x)
  <2>1. PICK i \in 1..n : q[i].on = on /\ q[i].side = x
    BY <1>2, <1>4 DEF In
  <2>2. CASE i = 1
    BY <2>1, <2>2
  <2>3. CASE i # 1
    <3>1. PICK j \in 1..(n - 1) : j = i - 1
      BY <2>3, <1>2
    <3>2. j + 1 = i
      BY <3>1
    <3>3. r[j] = q[i]
      BY <3>1, <3>2, <1>2
    <3> QED BY <2>1, <3>3, <1>2 DEF In
  <2> QED BY <2>2, <2>3
<1>5. In(q, q[1].on, q[1].side)
  BY <1>2 DEF In
<1> QED BY <1>1, <1>3, <1>4, <1>5 DEF OneLess
------------------------------------------------------------------------------
(* The parts of the invariant that the relay and the queue q decide.        *)

\* The connection to the backend, from none to kDisconnected.
Life(s, q, be) ==
  LET c == s.conn["client"]
  IN  /\ c.state_ = "none" <=> be # "done"
      /\ c.state_ = "none" => c = NewConn("none", FALSE)
      /\ s.conn["server"].state_ # "none"
      /\ s.clientConn_ <=> Up(c)
      /\ s.connection_ <=> Up(c)
      /\ s.context_ <=> Up(c)
      /\ c.isReading => Up(c)
      /\ \A x \in Sides : In(q, "connectionDestroyed", x) => s.conn[x].state_ = "kDisconnected"

\* g_tunnels and the callbacks; before the backend has accepted nothing but an
\* answer has been sent, and no callback is on its way.
Registered(s, q, be, m) ==
  LET c == s.conn["client"]
      d == s.conn["server"]
  IN  /\ s.tunnels => be # "none"
      /\ be # "none" /\ Up(d) => s.tunnels
      /\ m = "tcprelay" => be # "none"
      /\ be # "none" /\ c.state_ # "kDisconnected" => s.callbacks
      /\ Up(c) => c.highWaterMarkCallback_
      /\ be # "none" <=> d.highWaterMarkCallback_
      /\ be = "none" /\ d.state_ = "kConnected" => d.written = <<>> /\ d.outputBuffer_ = <<>>
      /\ be # "done" => /\ Len(d.outputBuffer_) <= 1 /\ ~d.writeCompleteCallback_
                        /\ \A x \in Sides : ~In(q, "onHighWaterMark", x)
                                            /\ ~In(q, "onWriteComplete", x)

\* A connection c whose peer connection is o; whether its callbacks are queued.
SideOK(c, o, high, complete, ph) ==
  /\ c.writeCompleteCallback_ => ~o.isReading
  /\ ~(high /\ complete)
  /\ ph = "events" /\ high => ~c.writeCompleteCallback_
  /\ ph = "events" /\ complete => c.writeCompleteCallback_
  /\ complete => c.outputBuffer_ = <<>>

FlowOK(c, o, high, complete) ==
  c.state_ = "kConnected" /\ o.state_ = "kConnected" =>
    /\ o.isReading \/ (c.writeCompleteCallback_ /\ (c.outputBuffer_ # <<>> \/ complete))
    /\ Len(c.outputBuffer_) >= kHighWaterMark => ~o.isReading \/ high

Pairing(s, q, ph) ==
  \A x \in Sides : SideOK(s.conn[x], s.conn[Other(x)], In(q, "onHighWaterMark", x),
                          In(q, "onWriteComplete", x), ph)

Flow(s, q) ==
  \A x \in Sides : FlowOK(s.conn[x], s.conn[Other(x)], In(q, "onHighWaterMark", x),
                          In(q, "onWriteComplete", x))

Control(s, q, ph, be, m) ==
  Life(s, q, be) /\ Registered(s, q, be, m) /\ Pairing(s, q, ph) /\ Flow(s, q)

\* There are two sides.
LEMMA TwoSides ==
  /\ "server" \in Sides /\ "client" \in Sides /\ \A x \in Sides : x = "server" \/ x = "client"
  /\ Other("server") = "client" /\ Other("client") = "server" /\ "client" # "server"
BY DEF Sides, Other

\* Life depends only on these parts of the relay.
LEMMA LifeKept ==
  ASSUME NEW s, NEW t, NEW q, NEW q2, NEW be, Life(s, q, be),
         t.clientConn_ = s.clientConn_, t.connection_ = s.connection_,
         t.context_ = s.context_,
         \A z \in Sides : t.conn[z].state_ = s.conn[z].state_
                         /\ t.conn[z].isReading = s.conn[z].isReading
                         /\ (In(q2, "connectionDestroyed", z) => In(q, "connectionDestroyed", z)),
         s.conn["client"].state_ = "none" => t.conn["client"] = s.conn["client"]
  PROVE  Life(t, q2, be)
<1>1. PICK c, d, f : c = s.conn["client"] /\ d = t.conn["client"] /\ f = t.conn["server"]
  OBVIOUS
<1>2. /\ d.state_ = c.state_ /\ d.isReading = c.isReading
      /\ f.state_ = s.conn["server"].state_ /\ (c.state_ = "none" => d = c)
  BY <1>1, TwoSides
<1>3. /\ d.state_ = "none" <=> be # "done"
      /\ d.state_ = "none" => d = NewConn("none", FALSE)
      /\ f.state_ # "none"
  BY <1>1, <1>2 DEF Life
<1>4. Up(d) <=> Up(c)
  BY <1>2 DEF Up
<1>5. /\ t.clientConn_ <=> Up(d)
      /\ t.connection_ <=> Up(d)
      /\ t.context_ <=> Up(d)
      /\ d.isReading => Up(d)
  <2>1. /\ s.clientConn_ <=> Up(c)
        /\ s.connection_ <=> Up(c)
        /\ s.context_ <=> Up(c)
        /\ c.isReading => Up(c)
    BY <1>1 DEF Life
  <2> QED BY <2>1, <1>2, <1>4
<1>6. \A x \in Sides : In(q2, "connectionDestroyed", x) => t.conn[x].state_ = "kDisconnected"
  BY DEF Life
<1> QED BY <1>1, <1>3, <1>5, <1>6 DEF Life

\* handleRead() keeps Control up to its callback.
LEMMA ControlReceived ==
  ASSUME NEW s \in RelayType, NEW q, NEW ph, NEW be, NEW m, Control(s, q, ph, be, m),
         NEW x \in Sides, NEW y, NEW data, Received(s, y, x, data),
         x = "client" => Up(s.conn["client"])
  PROVE  Control(y, q, ph, be, m)
<1>1. /\ SameFlags(s, y) /\ y.conn[Other(x)] = s.conn[Other(x)]
      /\ SameControl(s.conn[x], y.conn[x])
      /\ y.conn[x].outputBuffer_ = s.conn[x].outputBuffer_
      /\ y.conn[x].written = s.conn[x].written
  BY DEF Received
<1>2. \A z \in Sides : /\ SameControl(s.conn[z], y.conn[z])
                       /\ y.conn[z].outputBuffer_ = s.conn[z].outputBuffer_
                       /\ y.conn[z].written = s.conn[z].written
  BY <1>1, TwoSides DEF SameControl
<1>3. s.conn["client"].state_ = "none" => y.conn["client"] = s.conn["client"]
  BY <1>1, TwoSides DEF Up
<1>4. Life(y, q, be)
  BY <1>1, <1>2, <1>3, LifeKept DEF Control, SameControl, SameFlags
<1>5. Registered(y, q, be, m)
  BY <1>1, <1>2, TwoSides DEF Control, Registered, SameFlags, SameControl, Up
<1>6. Pairing(y, q, ph)
  BY <1>2, Others DEF Control, Pairing, SideOK, SameControl
<1>7. Flow(y, q)
  BY <1>2, Others DEF Control, Flow, FlowOK, SameControl
<1> QED BY <1>4, <1>5, <1>6, <1>7 DEF Control

\* send() of the other side's inputBuffer_ keeps Control: if it crosses the
\* mark, onHighWaterMark() is queued.
LEMMA ControlForwarded ==
  ASSUME NEW s \in RelayType, NEW be, NEW m, Control(s, s.pending, "events", be, m),
         NEW x \in Sides, NEW t, Forwarded(s, t, x),
         s.conn[x].state_ = "kConnected", s.conn[Other(x)].isReading, be = "done"
  PROVE  Control(t, t.pending, "events", be, m)
<1>0. PICK o \in Sides : o = Other(x) /\ o # x /\ Other(o) = x
  BY Others
<1>1. PICK c \in ConnType, d \in ConnType, e \in ConnType, f \in ConnType :
        c = s.conn[x] /\ d = t.conn[x] /\ e = s.conn[o] /\ f = t.conn[o]
  BY <1>0, RelayFields DEF Forwarded
<1>2. /\ t \in RelayType /\ SameFlags(s, t) /\ SameControl(e, f) /\ SameControl(c, d)
      /\ f.outputBuffer_ = e.outputBuffer_ /\ f.written = e.written
  BY <1>0, <1>1 DEF Forwarded, Given
<1>3. PICK old \in Nat, new \in Nat : old = Len(c.outputBuffer_) /\ new = Len(d.outputBuffer_)
  BY EmptyLen DEF ConnType
<1>4. old <= new /\ Notified(s, t, x, old, new)
  BY <1>1, <1>3 DEF Forwarded, Given
<1>5. SideOK(c, e, In(s.pending, "onHighWaterMark", x), In(s.pending, "onWriteComplete", x), "events")
  BY <1>0, <1>1 DEF Control, Pairing
<1>6. ~c.writeCompleteCallback_ /\ ~In(s.pending, "onWriteComplete", x)
  BY <1>0, <1>1, <1>5 DEF SideOK
<1>7. s.pending \in Seq(FunctorType)
  BY RelayFields
<1>8. PICK high \in BOOLEAN : high <=> Crosses(old, new) /\ c.highWaterMarkCallback_
  OBVIOUS
<1>9. \A on2, x2 : In(t.pending, on2, x2) <=> In(s.pending, on2, x2)
                                       \/ (high /\ on2 = "onHighWaterMark" /\ x2 = x)
  <2>1. CASE high
    <3>1. t.pending = Append(s.pending, Functor("onHighWaterMark", x))
      BY <2>1, <1>1, <1>4, <1>6, <1>8 DEF Notified
    <3>2. OneMore(s.pending, t.pending, "onHighWaterMark", x)
      BY <3>1, <1>7, InAppend
    <3> QED BY <2>1, <3>2 DEF OneMore
  <2>2. CASE ~high
    <3>1. t.pending = s.pending
      BY <2>2, <1>1, <1>4, <1>6, <1>8 DEF Notified
    <3> QED BY <2>2, <3>1
  <2> QED BY <2>1, <2>2
<1>10. /\ \A z \in Sides : SameControl(s.conn[z], t.conn[z])
       /\ t.conn[o].outputBuffer_ = s.conn[o].outputBuffer_
       /\ t.conn[o].written = s.conn[o].written
  BY <1>0, <1>1, <1>2, TwoSides
<1>11. Life(t, t.pending, be)
  <2>1. s.conn["client"].state_ # "none"
    BY DEF Control, Life
  <2> QED BY <2>1, <1>2, <1>9, <1>10, LifeKept DEF Control, SameControl, SameFlags
<1>12. Registered(t, t.pending, be, m)
  BY <1>2, <1>10, TwoSides DEF Control, Registered, SameFlags, SameControl, Up
<1>13. SideOK(d, f, In(t.pending, "onHighWaterMark", x), In(t.pending, "onWriteComplete", x), "events")
  BY <1>2, <1>5, <1>6, <1>9 DEF SideOK, SameControl
<1>14. SideOK(f, d, In(t.pending, "onHighWaterMark", o), In(t.pending, "onWriteComplete", o), "events")
  <2>1. SideOK(e, c, In(s.pending, "onHighWaterMark", o), In(s.pending, "onWriteComplete", o), "events")
    BY <1>0, <1>1 DEF Control, Pairing
  <2> QED BY <2>1, <1>0, <1>2, <1>9 DEF SideOK, SameControl
<1>15. Pairing(t, t.pending, "events")
  BY <1>0, <1>1, <1>13, <1>14, TwoSides DEF Pairing
<1>16. FlowOK(d, f, In(t.pending, "onHighWaterMark", x), In(t.pending, "onWriteComplete", x))
  <2>1. FlowOK(c, e, In(s.pending, "onHighWaterMark", x), In(s.pending, "onWriteComplete", x))
    BY <1>0, <1>1 DEF Control, Flow
  <2>2. c.highWaterMarkCallback_
    BY <1>0, <1>1, TwoSides DEF Control, Registered, Up
  <2>3. f.isReading /\ f.state_ = e.state_ /\ d.state_ = c.state_ /\ e.isReading
    BY <1>0, <1>1, <1>2 DEF SameControl
  <2>4. ASSUME c.state_ = "kConnected", e.state_ = "kConnected", new >= kHighWaterMark
        PROVE  In(t.pending, "onHighWaterMark", x)
    <3>1. CASE old >= kHighWaterMark
      BY <2>1, <2>3, <2>4, <3>1, <1>3, <1>9 DEF FlowOK
    <3>2. CASE ~(old >= kHighWaterMark)
      <4>1. Crosses(old, new)
        BY <2>4, <3>2, TunnelAssumption DEF Crosses
      <4> QED BY <2>2, <4>1, <1>8, <1>9
    <3> QED BY <3>1, <3>2
  <2> QED BY <2>3, <2>4, <1>3 DEF FlowOK
<1>17. FlowOK(f, d, In(t.pending, "onHighWaterMark", o), In(t.pending, "onWriteComplete", o))
  <2>1. FlowOK(e, c, In(s.pending, "onHighWaterMark", o), In(s.pending, "onWriteComplete", o))
    BY <1>0, <1>1 DEF Control, Flow
  <2> QED BY <2>1, <1>0, <1>2, <1>9 DEF FlowOK, SameControl
<1>18. Flow(t, t.pending)
  BY <1>0, <1>1, <1>16, <1>17, TwoSides DEF Flow
<1> QED BY <1>11, <1>12, <1>15, <1>18 DEF Control

\* The invariant, from its instances for the two connections.
LEMMA ControlOf ==
  ASSUME NEW t, NEW q, NEW ph, NEW be, NEW m, Life(t, q, be), Registered(t, q, be, m),
         SideOK(t.conn["server"], t.conn["client"], In(q, "onHighWaterMark", "server"),
                In(q, "onWriteComplete", "server"), ph),
         SideOK(t.conn["client"], t.conn["server"], In(q, "onHighWaterMark", "client"),
                In(q, "onWriteComplete", "client"), ph),
         FlowOK(t.conn["server"], t.conn["client"], In(q, "onHighWaterMark", "server"),
                In(q, "onWriteComplete", "server")),
         FlowOK(t.conn["client"], t.conn["server"], In(q, "onHighWaterMark", "client"),
                In(q, "onWriteComplete", "client"))
  PROVE  Control(t, q, ph, be, m)
<1>1. Pairing(t, q, ph)
  BY TwoSides DEF Pairing
<1>2. Flow(t, q)
  BY TwoSides DEF Flow
<1> QED BY <1>1, <1>2 DEF Control

\* The instances for the two connections.
LEMMA ControlParts ==
  ASSUME NEW s, NEW q, NEW ph, NEW be, NEW m, Control(s, q, ph, be, m)
  PROVE  /\ Life(s, q, be) /\ Registered(s, q, be, m)
         /\ SideOK(s.conn["server"], s.conn["client"], In(q, "onHighWaterMark", "server"),
                   In(q, "onWriteComplete", "server"), ph)
         /\ SideOK(s.conn["client"], s.conn["server"], In(q, "onHighWaterMark", "client"),
                   In(q, "onWriteComplete", "client"), ph)
         /\ FlowOK(s.conn["server"], s.conn["client"], In(q, "onHighWaterMark", "server"),
                   In(q, "onWriteComplete", "server"))
         /\ FlowOK(s.conn["client"], s.conn["server"], In(q, "onHighWaterMark", "client"),
                   In(q, "onWriteComplete", "client"))
BY TwoSides DEF Control, Pairing, Flow

\* Nothing of the connections or the tunnel's pointers changes: the loop goes
\* from one phase to the next.
LEMMA ControlRephased ==
  ASSUME NEW s, NEW t, NEW q, NEW ph, NEW ph2, NEW be, NEW m, Control(s, q, ph, be, m),
         t.conn = s.conn, t.context_ = s.context_, t.clientConn_ = s.clientConn_,
         t.connection_ = s.connection_, t.callbacks = s.callbacks, t.tunnels = s.tunnels,
         ph2 = "events" => ph = "events" \/ q = <<>>
  PROVE  Control(t, q, ph2, be, m)
<1>1. Life(t, q, be)
  BY DEF Control, Life
<1>2. Registered(t, q, be, m)
  BY DEF Control, Registered
<1>3. Pairing(t, q, ph2)
  BY InEmpty DEF Control, Pairing, SideOK
<1>4. Flow(t, q)
  BY DEF Control, Flow
<1> QED BY <1>1, <1>2, <1>3, <1>4 DEF Control

\* The backend's accept() changes nothing that Control relates.
LEMMA ControlAccepted ==
  ASSUME NEW s, NEW q, NEW ph, NEW m, Control(s, q, ph, "connecting", m)
  PROVE  Control(s, q, ph, "accepted", m)
<1>1. Life(s, q, "accepted")
  BY DEF Control, Life
<1>2. Registered(s, q, "accepted", m)
  BY DEF Control, Registered
<1> QED BY <1>1, <1>2 DEF Control

\* handleWrite() keeps Control: if all is written, onWriteComplete() is queued.
LEMMA ControlWrote ==
  ASSUME NEW s \in RelayType, NEW be, NEW m, Control(s, s.pending, "events", be, m),
         NEW x \in Sides, NEW t, NEW k \in 1..Len(s.conn[x].outputBuffer_),
         Wrote(s, t, x, k), Up(s.conn[x])
  PROVE  Control(t, t.pending, "events", be, m)
<1>0. PICK o \in Sides : o = Other(x) /\ o # x /\ Other(o) = x
  BY Others
<1>1. PICK c \in ConnType, d \in ConnType, e \in ConnType :
        c = s.conn[x] /\ d = t.conn[x] /\ e = s.conn[o]
  BY RelayFields DEF Wrote
<1>2. PICK old \in Nat, new \in Nat : old = Len(c.outputBuffer_) /\ new = Len(d.outputBuffer_)
  BY EmptyLen DEF ConnType
<1>3. /\ t \in RelayType /\ SameFlags(s, t) /\ t.conn[o] = e
      /\ d.state_ = c.state_ /\ d.isReading = c.isReading
      /\ d.highWaterMarkCallback_ = c.highWaterMarkCallback_
      /\ d.writeCompleteCallback_ = c.writeCompleteCallback_
      /\ new = old - k /\ k \in 1..old
  BY <1>0, <1>1, <1>2 DEF Wrote
<1>4. (c.outputBuffer_ # <<>>) /\ (d.outputBuffer_ = <<>> <=> k = old)
  <2>1. c.outputBuffer_ \in Seq(Units) /\ d.outputBuffer_ \in Seq(Units)
    BY DEF ConnType
  <2>2. (c.outputBuffer_ = <<>> <=> old = 0) /\ (d.outputBuffer_ = <<>> <=> new = 0)
    BY <2>1, <1>2, EmptyLen
  <2>3. old # 0 /\ (new = 0 <=> k = old)
    BY <1>3
  <2> QED BY <2>2, <2>3
<1>5. PICK all \in BOOLEAN : all <=> k = old /\ c.writeCompleteCallback_
  OBVIOUS
<1>6. \A on2, x2 : In(t.pending, on2, x2) <=> In(s.pending, on2, x2)
                                       \/ (all /\ on2 = "onWriteComplete" /\ x2 = x)
  <2>1. CASE all
    <3>1. t.pending = Append(s.pending, Functor("onWriteComplete", x))
      BY <2>1, <1>1, <1>2, <1>5 DEF Wrote
    <3>2. OneMore(s.pending, t.pending, "onWriteComplete", x)
      BY <3>1, RelayFields, InAppend
    <3> QED BY <2>1, <3>2 DEF OneMore
  <2>2. CASE ~all
    <3>1. t.pending = s.pending
      BY <2>2, <1>1, <1>2, <1>5 DEF Wrote
    <3> QED BY <2>2, <3>1
  <2> QED BY <2>1, <2>2
<1>7. \A z \in Sides : /\ t.conn[z].state_ = s.conn[z].state_
                       /\ t.conn[z].isReading = s.conn[z].isReading
                       /\ t.conn[z].highWaterMarkCallback_ = s.conn[z].highWaterMarkCallback_
                       /\ t.conn[z].writeCompleteCallback_ = s.conn[z].writeCompleteCallback_
  BY <1>0, <1>1, <1>3, TwoSides
<1>8. Life(t, t.pending, be)
  <2>1. s.conn["client"].state_ = "none" => t.conn["client"] = s.conn["client"]
    BY <1>0, <1>1, <1>3, TwoSides DEF Up
  <2>2. \A z \in Sides : In(t.pending, "connectionDestroyed", z)
                           => In(s.pending, "connectionDestroyed", z)
    BY <1>6
  <2> QED BY <2>1, <2>2, <1>3, <1>7, LifeKept DEF Control, SameFlags
<1>9. SideOK(c, e, In(s.pending, "onHighWaterMark", x), In(s.pending, "onWriteComplete", x), "events")
  BY <1>0, <1>1 DEF Control, Pairing
<1>10. SideOK(d, e, In(t.pending, "onHighWaterMark", x), In(t.pending, "onWriteComplete", x), "events")
  <2>1. ~In(s.pending, "onWriteComplete", x)
    BY <1>4, <1>9 DEF SideOK
  <2> QED BY <2>1, <1>3, <1>4, <1>5, <1>6, <1>9 DEF SideOK
<1>11. SideOK(e, d, In(t.pending, "onHighWaterMark", o), In(t.pending, "onWriteComplete", o), "events")
  <2>1. SideOK(e, c, In(s.pending, "onHighWaterMark", o), In(s.pending, "onWriteComplete", o), "events")
    BY <1>0, <1>1 DEF Control, Pairing
  <2> QED BY <2>1, <1>0, <1>3, <1>6 DEF SideOK
<1>12. Pairing(t, t.pending, "events")
  BY <1>0, <1>1, <1>3, <1>10, <1>11, TwoSides DEF Pairing
<1>13. FlowOK(d, e, In(t.pending, "onHighWaterMark", x), In(t.pending, "onWriteComplete", x))
  <2>1. FlowOK(c, e, In(s.pending, "onHighWaterMark", x), In(s.pending, "onWriteComplete", x))
    BY <1>0, <1>1 DEF Control, Flow
  <2>2. new >= kHighWaterMark => old >= kHighWaterMark
    BY <1>3, TunnelAssumption
  <2> QED BY <2>1, <2>2, <1>2, <1>3, <1>4, <1>5, <1>6 DEF FlowOK
<1>14. FlowOK(e, d, In(t.pending, "onHighWaterMark", o), In(t.pending, "onWriteComplete", o))
  <2>1. FlowOK(e, c, In(s.pending, "onHighWaterMark", o), In(s.pending, "onWriteComplete", o))
    BY <1>0, <1>1 DEF Control, Flow
  <2> QED BY <2>1, <1>0, <1>3, <1>6 DEF FlowOK
<1>15. Flow(t, t.pending)
  BY <1>0, <1>1, <1>3, <1>13, <1>14, TwoSides DEF Flow
<1>16. Registered(t, t.pending, be, m)
  <2>1. Registered(s, s.pending, be, m) /\ Life(s, s.pending, be)
    BY DEF Control
  <2>2. \A z \in Sides : Up(t.conn[z]) <=> Up(s.conn[z])
    BY <1>7 DEF Up
  <2>3. PICK a, b : a = s.conn["server"] /\ b = t.conn["server"]
    OBVIOUS
  <2>4. x = "server" \/ b = a
    BY <1>0, <1>1, <1>3, <2>3, TwoSides
  <2>5. be = "none" /\ b.state_ = "kConnected" => b.written = <<>> /\ b.outputBuffer_ = <<>>
    BY <2>1, <2>3, <2>4, <1>1, <1>4, <1>7, TwoSides DEF Registered
  <2>6. be # "done" => Len(b.outputBuffer_) <= 1 /\ ~b.writeCompleteCallback_
    <3>1. be # "done" => Len(a.outputBuffer_) <= 1 /\ ~a.writeCompleteCallback_
      BY <2>1, <2>3 DEF Registered
    <3>2. b.writeCompleteCallback_ = a.writeCompleteCallback_
      BY <2>3, <1>7, TwoSides
    <3>3. CASE x = "server"
      BY <3>1, <3>2, <3>3, <2>3, <1>1, <1>2, <1>3
    <3> QED BY <3>1, <3>2, <3>3, <2>4
  <2>7. be # "done" => \A z \in Sides : ~In(t.pending, "onHighWaterMark", z)
                                        /\ ~In(t.pending, "onWriteComplete", z)
    <3>1. SUFFICES ASSUME be # "done" PROVE ~all
      BY <2>1, <1>6 DEF Registered
    <3>2. x = "server"
      BY <2>1, <3>1, TwoSides DEF Life, Up
    <3> QED BY <3>1, <3>2, <2>1, <1>1, <1>5 DEF Registered
  <2> QED BY <2>1, <2>2, <2>3, <2>5, <2>6, <2>7, <1>3, <1>7, TwoSides DEF Registered, SameFlags
<1> QED BY <1>8, <1>12, <1>15, <1>16 DEF Control

\* handleClose() of serverConn_ keeps Control.
LEMMA ControlServerClosed ==
  ASSUME NEW s \in RelayType, NEW be, NEW m, Control(s, s.pending, "events", be, m),
         NEW t, ServerClosed(s, t), Up(s.conn["server"])
  PROVE  Control(t, t.pending, "events", be, m)
<1>1. PICK a \in ConnType, b \in ConnType, c \in ConnType, d \in ConnType :
        /\ a = s.conn["server"] /\ b = t.conn["server"]
        /\ c = s.conn["client"] /\ d = t.conn["client"]
  BY RelayFields, TwoSides DEF ServerClosed
<1>2. /\ b.state_ = "kDisconnected" /\ ~b.isReading /\ b.outputBuffer_ = a.outputBuffer_
      /\ b.highWaterMarkCallback_ = a.highWaterMarkCallback_
      /\ b.writeCompleteCallback_ = a.writeCompleteCallback_
  BY <1>1 DEF ServerClosed, Closed, SameStreams
<1>3. /\ d.outputBuffer_ = c.outputBuffer_ /\ d.isReading = c.isReading
      /\ d.highWaterMarkCallback_ = c.highWaterMarkCallback_
      /\ d.writeCompleteCallback_ = c.writeCompleteCallback_
      /\ d.state_ = c.state_ \/ (c.state_ = "kConnected" /\ d.state_ = "kDisconnecting")
      /\ ~s.connection_ => d = c
  <2>1. CASE s.tunnels /\ s.connection_
    <3>1. ShutConn(c, d)
      BY <2>1, <1>1 DEF ServerClosed
    <3> QED BY <2>1, <3>1 DEF ShutConn, SameStreams
  <2>2. CASE ~(s.tunnels /\ s.connection_)
    <3>1. d = c
      BY <2>2, <1>1 DEF ServerClosed
    <3> QED BY <3>1
  <2> QED BY <2>1, <2>2
<1>4. (Up(d) <=> Up(c)) /\ ~Up(b)
  BY <1>2, <1>3 DEF Up
<1>5. OneMore(s.pending, t.pending, "connectionDestroyed", "server")
  BY RelayFields, InAppend DEF ServerClosed
<1>6. \A on2, x2 : In(t.pending, on2, x2) <=> In(s.pending, on2, x2)
                                \/ (on2 = "connectionDestroyed" /\ x2 = "server")
  BY <1>5 DEF OneMore
<1>7. /\ Life(s, s.pending, be) /\ Registered(s, s.pending, be, m)
      /\ SideOK(a, c, In(s.pending, "onHighWaterMark", "server"),
                In(s.pending, "onWriteComplete", "server"), "events")
      /\ SideOK(c, a, In(s.pending, "onHighWaterMark", "client"),
                In(s.pending, "onWriteComplete", "client"), "events")
  BY <1>1, ControlParts
<1>8. Life(t, t.pending, be)
  <2>1. /\ c.state_ = "none" <=> be # "done"
        /\ c.state_ = "none" => c = NewConn("none", FALSE)
        /\ s.clientConn_ <=> Up(c)
        /\ s.connection_ <=> Up(c)
        /\ s.context_ <=> Up(c)
        /\ c.isReading => Up(c)
        /\ In(s.pending, "connectionDestroyed", "client") => c.state_ = "kDisconnected"
    BY <1>1, <1>7, TwoSides DEF Life
  <2>2. /\ t.context_ = s.context_ /\ t.clientConn_ = s.clientConn_
        /\ t.connection_ = s.connection_
    BY DEF ServerClosed
  <2>3. /\ d.state_ = "none" <=> be # "done"
        /\ d.state_ = "none" => d = NewConn("none", FALSE)
    BY <2>1, <1>3, <1>4 DEF Up
  <2>4. /\ t.clientConn_ <=> Up(d)
        /\ t.connection_ <=> Up(d)
        /\ t.context_ <=> Up(d)
        /\ d.isReading => Up(d)
    BY <2>1, <2>2, <1>3, <1>4
  <2>5. In(t.pending, "connectionDestroyed", "client") => d.state_ = "kDisconnected"
    BY <2>1, <1>3, <1>6, TwoSides
  <2>6. \A x \in Sides : In(t.pending, "connectionDestroyed", x) => t.conn[x].state_ = "kDisconnected"
    BY <2>5, <1>1, <1>2, TwoSides
  <2> QED BY <2>3, <2>4, <2>6, <1>1, <1>2 DEF Life
<1>9. Registered(t, t.pending, be, m)
  <2>1. d.state_ = "kDisconnected" <=> c.state_ = "kDisconnected"
    BY <1>3
  <2>2. \A x \in Sides : /\ In(t.pending, "onHighWaterMark", x) <=> In(s.pending, "onHighWaterMark", x)
                         /\ In(t.pending, "onWriteComplete", x) <=> In(s.pending, "onWriteComplete", x)
    BY <1>6
  <2>3. t.tunnels = FALSE /\ t.callbacks = s.callbacks
    BY DEF ServerClosed
  <2> QED BY <2>1, <2>2, <2>3, <1>1, <1>2, <1>3, <1>4, <1>7 DEF Registered
<1>10. SideOK(b, d, In(t.pending, "onHighWaterMark", "server"),
              In(t.pending, "onWriteComplete", "server"), "events")
  BY <1>2, <1>3, <1>6, <1>7 DEF SideOK
<1>11. SideOK(d, b, In(t.pending, "onHighWaterMark", "client"),
              In(t.pending, "onWriteComplete", "client"), "events")
  BY <1>2, <1>3, <1>6, <1>7 DEF SideOK
<1>12. /\ FlowOK(b, d, In(t.pending, "onHighWaterMark", "server"),
                 In(t.pending, "onWriteComplete", "server"))
       /\ FlowOK(d, b, In(t.pending, "onHighWaterMark", "client"),
                 In(t.pending, "onWriteComplete", "client"))
  BY <1>2 DEF FlowOK
<1> QED BY <1>1, <1>8, <1>9, <1>10, <1>11, <1>12, ControlOf

\* handleClose() of clientConn_ keeps Control.
LEMMA ControlClientClosed ==
  ASSUME NEW s \in RelayType, NEW be, NEW m, Control(s, s.pending, "events", be, m),
         NEW t, ClientClosed(s, t), Up(s.conn["client"])
  PROVE  Control(t, t.pending, "events", be, m)
<1>1. PICK a \in ConnType, b \in ConnType, c \in ConnType, d \in ConnType :
        /\ a = s.conn["server"] /\ b = t.conn["server"]
        /\ c = s.conn["client"] /\ d = t.conn["client"]
  BY RelayFields, TwoSides DEF ClientClosed
<1>2. /\ d.state_ = "kDisconnected" /\ ~d.isReading /\ d.outputBuffer_ = c.outputBuffer_
      /\ d.writeCompleteCallback_ = c.writeCompleteCallback_
  BY <1>1 DEF ClientClosed, Closed, SameStreams
<1>3. /\ b.outputBuffer_ = a.outputBuffer_ /\ b.isReading = a.isReading
      /\ b.highWaterMarkCallback_ = a.highWaterMarkCallback_
      /\ b.writeCompleteCallback_ = a.writeCompleteCallback_
      /\ b.state_ = a.state_ \/ (a.state_ = "kConnected" /\ b.state_ = "kDisconnecting")
  BY <1>1 DEF ClientClosed, ShutConn, SameStreams
<1>4. (Up(b) <=> Up(a)) /\ ~Up(d)
  BY <1>2, <1>3 DEF Up
<1>5. OneMore(s.pending, t.pending, "connectionDestroyed", "client")
  BY RelayFields, InAppend DEF ClientClosed
<1>6. \A on2, x2 : In(t.pending, on2, x2) <=> In(s.pending, on2, x2)
                                \/ (on2 = "connectionDestroyed" /\ x2 = "client")
  BY <1>5 DEF OneMore
<1>7. /\ Life(s, s.pending, be) /\ Registered(s, s.pending, be, m)
      /\ SideOK(a, c, In(s.pending, "onHighWaterMark", "server"),
                In(s.pending, "onWriteComplete", "server"), "events")
      /\ SideOK(c, a, In(s.pending, "onHighWaterMark", "client"),
                In(s.pending, "onWriteComplete", "client"), "events")
  BY <1>1, ControlParts
<1>8. Life(t, t.pending, be) /\ be = "done"
  <2>1. /\ c.state_ = "none" <=> be # "done"
        /\ a.state_ # "none"
        /\ In(s.pending, "connectionDestroyed", "server") => a.state_ = "kDisconnected"
    BY <1>1, <1>7, TwoSides DEF Life
  <2>2. t.context_ = FALSE /\ t.clientConn_ = FALSE /\ t.connection_ = FALSE
    BY DEF ClientClosed
  <2>3. be = "done" /\ b.state_ # "none"
    BY <2>1, <1>1, <1>3 DEF Up
  <2>5. In(t.pending, "connectionDestroyed", "server") => b.state_ = "kDisconnected"
    BY <2>1, <1>3, <1>6, TwoSides
  <2>6. \A x \in Sides : In(t.pending, "connectionDestroyed", x) => t.conn[x].state_ = "kDisconnected"
    BY <2>5, <1>1, <1>2, TwoSides
  <2> QED BY <2>2, <2>3, <2>6, <1>1, <1>2, <1>4 DEF Life
<1>9. Registered(t, t.pending, be, m)
  <2>1. t.tunnels = s.tunnels /\ t.callbacks = FALSE
    BY DEF ClientClosed
  <2> QED BY <2>1, <1>1, <1>2, <1>3, <1>4, <1>7, <1>8 DEF Registered
<1>10. SideOK(b, d, In(t.pending, "onHighWaterMark", "server"),
              In(t.pending, "onWriteComplete", "server"), "events")
  BY <1>2, <1>3, <1>6, <1>7 DEF SideOK
<1>11. SideOK(d, b, In(t.pending, "onHighWaterMark", "client"),
              In(t.pending, "onWriteComplete", "client"), "events")
  BY <1>2, <1>3, <1>6, <1>7 DEF SideOK
<1>12. /\ FlowOK(b, d, In(t.pending, "onHighWaterMark", "server"),
                 In(t.pending, "onWriteComplete", "server"))
       /\ FlowOK(d, b, In(t.pending, "onHighWaterMark", "client"),
                 In(t.pending, "onWriteComplete", "client"))
  BY <1>2 DEF FlowOK
<1> QED BY <1>1, <1>8, <1>9, <1>10, <1>11, <1>12, ControlOf

\* The new connection starts in Control, and serverConn_ reads.
LEMMA ControlOpened ==
  ASSUME NEW s \in RelayType, NEW m, Control(s, s.pending, "events", "accepted", m),
         NEW y, Opened(s, y)
  PROVE  Control(y, y.pending, "events", "done", m)
<1>1. PICK a \in ConnType, b \in ConnType, c \in ConnType, d \in ConnType :
        /\ a = s.conn["server"] /\ b = y.conn["server"]
        /\ c = s.conn["client"] /\ d = y.conn["client"]
  BY RelayFields, TwoSides DEF Opened
<1>2. /\ d.state_ = "kConnected" /\ d.isReading /\ d.outputBuffer_ = <<>>
      /\ d.highWaterMarkCallback_ /\ ~d.writeCompleteCallback_
  <2>1. d = [NewConn("kConnected", TRUE) EXCEPT !.highWaterMarkCallback_ = TRUE]
    BY <1>1 DEF Opened
  <2> QED BY <2>1 DEF NewConn
<1>3. /\ b.outputBuffer_ = a.outputBuffer_ /\ b.isReading /\ b.state_ = a.state_
      /\ b.highWaterMarkCallback_ = a.highWaterMarkCallback_
      /\ b.writeCompleteCallback_ = a.writeCompleteCallback_
  BY <1>1 DEF Opened, SameStreams
<1>4. (Up(b) <=> Up(a)) /\ Up(d)
  BY <1>2, <1>3 DEF Up
<1>5. y.pending = s.pending
  BY DEF Opened
<1>7. /\ Life(s, s.pending, "accepted") /\ Registered(s, s.pending, "accepted", m)
      /\ SideOK(a, c, In(s.pending, "onHighWaterMark", "server"),
                In(s.pending, "onWriteComplete", "server"), "events")
      /\ SideOK(c, a, In(s.pending, "onHighWaterMark", "client"),
                In(s.pending, "onWriteComplete", "client"), "events")
  BY <1>1, ControlParts
<1>8. /\ Len(a.outputBuffer_) <= 1 /\ ~a.writeCompleteCallback_
      /\ \A x \in Sides : ~In(s.pending, "onHighWaterMark", x)
                          /\ ~In(s.pending, "onWriteComplete", x)
  BY <1>1, <1>7 DEF Registered
<1>9. Life(y, y.pending, "done")
  <2>1. /\ c.state_ = "none" /\ a.state_ # "none"
        /\ In(s.pending, "connectionDestroyed", "server") => a.state_ = "kDisconnected"
        /\ In(s.pending, "connectionDestroyed", "client") => c.state_ = "kDisconnected"
    BY <1>1, <1>7, TwoSides DEF Life
  <2>2. y.context_ = TRUE /\ y.clientConn_ = TRUE /\ y.connection_ = TRUE
    BY DEF Opened
  <2>3. \A x \in Sides : In(y.pending, "connectionDestroyed", x) => y.conn[x].state_ = "kDisconnected"
    BY <2>1, <1>1, <1>3, <1>5, TwoSides
  <2> QED BY <2>1, <2>2, <2>3, <1>1, <1>2, <1>3, <1>4 DEF Life
<1>10. Registered(y, y.pending, "done", m)
  <2>1. /\ s.callbacks /\ (Up(a) => s.tunnels) /\ a.highWaterMarkCallback_
    <3>1. c.state_ # "kDisconnected"
      BY <1>1, <1>7 DEF Life
    <3> QED BY <3>1, <1>1, <1>7 DEF Registered
  <2>2. y.callbacks = s.callbacks /\ y.tunnels = s.tunnels
    BY DEF Opened
  <2> QED BY <2>1, <2>2, <1>1, <1>2, <1>3, <1>4 DEF Registered
<1>11. /\ SideOK(b, d, In(y.pending, "onHighWaterMark", "server"),
                 In(y.pending, "onWriteComplete", "server"), "events")
       /\ SideOK(d, b, In(y.pending, "onHighWaterMark", "client"),
                 In(y.pending, "onWriteComplete", "client"), "events")
  BY <1>2, <1>3, <1>5, <1>8, TwoSides DEF SideOK
<1>12. /\ FlowOK(b, d, In(y.pending, "onHighWaterMark", "server"),
                 In(y.pending, "onWriteComplete", "server"))
       /\ FlowOK(d, b, In(y.pending, "onHighWaterMark", "client"),
                 In(y.pending, "onWriteComplete", "client"))
  <2>1. PICK n \in Nat : n = Len(a.outputBuffer_)
    BY EmptyLen DEF ConnType
  <2>2. ~(Len(b.outputBuffer_) >= kHighWaterMark)
    BY <2>1, <1>3, <1>8, TunnelAssumption
  <2>3. ~(Len(d.outputBuffer_) >= kHighWaterMark)
    BY <1>2, JoinEmpty, EmptySeq, TunnelAssumption
  <2> QED BY <2>2, <2>3, <1>2, <1>3 DEF FlowOK
<1> QED BY <1>1, <1>9, <1>10, <1>11, <1>12, ControlOf

\* newConnection() keeps Control.
LEMMA ControlConnected ==
  ASSUME NEW s \in RelayType, NEW m, Control(s, s.pending, "events", "accepted", m),
         NEW t, Connected(s, t)
  PROVE  Control(t, t.pending, "events", "done", m)
<1>1. PICK y : Opened(s, y) /\ Forwarded(y, t, "client")
  BY DEF Connected
<1>2. Control(y, y.pending, "events", "done", m) /\ y \in RelayType
  BY <1>1, ControlOpened DEF Opened
<1>3. y.conn["client"].state_ = "kConnected" /\ y.conn["server"].isReading
  <2>1. y.conn["client"] = [NewConn("kConnected", TRUE) EXCEPT !.highWaterMarkCallback_ = TRUE]
    BY <1>1 DEF Opened
  <2> QED BY <2>1, <1>1 DEF NewConn, Opened
<1> QED BY <1>1, <1>2, <1>3, TwoSides, ControlForwarded

\* Only the state of serverConn_ and what it has to send may have changed.
LEMMA ControlAnswered ==
  ASSUME NEW s \in RelayType, NEW m, Control(s, s.pending, "events", "none", m),
         NEW t \in RelayType, SameFlags(s, t), t.pending = s.pending,
         t.conn["client"] = s.conn["client"],
         ShutConn(s.conn["server"], t.conn["server"])
         \/ \E u : Sent(s, u, "server", <<"x">>) /\ ShutDown(u, t, "server")
                   /\ s.conn["server"].state_ = "kConnected"
  PROVE  Control(t, t.pending, "events", "none", m)
<1>1. PICK a \in ConnType, b \in ConnType, c \in ConnType :
        /\ a = s.conn["server"] /\ b = t.conn["server"]
        /\ c = s.conn["client"] /\ c = t.conn["client"]
  BY RelayFields, TwoSides
<1>2. /\ Life(s, s.pending, "none") /\ Registered(s, s.pending, "none", m)
      /\ SideOK(a, c, In(s.pending, "onHighWaterMark", "server"),
                In(s.pending, "onWriteComplete", "server"), "events")
      /\ SideOK(c, a, In(s.pending, "onHighWaterMark", "client"),
                In(s.pending, "onWriteComplete", "client"), "events")
  BY <1>1, ControlParts
<1>3. /\ Len(a.outputBuffer_) <= 1 /\ ~a.writeCompleteCallback_
      /\ ~a.highWaterMarkCallback_
      /\ \A x \in Sides : ~In(s.pending, "onHighWaterMark", x)
                          /\ ~In(s.pending, "onWriteComplete", x)
      /\ a.state_ = "kConnected" => a.outputBuffer_ = <<>>
  BY <1>1, <1>2 DEF Registered
<1>4. c.state_ = "none" /\ a.state_ # "none"
  BY <1>1, <1>2 DEF Life
<1>5. /\ b.isReading = a.isReading /\ b.highWaterMarkCallback_ = a.highWaterMarkCallback_
      /\ b.writeCompleteCallback_ = a.writeCompleteCallback_
      /\ IF a.state_ = "kConnected" THEN b.state_ = "kDisconnecting" ELSE b.state_ = a.state_
      /\ Len(b.outputBuffer_) <= 1
  <2>1. CASE ShutConn(a, b)
    BY <2>1, <1>3 DEF ShutConn, SameStreams
  <2>2. CASE ~ShutConn(a, b)
    <3>1. PICK u : Sent(s, u, "server", <<"x">>) /\ ShutDown(u, t, "server")
                   /\ s.conn["server"].state_ = "kConnected"
      BY <2>2, <1>1
    <3>2. PICK e : e = u.conn["server"]
      OBVIOUS
    <3>3. SameControl(a, e) /\ Len(e.outputBuffer_) <= Len(a.outputBuffer_) + Len(<<"x">>)
      BY <3>1, <3>2, <1>1 DEF Sent, Given
    <3>4. ShutConn(e, b)
      BY <3>1, <3>2, <1>1 DEF ShutDown
    <3>5. a.outputBuffer_ = <<>>
      BY <3>1, <1>1, <1>3
    <3>6. Len(e.outputBuffer_) <= 1
      BY <3>3, <3>5
    <3> QED BY <3>3, <3>4, <3>6 DEF ShutConn, SameControl, SameStreams
  <2> QED BY <2>1, <2>2
<1>6. (Up(b) <=> Up(a)) /\ b.state_ # "kConnected"
  BY <1>5 DEF Up
<1>7. Life(t, t.pending, "none")
  <2>1. /\ t.clientConn_ = s.clientConn_ /\ t.connection_ = s.connection_
        /\ t.context_ = s.context_
    BY DEF SameFlags
  <2>2. \A x \in Sides : In(t.pending, "connectionDestroyed", x) => t.conn[x].state_ = "kDisconnected"
    BY <1>1, <1>2, <1>5, TwoSides DEF Life
  <2> QED BY <2>1, <2>2, <1>1, <1>2, <1>4, <1>5 DEF Life
<1>8. Registered(t, t.pending, "none", m)
  <2>1. t.callbacks = s.callbacks /\ t.tunnels = s.tunnels
    BY DEF SameFlags
  <2> QED BY <2>1, <1>1, <1>2, <1>3, <1>5, <1>6 DEF Registered
<1>9. /\ SideOK(b, c, In(t.pending, "onHighWaterMark", "server"),
                In(t.pending, "onWriteComplete", "server"), "events")
      /\ SideOK(c, b, In(t.pending, "onHighWaterMark", "client"),
                In(t.pending, "onWriteComplete", "client"), "events")
  BY <1>2, <1>3, <1>5, TwoSides DEF SideOK
<1>10. /\ FlowOK(b, c, In(t.pending, "onHighWaterMark", "server"),
                 In(t.pending, "onWriteComplete", "server"))
       /\ FlowOK(c, b, In(t.pending, "onHighWaterMark", "client"),
                 In(t.pending, "onWriteComplete", "client"))
  BY <1>4 DEF FlowOK
<1> QED BY <1>1, <1>7, <1>8, <1>9, <1>10, ControlOf

\* A granted request keeps Control: the answer alone is below the mark.
LEMMA ControlSetUp ==
  ASSUME NEW s \in RelayType, NEW m, Control(s, s.pending, "events", "none", m),
         NEW t, Granted(s, t)
  PROVE  Control(t, t.pending, "events", "connecting", m) /\ t.tunnels = TRUE
         /\ t.pending = s.pending
<1>0. PICK y, end :
        /\ SetUp(s, y, end)
        /\ IF s.conn["server"].state_ = "kConnected" THEN Sent(y, t, "server", <<"r">>)
           ELSE t = y
  BY DEF Granted
<1>1. PICK a \in ConnType, e \in ConnType, b \in ConnType, c \in ConnType :
        /\ a = s.conn["server"] /\ e = y.conn["server"] /\ b = t.conn["server"]
        /\ c = s.conn["client"] /\ c = t.conn["client"]
  BY <1>0, RelayFields, TwoSides DEF SetUp, Sent
<1>2. /\ Life(s, s.pending, "none") /\ Registered(s, s.pending, "none", m)
      /\ SideOK(a, c, In(s.pending, "onHighWaterMark", "server"),
                In(s.pending, "onWriteComplete", "server"), "events")
      /\ SideOK(c, a, In(s.pending, "onHighWaterMark", "client"),
                In(s.pending, "onWriteComplete", "client"), "events")
  BY <1>1, ControlParts
<1>3. /\ Len(a.outputBuffer_) <= 1 /\ ~a.writeCompleteCallback_
      /\ \A x \in Sides : ~In(s.pending, "onHighWaterMark", x)
                          /\ ~In(s.pending, "onWriteComplete", x)
      /\ a.state_ = "kConnected" => a.outputBuffer_ = <<>>
  BY <1>1, <1>2 DEF Registered
<1>4. c.state_ = "none" /\ a.state_ # "none"
  BY <1>1, <1>2 DEF Life
<1>5. /\ e.outputBuffer_ = a.outputBuffer_ /\ e.isReading = a.isReading
      /\ e.state_ = a.state_ /\ e.highWaterMarkCallback_
      /\ e.writeCompleteCallback_ = a.writeCompleteCallback_
      /\ y.context_ = s.context_ /\ y.clientConn_ = s.clientConn_
      /\ y.connection_ = s.connection_ /\ y.callbacks = TRUE /\ y.tunnels = TRUE
      /\ y.pending = s.pending
  BY <1>0, <1>1 DEF SetUp
<1>6. /\ SameControl(e, b) /\ SameFlags(y, t) /\ t.pending = y.pending
      /\ Len(b.outputBuffer_) <= 1
  <2>1. CASE a.state_ = "kConnected"
    <3>1. Sent(y, t, "server", <<"r">>)
      BY <2>1, <1>0, <1>1
    <3>2. PICK old \in Nat, new \in Nat : old = Len(e.outputBuffer_) /\ new = Len(b.outputBuffer_)
      BY EmptyLen DEF ConnType
    <3>3. /\ SameControl(e, b) /\ SameFlags(y, t) /\ new <= old + Len(<<"r">>)
          /\ Notified(y, t, "server", old, new)
      BY <3>1, <3>2, <1>1 DEF Sent, Given
    <3>4. old = 0
      BY <2>1, <3>2, <1>3, <1>5, JoinEmpty, EmptySeq
    <3>5. new <= 1
      BY <3>3, <3>4
    <3>6. ~Crosses(old, new)
      BY <3>5, TunnelAssumption DEF Crosses
    <3>7. t.pending = y.pending
      BY <3>3, <3>6, <1>1, <1>3, <1>5 DEF Notified
    <3> QED BY <3>2, <3>3, <3>5, <3>7
  <2>2. CASE a.state_ # "kConnected"
    BY <2>2, <1>0, <1>1, <1>3, <1>5 DEF SameControl, SameFlags
  <2> QED BY <2>1, <2>2
<1>7. /\ b.isReading = a.isReading /\ b.state_ = a.state_ /\ b.highWaterMarkCallback_
      /\ b.writeCompleteCallback_ = a.writeCompleteCallback_
      /\ t.context_ = s.context_ /\ t.clientConn_ = s.clientConn_
      /\ t.connection_ = s.connection_ /\ t.callbacks = TRUE /\ t.tunnels = TRUE
      /\ t.pending = s.pending
  BY <1>5, <1>6 DEF SameControl, SameFlags
<1>8. Life(t, t.pending, "connecting")
  <2>1. \A x \in Sides : In(t.pending, "connectionDestroyed", x) => t.conn[x].state_ = "kDisconnected"
    BY <1>1, <1>2, <1>7, TwoSides DEF Life
  <2> QED BY <2>1, <1>1, <1>2, <1>4, <1>7 DEF Life
<1>9. Registered(t, t.pending, "connecting", m)
  <2>1. ~Up(c)
    BY <1>4 DEF Up
  <2> QED BY <2>1, <1>1, <1>3, <1>6, <1>7 DEF Registered
<1>10. /\ SideOK(b, c, In(t.pending, "onHighWaterMark", "server"),
                 In(t.pending, "onWriteComplete", "server"), "events")
       /\ SideOK(c, b, In(t.pending, "onHighWaterMark", "client"),
                 In(t.pending, "onWriteComplete", "client"), "events")
  BY <1>2, <1>3, <1>7, TwoSides DEF SideOK
<1>11. /\ FlowOK(b, c, In(t.pending, "onHighWaterMark", "server"),
                 In(t.pending, "onWriteComplete", "server"))
       /\ FlowOK(c, b, In(t.pending, "onHighWaterMark", "client"),
                 In(t.pending, "onWriteComplete", "client"))
  BY <1>4 DEF FlowOK
<1> QED BY <1>1, <1>7, <1>8, <1>9, <1>10, <1>11, ControlOf

\* The request has been looked at.
LEMMA ControlRequested ==
  ASSUME NEW s \in RelayType, NEW m, Control(s, s.pending, "events", "none", m),
         ~s.tunnels, NEW t, Requested(s, t)
  PROVE  /\ Control(t, t.pending, "events", IF t.tunnels THEN "connecting" ELSE "none", m)
         /\ t.pending = s.pending
<1>1. CASE t = s
  BY <1>1
<1>2. CASE ShutDown(s, t, "server")
  <2>1. /\ t \in RelayType /\ SameFlags(s, t) /\ t.pending = s.pending
        /\ t.conn["client"] = s.conn["client"]
        /\ ShutConn(s.conn["server"], t.conn["server"])
    BY <1>2, TwoSides DEF ShutDown
  <2>2. Control(t, t.pending, "events", "none", m)
    BY <2>1, ControlAnswered
  <2> QED BY <2>1, <2>2 DEF SameFlags
<1>3. ASSUME NEW u, s.conn["server"].state_ = "kConnected",
             Sent(s, u, "server", <<"x">>), ShutDown(u, t, "server")
      PROVE  /\ Control(t, t.pending, "events", "none", m)
             /\ t.pending = s.pending /\ t.tunnels = s.tunnels
  <2>1. /\ u \in RelayType /\ SameFlags(s, u) /\ u.conn["client"] = s.conn["client"]
        /\ Notified(s, u, "server", Len(s.conn["server"].outputBuffer_),
                    Len(u.conn["server"].outputBuffer_))
    BY <1>3, TwoSides DEF Sent, Given
  <2>2. ~s.conn["server"].writeCompleteCallback_ /\ ~s.conn["server"].highWaterMarkCallback_
    BY DEF Control, Registered
  <2>3. u.pending = s.pending
    BY <2>1, <2>2 DEF Notified
  <2>4. /\ t \in RelayType /\ SameFlags(u, t) /\ t.pending = u.pending
        /\ t.conn["client"] = u.conn["client"]
    BY <1>3, TwoSides DEF ShutDown
  <2>5. SameFlags(s, t)
    BY <2>1, <2>4 DEF SameFlags
  <2>6. t.pending = s.pending /\ t.conn["client"] = s.conn["client"]
    BY <2>1, <2>3, <2>4
  <2>7. Control(t, t.pending, "events", "none", m)
    BY <1>3, <2>4, <2>5, <2>6, ControlAnswered
  <2> QED BY <2>5, <2>6, <2>7 DEF SameFlags
<1>5. CASE \E u : /\ IF s.conn["server"].state_ = "kConnected" THEN Sent(s, u, "server", <<"x">>)
                     ELSE u = s
                  /\ ShutDown(u, t, "server")
  <2>1. CASE s.conn["server"].state_ = "kConnected"
    BY <2>1, <1>3, <1>5
  <2>2. CASE s.conn["server"].state_ # "kConnected"
    BY <2>2, <1>2, <1>5
  <2> QED BY <2>1, <2>2
<1>6. CASE Granted(s, t)
  BY <1>6, ControlSetUp
<1> QED BY <1>1, <1>2, <1>5, <1>6 DEF Requested
------------------------------------------------------------------------------
(* The functors.                                                            *)

\* connectionDestroyed() keeps Control.
LEMMA ControlDestroyed ==
  ASSUME NEW s \in RelayType, NEW q, NEW rest, NEW be, NEW m, NEW x \in Sides,
         Control(s, q, "functors", be, m), OneLess(q, rest),
         q[1].on = "connectionDestroyed", In(q, "connectionDestroyed", x),
         NEW t, Destroyed(s, t, x) \/ Faulted(s, t, "assert")
  PROVE  Control(t, rest, "functors", be, m)
<1>1. \A z \in Sides :
        /\ t.conn[z].state_ = s.conn[z].state_ /\ t.conn[z].isReading = s.conn[z].isReading
        /\ t.conn[z].highWaterMarkCallback_ = s.conn[z].highWaterMarkCallback_
        /\ t.conn[z].writeCompleteCallback_ = s.conn[z].writeCompleteCallback_
        /\ SameStreams(s.conn[z], t.conn[z])
  <2>1. CASE Destroyed(s, t, x)
    BY <2>1, TwoSides DEF Destroyed, SameStreams
  <2>2. CASE Faulted(s, t, "assert")
    BY <2>2 DEF Faulted, SameStreams
  <2> QED BY <2>1, <2>2
<1>2. /\ t.context_ = s.context_ /\ t.clientConn_ = s.clientConn_
      /\ t.connection_ = s.connection_ /\ t.callbacks = s.callbacks /\ t.tunnels = s.tunnels
  BY DEF Destroyed, Faulted, SameFlags
<1>3. s.conn[x].state_ = "kDisconnected"
  BY DEF Control, Life
<1>4. s.conn["client"].state_ # "kDisconnected" => t.conn["client"] = s.conn["client"]
  BY <1>3, TwoSides DEF Destroyed, Faulted
<1>5. \A z \in Sides : /\ In(rest, "onHighWaterMark", z) <=> In(q, "onHighWaterMark", z)
                       /\ In(rest, "onWriteComplete", z) <=> In(q, "onWriteComplete", z)
                       /\ In(rest, "connectionDestroyed", z) => In(q, "connectionDestroyed", z)
  BY DEF OneLess
<1>6. s.conn["client"].state_ = "none" => t.conn["client"] = s.conn["client"]
  BY <1>4
<1>9. Life(t, rest, be)
  BY <1>1, <1>2, <1>5, <1>6, LifeKept DEF Control
<1>10. Registered(t, rest, be, m)
  BY <1>1, <1>2, <1>5, TwoSides DEF Control, Registered, Up, SameStreams
<1>11. Pairing(t, rest, "functors")
  BY <1>1, <1>5, Others DEF Control, Pairing, SideOK, SameStreams
<1>12. Flow(t, rest)
  BY <1>1, <1>5, Others DEF Control, Flow, FlowOK, SameStreams
<1> QED BY <1>9, <1>10, <1>11, <1>12 DEF Control

\* A callback that cannot, or need not, do anything, or finds no clientConn_.
LEMMA ControlDropped ==
  ASSUME NEW s \in RelayType, NEW q, NEW rest, NEW be, NEW m,
         Control(s, q, "functors", be, m), OneLess(q, rest),
         NEW t, t = s \/ Faulted(s, t, "null"),
         \/ s.conn["client"].state_ # "kConnected"
         \/ s.conn["server"].state_ # "kConnected"
         \/ q[1].on = "onHighWaterMark" /\ q[1].side \in Sides
            /\ s.conn[q[1].side].outputBuffer_ = <<>>
  PROVE  Control(t, rest, "functors", be, m)
<1>1. /\ t.conn = s.conn /\ t.context_ = s.context_ /\ t.clientConn_ = s.clientConn_
      /\ t.connection_ = s.connection_ /\ t.callbacks = s.callbacks /\ t.tunnels = s.tunnels
  BY DEF Faulted
<1>2. \A on, x : In(rest, on, x) => In(q, on, x)
  BY DEF OneLess
<1>3. Life(t, rest, be)
  BY <1>1, <1>2, LifeKept DEF Control
<1>4. Registered(t, rest, be, m)
  BY <1>1, <1>2 DEF Control, Registered
<1>5. Pairing(t, rest, "functors")
  BY <1>1, <1>2 DEF Control, Pairing, SideOK
<1>6. Flow(t, rest)
  <2>1. CASE s.conn["client"].state_ # "kConnected" \/ s.conn["server"].state_ # "kConnected"
    BY <2>1, <1>1, TwoSides DEF Flow, FlowOK
  <2>2. CASE /\ q[1].on = "onHighWaterMark" /\ q[1].side \in Sides
             /\ s.conn[q[1].side].outputBuffer_ = <<>>
    <3>1. PICK x \in Sides : x = q[1].side
      BY <2>2
    <3>2. /\ \A z : In(rest, "onWriteComplete", z) <=> In(q, "onWriteComplete", z)
          /\ \A z : z # x => (In(rest, "onHighWaterMark", z) <=> In(q, "onHighWaterMark", z))
      BY <2>2, <3>1 DEF OneLess
    <3>3. ~(Len(s.conn[x].outputBuffer_) >= kHighWaterMark)
      BY <2>2, <3>1, TunnelAssumption, JoinEmpty, EmptySeq
    <3>4. SUFFICES ASSUME NEW z \in Sides
                   PROVE  FlowOK(s.conn[z], s.conn[Other(z)], In(rest, "onHighWaterMark", z),
                                 In(rest, "onWriteComplete", z))
      BY <1>1 DEF Flow
    <3>5. FlowOK(s.conn[z], s.conn[Other(z)], In(q, "onHighWaterMark", z),
                 In(q, "onWriteComplete", z))
      BY DEF Control, Flow
    <3>6. CASE z = x
      BY <3>2, <3>3, <3>5, <3>6 DEF FlowOK
    <3>7. CASE z # x
      BY <3>2, <3>5, <3>7 DEF FlowOK
    <3> QED BY <3>6, <3>7
  <2> QED BY <2>1, <2>2
<1> QED BY <1>3, <1>4, <1>5, <1>6 DEF Control

\* The other side is made to stop reading, or to read again.
LEMMA ControlSwitched ==
  ASSUME NEW s \in RelayType, NEW q, NEW rest, NEW be, NEW m, NEW x \in Sides,
         NEW reading \in BOOLEAN, Control(s, q, "functors", be, m), OneLess(q, rest),
         q[1].side = x, s.clientConn_, NEW t, Switched(s, t, x, reading),
         IF reading THEN q[1].on = "onWriteComplete" /\ In(q, "onWriteComplete", x)
         ELSE q[1].on = "onHighWaterMark" /\ s.conn[x].outputBuffer_ # <<>>
  PROVE  Control(t, rest, "functors", be, m)
<1>0. PICK o \in Sides : o = Other(x) /\ o # x /\ Other(o) = x
  BY Others
<1>1. PICK c \in ConnType, d \in ConnType, e \in ConnType, f \in ConnType :
        c = s.conn[x] /\ d = t.conn[x] /\ e = s.conn[o] /\ f = t.conn[o]
  BY RelayFields DEF Switched
<1>2. /\ SameFlags(s, t) /\ d.outputBuffer_ = c.outputBuffer_ /\ f.outputBuffer_ = e.outputBuffer_
      /\ d.written = c.written /\ f.written = e.written
      /\ d.state_ = c.state_ /\ d.isReading = c.isReading
      /\ d.highWaterMarkCallback_ = c.highWaterMarkCallback_
      /\ d.writeCompleteCallback_ <=> ~reading
      /\ f.state_ = e.state_
      /\ f.isReading <=> reading
      /\ f.highWaterMarkCallback_ = e.highWaterMarkCallback_
      /\ f.writeCompleteCallback_ = e.writeCompleteCallback_
  BY <1>0, <1>1 DEF Switched, SameStreams
<1>3. Up(s.conn["client"]) /\ be = "done"
  BY DEF Control, Life, Up
<1>4. \A on, z : In(rest, on, z) => In(q, on, z)
  BY DEF OneLess
<1>5. /\ SideOK(c, e, In(q, "onHighWaterMark", x), In(q, "onWriteComplete", x), "functors")
      /\ SideOK(e, c, In(q, "onHighWaterMark", o), In(q, "onWriteComplete", o), "functors")
      /\ FlowOK(c, e, In(q, "onHighWaterMark", x), In(q, "onWriteComplete", x))
      /\ FlowOK(e, c, In(q, "onHighWaterMark", o), In(q, "onWriteComplete", o))
  BY <1>0, <1>1 DEF Control, Pairing, Flow
<1>6. /\ In(rest, "onHighWaterMark", o) <=> In(q, "onHighWaterMark", o)
      /\ In(rest, "onWriteComplete", o) <=> In(q, "onWriteComplete", o)
  BY <1>0 DEF OneLess
<1>7. /\ SideOK(d, f, In(rest, "onHighWaterMark", x), In(rest, "onWriteComplete", x), "functors")
      /\ SideOK(f, d, In(rest, "onHighWaterMark", o), In(rest, "onWriteComplete", o), "functors")
  BY <1>2, <1>4, <1>5 DEF SideOK
<1>8. FlowOK(d, f, In(rest, "onHighWaterMark", x), In(rest, "onWriteComplete", x))
  <2>1. CASE reading
    <3>1. c.outputBuffer_ = <<>>
      BY <2>1, <1>5 DEF SideOK
    <3>2. ~(Len(d.outputBuffer_) >= kHighWaterMark)
      BY <3>1, <1>2, TunnelAssumption, JoinEmpty, EmptySeq
    <3> QED BY <2>1, <3>2, <1>2 DEF FlowOK
  <2>2. CASE ~reading
    BY <2>2, <1>1, <1>2 DEF FlowOK
  <2> QED BY <2>1, <2>2
<1>9. FlowOK(f, d, In(rest, "onHighWaterMark", o), In(rest, "onWriteComplete", o))
  BY <1>2, <1>5, <1>6 DEF FlowOK
<1>10. Pairing(t, rest, "functors") /\ Flow(t, rest)
  BY <1>0, <1>1, <1>7, <1>8, <1>9, TwoSides DEF Pairing, Flow
<1>11. \A z \in Sides : /\ t.conn[z].state_ = s.conn[z].state_
                        /\ t.conn[z].highWaterMarkCallback_ = s.conn[z].highWaterMarkCallback_
  BY <1>0, <1>1, <1>2, TwoSides
<1>12. Life(t, rest, be)
  <2>1. Up(t.conn["client"]) /\ t.conn["client"].state_ # "none"
    BY <1>3, <1>11, TwoSides DEF Up
  <2>2. t.clientConn_ /\ t.connection_ /\ t.context_
    BY <1>2, <1>3 DEF Control, Life, SameFlags
  <2>3. t.conn["server"].state_ # "none"
    BY <1>11, TwoSides DEF Control, Life
  <2>4. \A z \in Sides : In(rest, "connectionDestroyed", z) => t.conn[z].state_ = "kDisconnected"
    BY <1>4, <1>11 DEF Control, Life
  <2> QED BY <2>1, <2>2, <2>3, <2>4, <1>3 DEF Life
<1>13. Registered(t, rest, be, m)
  <2>1. \A z \in Sides : Up(t.conn[z]) <=> Up(s.conn[z])
    BY <1>11 DEF Up
  <2>2. t.tunnels = s.tunnels /\ t.callbacks = s.callbacks
    BY <1>2 DEF SameFlags
  <2> QED BY <2>1, <2>2, <1>3, <1>11, TwoSides DEF Control, Registered
<1> QED BY <1>10, <1>12, <1>13 DEF Control
------------------------------------------------------------------------------
(* The events poll() has returned.                                          *)

\* An event still to be handled that was not overtaken: its connection is as
\* poll() found it.
EventOK(e, s, be, r, pr) ==
  /\ e.on = "IN" => /\ s.conn[e.side].isReading
                    /\ r[e.side] # <<>> \/ pr[e.side] # "open"
  /\ e.on \in {"IN", "HUP"} /\ e.side = "client" => Up(s.conn["client"])
  /\ e.on = "connect" => be = "accepted" /\ e.side = "client"
  /\ e.seen = "reset" => pr[e.side] = "reset"
  /\ e.on = "HUP" => e.seen = "reset"

\* Two events of one poll() do not ask for the same.
Apart(e, f) ==
  e.side = f.side => e.on # f.on /\ ~(e.on = "IN" /\ f.on = "HUP")
                     /\ ~(e.on = "HUP" /\ f.on = "IN")

AllApart(a) == \A i, j \in DOMAIN a : i # j => Apart(a[i], a[j])
Reported(a, s, be, r, pr) ==
  AllApart(a) /\ \A i \in DOMAIN a : EventOK(a[i], s, be, r, pr)

\* Members of a sequence.
LEMMA SeqOf ==
  /\ \A a \in Seq(EventType) : a # <<>> => Tail(a) \in Seq(EventType)
  /\ \A a, b \in Seq(EventType) : a \o b \in Seq(EventType)
<1>1. ASSUME NEW S, NEW a \in Seq(S), NEW b \in Seq(S)
      PROVE  a \o b \in Seq(S) /\ (a # <<>> => Tail(a) \in Seq(S))
  OBVIOUS
<1> QED BY <1>1, Zenon

\* The events that are left after the first.
LEMMA TailEvents ==
  ASSUME NEW a \in Seq(EventType), a # <<>>
  PROVE  /\ a[1] \in EventType /\ Tail(a) \in Seq(EventType)
         /\ \A i \in DOMAIN Tail(a) : /\ i + 1 \in DOMAIN a /\ i + 1 # 1
                                      /\ Tail(a)[i] = a[i + 1]
                                      /\ Tail(a)[i] \in EventType
         /\ 1 \in DOMAIN a
<1>0. PICK n \in Nat : n = Len(a) /\ DOMAIN a = 1..n /\ n > 0
  OBVIOUS
<1>1. PICK rest \in Seq(EventType) : rest = Tail(a)
  BY SeqOf, Zenon
<1>2. DOMAIN rest = 1..(n - 1) /\ \A i \in 1..(n - 1) : rest[i] = a[i + 1]
  BY <1>0, <1>1
<1>3. \A i \in DOMAIN rest : rest[i] \in EventType
  OBVIOUS
<1>4. \A i \in 1..(n - 1) : i + 1 \in 1..n /\ i + 1 # 1
  BY <1>0
<1>5. a[1] \in EventType /\ 1 \in DOMAIN a
  BY <1>0
<1> QED BY <1>0, <1>1, <1>2, <1>3, <1>4, <1>5

\* One event has been handled, in a way the others allow.
LEMMA ReportedTail ==
  ASSUME NEW a \in Seq(EventType), a # <<>>, NEW s, NEW be, NEW r, NEW pr,
         Reported(a, s, be, r, pr), NEW t, NEW be2, NEW r2,
         \A e \in EventType : EventOK(e, s, be, r, pr) /\ Apart(a[1], e)
                                => EventOK(e, t, be2, r2, pr)
  PROVE  Reported(Tail(a), t, be2, r2, pr)
<1>1. PICK rest : rest = Tail(a)
  OBVIOUS
<1>2. \A i \in DOMAIN rest : /\ i + 1 \in DOMAIN a /\ i + 1 # 1 /\ rest[i] = a[i + 1]
                             /\ rest[i] \in EventType
  BY <1>1, TailEvents
<1>3. ASSUME NEW i \in DOMAIN rest PROVE EventOK(rest[i], t, be2, r2, pr)
  <2>1. EventOK(rest[i], s, be, r, pr)
    BY <1>2 DEF Reported
  <2>2. Apart(a[1], rest[i])
    <3>1. 1 \in DOMAIN a
      BY TailEvents
    <3> QED BY <3>1, <1>2 DEF Reported, AllApart
  <2> QED BY <2>1, <2>2, <1>2
<1>4. ASSUME NEW i \in DOMAIN rest, NEW j \in DOMAIN rest, i # j
      PROVE  Apart(rest[i], rest[j])
  <2>1. i + 1 # j + 1
    <3>1. i \in Nat /\ j \in Nat
      BY <1>1
    <3> QED BY <3>1, <1>4
  <2> QED BY <2>1, <1>2 DEF Reported, AllApart
<1> QED BY <1>1, <1>3, <1>4 DEF Reported, AllApart

\* Every event of a is one of these, of this side.
Among(a, x, ons) == a \in Seq(EventType) /\ \A i \in DOMAIN a : a[i].side = x /\ a[i].on \in ons

\* What concatenation keeps.
LEMMA JoinIndex ==
  ASSUME NEW S, NEW a \in Seq(S), NEW b \in Seq(S), NEW i \in DOMAIN (a \o b)
  PROVE  \/ i \in DOMAIN a /\ (a \o b)[i] = a[i]
         \/ i \notin DOMAIN a /\ i - Len(a) \in DOMAIN b /\ (a \o b)[i] = b[i - Len(a)]
<1>1. PICK m \in Nat : m = Len(a) /\ DOMAIN a = 1..m
  OBVIOUS
<1>2. PICK n \in Nat : n = Len(b) /\ DOMAIN b = 1..n
  OBVIOUS
<1>3. PICK c : c = a \o b
  OBVIOUS
<1>4. /\ DOMAIN c = 1..(m + n)
      /\ \A j \in 1..(m + n) : c[j] = IF j <= m THEN a[j] ELSE b[j - m]
  BY <1>1, <1>2, <1>3
<1>5. i \in 1..(m + n)
  BY <1>3, <1>4
<1>6. CASE i <= m
  BY <1>1, <1>3, <1>4, <1>5, <1>6
<1>7. CASE ~(i <= m)
  <2>1. i \notin 1..m /\ i - m \in 1..n
    BY <1>5, <1>7
  <2> QED BY <2>1, <1>1, <1>2, <1>3, <1>4, <1>5, <1>7
<1> QED BY <1>6, <1>7

\* The events of two lists are apart if they are of different sides.
LEMMA JoinEvents ==
  ASSUME NEW a \in Seq(EventType), NEW b \in Seq(EventType),
         AllApart(a), AllApart(b),
         \A i \in DOMAIN a, j \in DOMAIN b : Apart(a[i], b[j])
  PROVE  a \o b \in Seq(EventType) /\ AllApart(a \o b)
<1>1. PICK c \in Seq(EventType) : c = a \o b
  BY SeqOf, Zenon
<1>2. PICK m \in Nat : m = Len(a)
  OBVIOUS
<1>3. \A i \in DOMAIN c : \/ i \in DOMAIN a /\ c[i] = a[i]
                          \/ i \notin DOMAIN a /\ i - m \in DOMAIN b /\ c[i] = b[i - m]
  BY <1>1, <1>2, JoinIndex
<1>4. \A i, j \in DOMAIN c : i # j => i - m # j - m
  BY <1>2
<1>5. \A e, f : Apart(e, f) <=> Apart(f, e)
  BY DEF Apart
<1>6. ASSUME NEW i \in DOMAIN c, NEW j \in DOMAIN c, i # j PROVE Apart(c[i], c[j])
  BY <1>3, <1>4, <1>5, <1>6 DEF AllApart
<1> QED BY <1>1, <1>6 DEF AllApart

\* Two lists of one side's events make one.
LEMMA JoinAmong ==
  ASSUME NEW x, NEW A, NEW B, NEW a, NEW b, Among(a, x, A), Among(b, x, B),
         AllApart(a), AllApart(b),
         \A p \in A, r \in B : p # r /\ ~(p = "IN" /\ r = "HUP") /\ ~(p = "HUP" /\ r = "IN")
  PROVE  Among(a \o b, x, A \cup B) /\ AllApart(a \o b)
<1>1. a \in Seq(EventType) /\ b \in Seq(EventType)
  BY DEF Among
<1>2. \A i \in DOMAIN a, j \in DOMAIN b : Apart(a[i], b[j])
  BY DEF Among, Apart
<1>3. a \o b \in Seq(EventType) /\ AllApart(a \o b)
  BY <1>1, <1>2, JoinEvents
<1>4. ASSUME NEW i \in DOMAIN (a \o b)
      PROVE  (a \o b)[i].side = x /\ (a \o b)[i].on \in A \cup B
  <2>1. CASE i \in DOMAIN a /\ (a \o b)[i] = a[i]
    BY <2>1 DEF Among
  <2>2. CASE i - Len(a) \in DOMAIN b /\ (a \o b)[i] = b[i - Len(a)]
    BY <2>2 DEF Among
  <2> QED BY <2>1, <2>2, <1>1, JoinIndex
<1> QED BY <1>3, <1>4 DEF Among

\* A list of one event.
LEMMA OneEvent ==
  ASSUME NEW x \in Sides, NEW on \in {"IN", "HUP", "OUT", "connect"},
         NEW seen \in {"open", "closed", "reset"}, NEW cond, NEW e,
         e = [on |-> on, side |-> x, seen |-> seen]
  PROVE  /\ Among(IF cond THEN <<e>> ELSE <<>>, x, {on})
         /\ AllApart(IF cond THEN <<e>> ELSE <<>>)
<1>1. e \in EventType /\ e.on = on /\ e.side = x
  BY DEF EventType
<1>2. PICK b : b = <<e>>
  OBVIOUS
<1>3. b \in Seq(EventType) /\ DOMAIN b = {1} /\ b[1] = e
  BY <1>1, <1>2
<1>4. Among(b, x, {on}) /\ AllApart(b)
  BY <1>1, <1>3 DEF Among, AllApart
<1>5. Among(<<>>, x, {on}) /\ AllApart(<<>>)
  BY EmptySeq DEF Among, AllApart
<1> QED BY <1>2, <1>4, <1>5
------------------------------------------------------------------------------
(* The inductive invariant.                                                 *)

Peers == {"open", "closed", "reset"}
Backends == {"none", "connecting", "accepted", "done"}

TunnelTypes ==
  /\ mode \in {"tcprelay", "socks4a"} /\ script \in Seq(Units)
  /\ sent \in [Sides -> Seq(Units)] /\ rcv \in [Sides -> Seq(Units)]
  /\ peer \in [Sides -> Peers] /\ backend \in Backends
  /\ relay \in RelayType /\ phase \in {"poll", "events", "functors"}
  /\ active \in Seq(EventType) /\ batch \in Seq(FunctorType)

\* Functors are queued by events only, and run when no event is left.
Phases ==
  /\ phase # "events" => relay.pending = <<>> /\ active = <<>>
  /\ phase # "functors" => batch = <<>>

\* The functors that have not run.
Waiting == IF phase = "functors" THEN batch ELSE relay.pending

\* A connection that went down has given all that had arrived; a reset leaves
\* nothing to read.
Ended(s, r, pr) ==
  \A x \in Sides :
    /\ s.conn[x].state_ = "kDisconnected" => r[x] = <<>> /\ pr[x] # "open"
    /\ pr[x] = "reset" => r[x] = <<>>

\* In tcprelay serverConn_ does not read before there is a backend; when it has
\* gone down without a reset nothing makes it read again.
RelayDown(s, q, a, be, m, pr) ==
  LET c == s.conn["client"]
      d == s.conn["server"]
  IN  m = "tcprelay" =>
        /\ d.isReading => be = "done"
        /\ In(a, "IN", "server") => ~In(q, "onHighWaterMark", "client")
        /\ d.state_ = "kDisconnected" /\ pr["server"] # "reset" =>
             /\ be = "done" /\ ~c.writeCompleteCallback_ /\ ~d.isReading
             /\ ~In(q, "onHighWaterMark", "client") /\ ~In(q, "onWriteComplete", "client")
             /\ ~In(a, "IN", "server") /\ ~In(a, "HUP", "server")

\* FaultCauses of a relay.
Causes(s, m, pr) ==
  /\ s.fault = "null" => s.conn["client"].state_ = "kDisconnected"
  /\ s.fault = "assert" => s.conn["server"].state_ = "kDisconnected"
  /\ s.fault = "assert" /\ m = "tcprelay" => pr["server"] = "reset"

TunnelInv ==
  /\ TunnelTypes /\ Phases
  /\ Control(relay, Waiting, phase, backend, mode)
  /\ Reported(active, relay, backend, rcv, peer)
  /\ Ended(relay, rcv, peer)
  /\ RelayDown(relay, Waiting, active, backend, mode, peer)
  /\ Causes(relay, mode, peer)

\* poll() reports at most one event of each kind for a side.
LEMMA EventsOf ==
  ASSUME TunnelTypes, NEW x \in Sides
  PROVE  /\ Among(Events(x), x, {"IN", "HUP", "OUT", "connect"})
         /\ AllApart(Events(x))
<1>1. PICK c \in ConnType : c = relay.conn[x]
  BY RelayFields DEF TunnelTypes
<1>2. PICK seen \in Peers : seen = peer[x]
  BY DEF TunnelTypes
<1>3. PICK hup \in BOOLEAN : hup <=> seen = "reset" /\ ~c.isReading /\ IsWriting(c)
  OBVIOUS
<1>4. PICK readable \in BOOLEAN : readable <=> c.isReading /\ (rcv[x] # <<>> \/ seen # "open")
  OBVIOUS
<1>5. PICK p1, p2, p3, p4 :
        /\ p1 = IF readable THEN <<Ready("IN", x)>> ELSE <<>>
        /\ p2 = IF hup THEN <<Ready("HUP", x)>> ELSE <<>>
        /\ p3 = IF IsWriting(c) /\ ~hup THEN <<Ready("OUT", x)>> ELSE <<>>
        /\ p4 = IF x = "client" /\ backend = "accepted" THEN <<Ready("connect", x)>> ELSE <<>>
  OBVIOUS
<1>6. Events(x) = ((p1 \o p2) \o p3) \o p4
  BY <1>1, <1>2, <1>3, <1>4, <1>5 DEF Events
<1>7. /\ Among(p1, x, {"IN"}) /\ AllApart(p1) /\ Among(p2, x, {"HUP"}) /\ AllApart(p2)
      /\ Among(p3, x, {"OUT"}) /\ AllApart(p3) /\ Among(p4, x, {"connect"}) /\ AllApart(p4)
  <2>1. ASSUME NEW on \in {"IN", "HUP", "OUT", "connect"}, NEW cond
        PROVE  /\ Among(IF cond THEN <<Ready(on, x)>> ELSE <<>>, x, {on})
               /\ AllApart(IF cond THEN <<Ready(on, x)>> ELSE <<>>)
    BY <1>2, OneEvent DEF Ready, Peers
  <2> QED BY <2>1, <1>5
<1>8. readable => ~hup
  BY <1>3, <1>4
<1>9. Among(p1 \o p2, x, {"IN", "HUP"}) /\ AllApart(p1 \o p2)
  <2>1. p1 \in Seq(EventType) /\ p2 \in Seq(EventType)
    BY <1>7 DEF Among
  <2>2. DOMAIN p1 = {} \/ DOMAIN p2 = {}
    BY <1>5, <1>8
  <2>3. p1 \o p2 \in Seq(EventType) /\ AllApart(p1 \o p2)
    BY <2>1, <2>2, <1>7, JoinEvents
  <2>4. ASSUME NEW i \in DOMAIN (p1 \o p2)
        PROVE  (p1 \o p2)[i].side = x /\ (p1 \o p2)[i].on \in {"IN", "HUP"}
    <3>1. CASE i \in DOMAIN p1 /\ (p1 \o p2)[i] = p1[i]
      BY <3>1, <1>7 DEF Among
    <3>2. CASE i - Len(p1) \in DOMAIN p2 /\ (p1 \o p2)[i] = p2[i - Len(p1)]
      BY <3>2, <1>7 DEF Among
    <3> QED BY <3>1, <3>2, <2>1, JoinIndex
  <2> QED BY <2>3, <2>4 DEF Among
<1>10. PICK a, A : a = p1 \o p2 /\ A = {"IN", "HUP"}
  OBVIOUS
<1>11. Among(a \o p3, x, A \cup {"OUT"}) /\ AllApart(a \o p3)
  <2>1. \A p \in A, r \in {"OUT"} : p # r /\ ~(p = "IN" /\ r = "HUP") /\ ~(p = "HUP" /\ r = "IN")
    BY <1>10
  <2> QED BY <2>1, <1>7, <1>9, <1>10, JoinAmong
<1>12. PICK b, B : b = a \o p3 /\ B = A \cup {"OUT"}
  OBVIOUS
<1>13. Among(b \o p4, x, B \cup {"connect"}) /\ AllApart(b \o p4)
  <2>1. \A p \in B, r \in {"connect"} : p # r /\ ~(p = "IN" /\ r = "HUP") /\ ~(p = "HUP" /\ r = "IN")
    BY <1>10, <1>12
  <2> QED BY <2>1, <1>7, <1>11, <1>12, JoinAmong
<1>14. B \cup {"connect"} = {"IN", "HUP", "OUT", "connect"}
  BY <1>10, <1>12
<1> QED BY <1>6, <1>10, <1>12, <1>13, <1>14

\* The events poll() reports of a side are as they should be.
LEMMA EventsOK ==
  ASSUME TunnelTypes, Life(relay, Waiting, backend), NEW x \in Sides
  PROVE  Events(x) \in Seq({e \in EventType : EventOK(e, relay, backend, rcv, peer)})
<1>1. PICK c \in ConnType : c = relay.conn[x]
  BY RelayFields DEF TunnelTypes
<1>2. PICK seen \in Peers : seen = peer[x]
  BY DEF TunnelTypes
<1>3. PICK hup \in BOOLEAN : hup <=> seen = "reset" /\ ~c.isReading /\ IsWriting(c)
  OBVIOUS
<1>4. PICK readable \in BOOLEAN : readable <=> c.isReading /\ (rcv[x] # <<>> \/ seen # "open")
  OBVIOUS
<1>5. PICK e1, e2, e3, e4 : /\ e1 = Ready("IN", x) /\ e2 = Ready("HUP", x)
                            /\ e3 = Ready("OUT", x) /\ e4 = Ready("connect", x)
  OBVIOUS
<1>6. PICK p1, p2, p3, p4 :
        /\ p1 = IF readable THEN <<e1>> ELSE <<>>
        /\ p2 = IF hup THEN <<e2>> ELSE <<>>
        /\ p3 = IF IsWriting(c) /\ ~hup THEN <<e3>> ELSE <<>>
        /\ p4 = IF x = "client" /\ backend = "accepted" THEN <<e4>> ELSE <<>>
  OBVIOUS
<1>7. Events(x) = ((p1 \o p2) \o p3) \o p4
  BY <1>1, <1>2, <1>3, <1>4, <1>5, <1>6 DEF Events
<1>8. PICK E : E = {e \in EventType : EventOK(e, relay, backend, rcv, peer)}
  OBVIOUS
<1>9. /\ e1 \in EventType /\ e1.on = "IN" /\ e1.side = x /\ e1.seen = seen
      /\ e2 \in EventType /\ e2.on = "HUP" /\ e2.side = x /\ e2.seen = seen
      /\ e3 \in EventType /\ e3.on = "OUT" /\ e3.side = x /\ e3.seen = seen
      /\ e4 \in EventType /\ e4.on = "connect" /\ e4.side = x /\ e4.seen = seen
  BY <1>2, <1>5 DEF EventType, Ready, Peers
<1>10. c.isReading \/ IsWriting(c) => x = "server" \/ Up(relay.conn["client"])
  BY <1>1, TwoSides DEF Life, IsWriting
<1>11. readable => e1 \in E
  BY <1>1, <1>2, <1>4, <1>8, <1>9, <1>10 DEF EventOK
<1>12. hup => e2 \in E
  BY <1>1, <1>2, <1>3, <1>8, <1>9, <1>10 DEF EventOK
<1>13. e3 \in E
  BY <1>2, <1>8, <1>9 DEF EventOK
<1>14. x = "client" /\ backend = "accepted" => e4 \in E
  BY <1>2, <1>8, <1>9 DEF EventOK
<1>15. p1 \in Seq(E) /\ p2 \in Seq(E) /\ p3 \in Seq(E) /\ p4 \in Seq(E)
  <2>1. ASSUME NEW S, NEW e \in S PROVE <<e>> \in Seq(S) /\ <<>> \in Seq(S)
    OBVIOUS
  <2>2. <<>> \in Seq(E)
    OBVIOUS
  <2>3. \A e \in E : <<e>> \in Seq(E)
    BY <2>1
  <2> QED BY <2>2, <2>3, <1>6, <1>11, <1>12, <1>13, <1>14
<1>16. ((p1 \o p2) \o p3) \o p4 \in Seq(E)
  <2>1. ASSUME NEW S, NEW a \in Seq(S), NEW b \in Seq(S) PROVE a \o b \in Seq(S)
    OBVIOUS
  <2>2. p1 \o p2 \in Seq(E)
    BY <2>1, <1>15
  <2>3. (p1 \o p2) \o p3 \in Seq(E)
    BY <2>1, <2>2, <1>15
  <2> QED BY <2>1, <2>3, <1>15
<1> QED BY <1>7, <1>8, <1>16

\* What poll() returns, in either order of the two sides.
LEMMA PollReports ==
  ASSUME TunnelTypes, Life(relay, Waiting, backend), NEW x \in Sides, NEW a,
         a = Events(x) \o Events(Other(x))
  PROVE  a \in Seq(EventType) /\ Reported(a, relay, backend, rcv, peer)
<1>0. PICK o \in Sides : o = Other(x) /\ o # x
  BY Others
<1>1. PICK p, r : p = Events(x) /\ r = Events(o)
  OBVIOUS
<1>2. /\ Among(p, x, {"IN", "HUP", "OUT", "connect"}) /\ AllApart(p)
      /\ Among(r, o, {"IN", "HUP", "OUT", "connect"}) /\ AllApart(r)
  BY <1>1, EventsOf
<1>3. p \in Seq(EventType) /\ r \in Seq(EventType)
  BY <1>2 DEF Among
<1>4. \A i \in DOMAIN p, j \in DOMAIN r : Apart(p[i], r[j])
  BY <1>0, <1>2 DEF Among, Apart
<1>5. p \o r \in Seq(EventType) /\ AllApart(p \o r)
  BY <1>2, <1>3, <1>4, JoinEvents
<1>6. PICK E : E = {e \in EventType : EventOK(e, relay, backend, rcv, peer)}
  OBVIOUS
<1>7. p \in Seq(E) /\ r \in Seq(E)
  BY <1>1, <1>6, EventsOK
<1>8. \A i \in DOMAIN (p \o r) : (p \o r)[i] \in E
  <2>1. ASSUME NEW S, NEW b \in Seq(S), NEW c \in Seq(S)
        PROVE  \A i \in DOMAIN (b \o c) : (b \o c)[i] \in S
    OBVIOUS
  <2> QED BY <2>1, <1>7
<1>9. \A i \in DOMAIN a : EventOK(a[i], relay, backend, rcv, peer)
  BY <1>0, <1>1, <1>6, <1>8
<1> QED BY <1>0, <1>1, <1>5, <1>9 DEF Reported

\* The accepted connection satisfies the invariant.
LEMMA InitInv == Init => TunnelInv
<1> SUFFICES ASSUME Init PROVE TunnelInv
  OBVIOUS
<1> DEFINE new == NewConn("kConnected", mode = "socks4a")
           old == NewConn("none", FALSE)
           s == [conn |-> [x \in Sides |-> IF x = "server" THEN new ELSE old],
                 context_ |-> FALSE, clientConn_ |-> FALSE, connection_ |-> FALSE,
                 callbacks |-> FALSE, tunnels |-> FALSE, 
                 freed |-> FALSE, pending |-> <<>>, fault |-> "none"]
<1>1. PICK a \in ConnType, c \in ConnType :
        a = relay.conn["server"] /\ c = relay.conn["client"]
  BY AcceptedType, RelayFields, TwoSides DEF Init
<1>2. relay = IF mode = "tcprelay" THEN Setup(s) ELSE s
  BY DEF Init, Accepted
<1>3. c = old /\ a = IF mode = "tcprelay" THEN [new EXCEPT !.highWaterMarkCallback_ = TRUE] ELSE new
  BY <1>1, <1>2 DEF Setup, Sides
<1>4. /\ relay.context_ = FALSE /\ relay.clientConn_ = FALSE /\ relay.connection_ = FALSE
      /\ relay.callbacks <=> mode = "tcprelay"
      /\ relay.tunnels <=> mode = "tcprelay"
      /\ relay.pending = <<>> /\ relay.fault = "none"
  BY <1>2 DEF Setup
<1> HIDE DEF s
<1>5. /\ a.state_ = "kConnected" /\ a.outputBuffer_ = <<>> /\ a.written = <<>>
      /\ a.isReading <=> mode = "socks4a"
      /\ ~a.writeCompleteCallback_
      /\ a.highWaterMarkCallback_ <=> mode = "tcprelay"
      /\ c.state_ = "none" /\ c = NewConn("none", FALSE) /\ ~c.writeCompleteCallback_
      /\ c.outputBuffer_ = <<>> /\ ~c.isReading
  BY <1>3 DEF NewConn
<1>6. script \in Seq(Units)
  <2>1. kFixed \in Nat /\ kMaxRequest \in Nat
    BY TunnelAssumption
  <2>2. ASSUME NEW n \in Nat, NEW u \in Units PROVE [i \in 1..n |-> u] \in Seq(Units)
    OBVIOUS
  <2>3. \A k \in Units : Fixed(k) \in Seq(Units)
    BY <2>1, <2>2 DEF Fixed
  <2>4. [i \in 1..kMaxRequest |-> "u"] \in Seq(Units)
    BY <2>1, <2>2 DEF Units
  <2>5. <<>> \in Seq(Units) /\ <<"0">> \in Seq(Units) /\ <<"0", "h", "0">> \in Seq(Units)
    BY DEF Units
  <2>6. "v4" \in Units /\ "v4a" \in Units /\ "v4n" \in Units /\ "bad" \in Units
    BY DEF Units
  <2>7. \A r \in Requests : r \in Seq(Units)
    <3>1. PICK f1, f2, f3, f4 : /\ f1 = Fixed("v4") /\ f2 = Fixed("v4a")
                                /\ f3 = Fixed("v4n") /\ f4 = Fixed("bad")
      OBVIOUS
    <3>2. PICK one, name, long : /\ one = <<"0">> /\ name = <<"0", "h", "0">>
                                 /\ long = [i \in 1..kMaxRequest |-> "u"]
      OBVIOUS
    <3>3. /\ f1 \in Seq(Units) /\ f2 \in Seq(Units) /\ f3 \in Seq(Units) /\ f4 \in Seq(Units)
          /\ one \in Seq(Units) /\ name \in Seq(Units) /\ long \in Seq(Units)
      BY <3>1, <3>2, <2>3, <2>4, <2>5, <2>6
    <3>4. /\ f1 \o one \in Seq(Units) /\ f2 \o name \in Seq(Units) /\ f3 \o name \in Seq(Units)
          /\ f4 \o one \in Seq(Units) /\ f1 \o long \in Seq(Units)
      BY <3>3, JoinLen
    <3>5. Requests = {f1 \o one, f2 \o name, f3 \o name, f4 \o one, f1 \o long}
      BY <3>1, <3>2 DEF Requests
    <3> QED BY <3>4, <3>5
  <2> QED BY <2>5, <2>7 DEF Init
<1>7. TunnelTypes
  <2>1. relay \in RelayType
    BY AcceptedType DEF Init
  <2>2. <<>> \in Seq(Units) /\ <<>> \in Seq(EventType) /\ <<>> \in Seq(FunctorType)
    BY EmptySeq
  <2> QED BY <2>1, <2>2, <1>6 DEF Init, TunnelTypes, Peers, Backends
<1>8. Phases
  BY <1>4 DEF Init, Phases
<1>9. Waiting = <<>> /\ phase = "poll" /\ active = <<>>
  BY <1>4 DEF Init, Waiting
<1>10. \A on, x : ~In(Waiting, on, x) /\ ~In(active, on, x)
  BY <1>9, InEmpty
<1>11. backend = IF mode = "tcprelay" THEN "connecting" ELSE "none"
  BY DEF Init
<1>12. ~Up(c) /\ Up(a)
  BY <1>5 DEF Up
<1>13. Life(relay, Waiting, backend)
  BY <1>1, <1>4, <1>5, <1>10, <1>11, <1>12 DEF Life
<1>14. Registered(relay, Waiting, backend, mode)
  <2>1. Len(a.outputBuffer_) <= 1
    BY <1>5
  <2> QED BY <2>1, <1>1, <1>4, <1>5, <1>10, <1>11, <1>12 DEF Registered, Init
<1>15. Pairing(relay, Waiting, phase) /\ Flow(relay, Waiting)
  <2>1. ASSUME NEW x \in Sides
        PROVE  SideOK(relay.conn[x], relay.conn[Other(x)], In(Waiting, "onHighWaterMark", x),
                      In(Waiting, "onWriteComplete", x), phase)
    BY <1>1, <1>5, <1>10, TwoSides DEF SideOK
  <2>2. ASSUME NEW x \in Sides
        PROVE  FlowOK(relay.conn[x], relay.conn[Other(x)], In(Waiting, "onHighWaterMark", x),
                      In(Waiting, "onWriteComplete", x))
    BY <1>1, <1>5, <1>10, TwoSides DEF FlowOK
  <2> QED BY <2>1, <2>2 DEF Pairing, Flow
<1>16. Control(relay, Waiting, phase, backend, mode)
  BY <1>13, <1>14, <1>15 DEF Control
<1>17. Reported(active, relay, backend, rcv, peer)
  BY <1>9 DEF Reported, AllApart
<1>18. Ended(relay, rcv, peer)
  BY <1>1, <1>5, TwoSides DEF Ended, Init
<1>19. RelayDown(relay, Waiting, active, backend, mode, peer)
  BY <1>1, <1>5, <1>10 DEF RelayDown
<1>20. Causes(relay, mode, peer)
  BY <1>4 DEF Causes
<1> QED BY <1>7, <1>8, <1>16, <1>17, <1>18, <1>19, <1>20 DEF TunnelInv
------------------------------------------------------------------------------
(* The events.                                                              *)

\* What is known when an event is handled.
LEMMA EventFacts ==
  ASSUME TunnelInv, NEW on, Event(on)
  PROVE  /\ relay \in RelayType /\ relay.fault = "none" /\ batch = <<>>
         /\ phase = "events" /\ phase' = "events"
         /\ Waiting = relay.pending /\ Waiting' = relay'.pending
         /\ active # <<>> /\ active \in Seq(EventType) /\ active' = Tail(active)
         /\ active[1] \in EventType /\ active[1].on = on /\ active[1].side \in Sides
         /\ EventOK(active[1], relay, backend, rcv, peer)
         /\ OneLess(active, Tail(active))
         /\ Control(relay, relay.pending, "events", backend, mode)
         /\ RelayDown(relay, relay.pending, active, backend, mode, peer)
<1>1. /\ relay.fault = "none" /\ phase = "events" /\ phase' = phase /\ active # <<>>
      /\ active[1].on = on /\ active' = Tail(active)
  BY DEF Event, InIteration, Running
<1>2. active \in Seq(EventType) /\ relay \in RelayType
  BY DEF TunnelInv, TunnelTypes
<1>3. batch = <<>>
  BY <1>1 DEF TunnelInv, Phases
<1>4. Waiting = relay.pending /\ Waiting' = relay'.pending
  BY <1>1 DEF Waiting
<1>5. active[1] \in EventType /\ 1 \in DOMAIN active
  BY <1>1, <1>2, TailEvents
<1>6. active[1].side \in Sides
  BY <1>5 DEF EventType
<1>7. EventOK(active[1], relay, backend, rcv, peer)
  BY <1>5 DEF TunnelInv, Reported
<1>8. OneLess(active, Tail(active))
  BY <1>1, <1>2, InTail
<1>9. /\ Control(relay, relay.pending, "events", backend, mode)
      /\ RelayDown(relay, relay.pending, active, backend, mode, peer)
  BY <1>1, <1>4 DEF TunnelInv
<1> QED BY <1>1, <1>2, <1>3, <1>4, <1>5, <1>6, <1>7, <1>8, <1>9

\* What has to be shown of a handler.
LEMMA EventKeeps ==
  ASSUME TunnelInv, NEW on, Event(on), relay' \in RelayType,
         rcv' \in [Sides -> Seq(Units)], backend' \in Backends,
         Control(relay', relay'.pending, "events", backend', mode),
         \A e \in EventType : EventOK(e, relay, backend, rcv, peer) /\ Apart(active[1], e)
                                => EventOK(e, relay', backend', rcv', peer),
         Ended(relay', rcv', peer),
         RelayDown(relay', relay'.pending, Tail(active), backend', mode, peer),
         Causes(relay', mode, peer)
  PROVE  TunnelInv'
<1>1. /\ phase = "events" /\ phase' = "events" /\ batch = <<>>
      /\ Waiting' = relay'.pending
      /\ active # <<>> /\ active \in Seq(EventType) /\ active' = Tail(active)
  BY EventFacts
<1>2. UNCHANGED <<mode, script, sent, peer, batch>>
  BY DEF Event
<1>3. TunnelTypes'
  <2>1. active' \in Seq(EventType)
    BY <1>1, TailEvents
  <2> QED BY <2>1, <1>1, <1>2 DEF TunnelInv, TunnelTypes
<1>4. Phases'
  BY <1>1, <1>2 DEF Phases
<1>5. Reported(active, relay, backend, rcv, peer)
  BY DEF TunnelInv
<1>6. Reported(Tail(active), relay', backend', rcv', peer)
  BY <1>1, <1>5, ReportedTail
<1>7. /\ Control(relay', Waiting', phase', backend', mode')
      /\ Reported(active', relay', backend', rcv', peer')
      /\ Ended(relay', rcv', peer')
      /\ RelayDown(relay', Waiting', active', backend', mode', peer')
      /\ Causes(relay', mode', peer')
  BY <1>1, <1>2, <1>6
<1> QED BY <1>3, <1>4, <1>7 DEF TunnelInv

\* Nothing but the event's own end: handleError(), or a write that did nothing.
LEMMA EventOnly ==
  ASSUME TunnelInv, NEW on, Event(on), UNCHANGED <<rcv, backend, relay>>
  PROVE  TunnelInv'
<1>1. /\ Control(relay, relay.pending, "events", backend, mode)
      /\ RelayDown(relay, relay.pending, active, backend, mode, peer)
      /\ OneLess(active, Tail(active))
  BY EventFacts
<1>2. RelayDown(relay, relay.pending, Tail(active), backend, mode, peer)
  BY <1>1 DEF RelayDown, OneLess
<1>3. /\ relay \in RelayType /\ rcv \in [Sides -> Seq(Units)] /\ backend \in Backends
      /\ Ended(relay, rcv, peer) /\ Causes(relay, mode, peer)
  BY DEF TunnelInv, TunnelTypes
<1> QED BY <1>1, <1>2, <1>3, EventKeeps

\* handleWrite() keeps the invariant.
LEMMA WriteInv ==
  ASSUME TunnelInv, HandleWrite
  PROVE  TunnelInv'
<1>0. Event("OUT") /\ UNCHANGED <<rcv, backend>>
  BY DEF HandleWrite
<1>1. /\ relay \in RelayType /\ relay.fault = "none"
      /\ OneLess(active, Tail(active))
      /\ Control(relay, relay.pending, "events", backend, mode)
      /\ RelayDown(relay, relay.pending, active, backend, mode, peer)
  BY <1>0, EventFacts
<1>2. PICK x \in Sides : x = active[1].side
  BY <1>0, EventFacts
<1>3. PICK c \in ConnType : c = relay.conn[x]
  BY <1>1, RelayFields
<1>4. CASE UNCHANGED relay
  BY <1>0, <1>4, EventOnly
<1>5. ASSUME NEW k \in 1..Len(c.outputBuffer_), relay' = Written(relay, x, k), Up(c)
      PROVE  TunnelInv'
  <2>1. Wrote(relay, relay', x, k)
    BY <1>1, <1>3, <1>5, WriteEffect
  <2>2. Control(relay', relay'.pending, "events", backend, mode)
    BY <2>1, <1>1, <1>3, <1>5, ControlWrote
  <2>3. PICK o \in Sides : o = Other(x) /\ o # x
    BY Others
  <2>4. PICK d : d = relay'.conn[x]
    OBVIOUS
  <2>5. /\ relay' \in RelayType /\ SameFlags(relay, relay') /\ relay'.conn[o] = relay.conn[o]
        /\ d.state_ = c.state_ /\ d.isReading = c.isReading
        /\ d.writeCompleteCallback_ = c.writeCompleteCallback_
        /\ relay'.pending = relay.pending
           \/ (c.writeCompleteCallback_
               /\ relay'.pending = Append(relay.pending, Functor("onWriteComplete", x)))
    BY <2>1, <2>3, <2>4, <1>3 DEF Wrote
  <2>6. \A z \in Sides : /\ relay'.conn[z].state_ = relay.conn[z].state_
                         /\ relay'.conn[z].isReading = relay.conn[z].isReading
                         /\ relay'.conn[z].writeCompleteCallback_
                              = relay.conn[z].writeCompleteCallback_
    BY <2>3, <2>4, <2>5, <1>3, TwoSides
  <2>7. \A on2, x2 : In(relay'.pending, on2, x2) =>
            \/ In(relay.pending, on2, x2)
            \/ (c.writeCompleteCallback_ /\ on2 = "onWriteComplete" /\ x2 = x)
    <3>1. CASE relay'.pending = relay.pending
      BY <3>1
    <3>2. CASE /\ c.writeCompleteCallback_
               /\ relay'.pending = Append(relay.pending, Functor("onWriteComplete", x))
      <4>1. OneMore(relay.pending, relay'.pending, "onWriteComplete", x)
        BY <3>2, <1>1, RelayFields, InAppend
      <4> QED BY <3>2, <4>1 DEF OneMore
    <3> QED BY <3>1, <3>2, <2>5
  <2>8. Ended(relay', rcv, peer)
    BY <2>6 DEF TunnelInv, Ended
  <2>9. Causes(relay', mode, peer)
    BY <2>5, <1>1 DEF Causes, SameFlags
  <2>10. RelayDown(relay', relay'.pending, Tail(active), backend, mode, peer)
    <3>1. \A on2, x2 : In(Tail(active), on2, x2) => In(active, on2, x2)
      BY <1>1 DEF OneLess
    <3>2. /\ In(relay'.pending, "onHighWaterMark", "client")
               => In(relay.pending, "onHighWaterMark", "client")
          /\ In(relay'.pending, "onWriteComplete", "client")
               => In(relay.pending, "onWriteComplete", "client")
                  \/ relay.conn["client"].writeCompleteCallback_
      BY <2>7, <1>3
    <3>3. /\ relay'.conn["server"].state_ = relay.conn["server"].state_
          /\ relay'.conn["server"].isReading = relay.conn["server"].isReading
          /\ relay'.conn["client"].writeCompleteCallback_
               = relay.conn["client"].writeCompleteCallback_
      BY <2>6, TwoSides
    <3> QED BY <3>1, <3>2, <3>3, <1>1 DEF RelayDown
  <2>11. ASSUME NEW e \in EventType, EventOK(e, relay, backend, rcv, peer)
         PROVE  EventOK(e, relay', backend, rcv, peer)
    <3>1. e.side \in Sides
      BY DEF EventType
    <3>2. Up(relay'.conn["client"]) <=> Up(relay.conn["client"])
      BY <2>6, TwoSides DEF Up
    <3> QED BY <3>1, <3>2, <2>6, <2>11 DEF EventOK
  <2>12. rcv \in [Sides -> Seq(Units)] /\ backend \in Backends
    BY DEF TunnelInv, TunnelTypes
  <2> QED BY <1>0, <2>2, <2>5, <2>8, <2>9, <2>10, <2>11, <2>12, EventKeeps
<1>6. CASE /\ IsWriting(c)
           /\ \E k \in {n \in Room(x) : n > 0 /\ n <= Len(c.outputBuffer_)} :
                relay' = Written(relay, x, k)
  <2>1. PICK k \in Room(x) : k > 0 /\ k <= Len(c.outputBuffer_) /\ relay' = Written(relay, x, k)
    BY <1>6
  <2>2. k \in Nat /\ Len(c.outputBuffer_) \in Nat
    BY <2>1, TunnelAssumption, EmptyLen DEF Room, ConnType
  <2>3. k \in 1..Len(c.outputBuffer_)
    BY <2>1, <2>2
  <2> QED BY <2>1, <2>3, <1>5, <1>6 DEF IsWriting
<1> QED BY <1>2, <1>3, <1>4, <1>6 DEF HandleWrite, Written

\* handleClose() of either connection.
LEMMA CloseInv ==
  ASSUME TunnelInv, NEW on \in {"IN", "HUP"}, Event(on), NEW x \in Sides, x = active[1].side,
         relay' = HandleClose(relay, x), UNCHANGED <<rcv, backend>>,
         rcv[x] = <<>> /\ peer[x] # "open"
  PROVE  TunnelInv'
<1>1. /\ relay \in RelayType /\ relay.fault = "none"
      /\ active # <<>> /\ active \in Seq(EventType) /\ active[1].on = on
      /\ EventOK(active[1], relay, backend, rcv, peer)
      /\ OneLess(active, Tail(active))
      /\ Control(relay, relay.pending, "events", backend, mode)
      /\ RelayDown(relay, relay.pending, active, backend, mode, peer)
  BY EventFacts
<1>2. rcv \in [Sides -> Seq(Units)] /\ backend \in Backends
  BY DEF TunnelInv, TunnelTypes
<1>3. PICK a \in ConnType, c \in ConnType :
        a = relay.conn["server"] /\ c = relay.conn["client"]
  BY <1>1, RelayFields, TwoSides
<1>4. Life(relay, relay.pending, backend) /\ Registered(relay, relay.pending, backend, mode)
  BY <1>1, ControlParts
<1>5. \A on2, x2 : In(Tail(active), on2, x2) => In(active, on2, x2)
  BY <1>1 DEF OneLess
<1>6. Ended(relay, rcv, peer)
  BY DEF TunnelInv
<1>7. In(active, on, x)
  BY <1>1, InTail
<1>8. \A z \in {"IN", "HUP"} : ~In(Tail(active), z, x)
  <2>1. SUFFICES ASSUME NEW z \in {"IN", "HUP"}, NEW i \in DOMAIN Tail(active),
                        Tail(active)[i].on = z /\ Tail(active)[i].side = x
                 PROVE  FALSE
    BY DEF In
  <2>2. /\ i + 1 \in DOMAIN active /\ i + 1 # 1 /\ Tail(active)[i] = active[i + 1]
        /\ 1 \in DOMAIN active
    BY <1>1, TailEvents
  <2>3. Apart(active[1], active[i + 1])
    BY <2>2 DEF TunnelInv, Reported, AllApart
  <2> QED BY <2>1, <2>2, <2>3, <1>1 DEF Apart
<1>9. CASE x = "server" /\ Up(a)
  <2>1. mode = "tcprelay" => relay.tunnels
    BY <1>3, <1>4, <1>9 DEF Registered
  <2>2. ServerClosed(relay, relay')
    BY <2>1, <1>1, <1>3, <1>9, ServerCloseEffect
  <2>3. Control(relay', relay'.pending, "events", backend, mode)
    BY <2>2, <1>1, <1>3, <1>9, ControlServerClosed
  <2>4. PICK b, d : b = relay'.conn["server"] /\ d = relay'.conn["client"]
    OBVIOUS
  <2>5. /\ relay' \in RelayType /\ relay'.fault = "none"
        /\ b.state_ = "kDisconnected" /\ ~b.isReading
    BY <2>2, <2>4, <1>1 DEF ServerClosed, Closed
  <2>6. /\ d.isReading = c.isReading /\ d.writeCompleteCallback_ = c.writeCompleteCallback_
        /\ d.state_ = c.state_ \/ (c.state_ = "kConnected" /\ d.state_ = "kDisconnecting")
    BY <2>2, <2>4, <1>3 DEF ServerClosed, ShutConn
  <2>7. Up(d) <=> Up(c)
    BY <2>6 DEF Up
  <2>8. \A z \in {"onHighWaterMark", "onWriteComplete"} :
          In(relay'.pending, z, "client") => In(relay.pending, z, "client")
    <3>1. OneMore(relay.pending, relay'.pending, "connectionDestroyed", "server")
      BY <2>2, <1>1, RelayFields, InAppend DEF ServerClosed
    <3> QED BY <3>1 DEF OneMore
  <2>9. Ended(relay', rcv, peer)
    <3>1. ASSUME NEW z \in Sides
          PROVE  relay'.conn[z].state_ = "kDisconnected" => rcv[z] = <<>> /\ peer[z] # "open"
      <4>1. CASE z = "server"
        BY <4>1, <1>9
      <4>2. CASE z = "client"
        BY <4>2, <2>4, <2>6, <1>3, <1>6 DEF Ended
      <4> QED BY <4>1, <4>2, TwoSides
    <3> QED BY <3>1, <1>6 DEF Ended
  <2>10. Causes(relay', mode, peer)
    BY <2>5 DEF Causes
  <2>11. RelayDown(relay', relay'.pending, Tail(active), backend, mode, peer)
    <3>1. SUFFICES ASSUME mode = "tcprelay", peer["server"] # "reset"
                   PROVE  /\ backend = "done" /\ ~d.writeCompleteCallback_
                          /\ ~In(relay'.pending, "onHighWaterMark", "client")
                          /\ ~In(relay'.pending, "onWriteComplete", "client")
      <4>1. ~In(Tail(active), "IN", "server") /\ ~In(Tail(active), "HUP", "server")
        BY <1>8, <1>9
      <4> QED BY <4>1, <2>4, <2>5 DEF RelayDown
    <3>2. on = "IN" /\ a.isReading
      BY <3>1, <1>1, <1>3, <1>9 DEF EventOK
    <3>3. backend = "done" /\ ~In(relay.pending, "onHighWaterMark", "client")
      BY <3>1, <3>2, <1>1, <1>3, <1>7, <1>9 DEF RelayDown
    <3>4. SideOK(c, a, In(relay.pending, "onHighWaterMark", "client"),
                 In(relay.pending, "onWriteComplete", "client"), "events")
      BY <1>1, <1>3, ControlParts
    <3>5. ~c.writeCompleteCallback_ /\ ~In(relay.pending, "onWriteComplete", "client")
      BY <3>2, <3>4 DEF SideOK
    <3> QED BY <3>3, <3>5, <2>6, <2>8
  <2>12. ASSUME NEW e \in EventType, EventOK(e, relay, backend, rcv, peer), Apart(active[1], e)
         PROVE  EventOK(e, relay', backend, rcv, peer)
    <3>1. e.side \in Sides
      BY DEF EventType
    <3>2. e.on = "IN" => e.side = "client"
      BY <3>1, <2>12, <1>1, <1>9, TwoSides DEF Apart
    <3> QED BY <3>1, <3>2, <2>4, <2>6, <2>7, <2>12, <1>3 DEF EventOK
  <2> QED BY <2>3, <2>5, <2>9, <2>10, <2>11, <2>12, <1>2, EventKeeps
<1>10. CASE x = "server" /\ ~Up(a)
  <2>1. Faulted(relay, relay', "assert")
    BY <1>1, <1>3, <1>10, FaultEffect DEF HandleClose
  <2>2. a.state_ = "kDisconnected"
    <3>1. a.state_ # "none"
      BY <1>3, <1>4 DEF Life
    <3> QED BY <3>1, <1>10 DEF Up, ConnType, States
  <2>3. /\ relay' \in RelayType /\ relay'.conn = relay.conn /\ relay'.pending = relay.pending
        /\ relay'.fault = "assert"
        /\ relay'.context_ = relay.context_ /\ relay'.clientConn_ = relay.clientConn_
        /\ relay'.connection_ = relay.connection_ /\ relay'.callbacks = relay.callbacks
        /\ relay'.tunnels = relay.tunnels
    BY <2>1 DEF Faulted
  <2>4. Control(relay', relay'.pending, "events", backend, mode)
    BY <2>3, <1>1, ControlRephased
  <2>5. Ended(relay', rcv, peer)
    BY <2>3, <1>6 DEF Ended
  <2>6. Causes(relay', mode, peer)
    <3>1. mode = "tcprelay" => peer["server"] = "reset"
      BY <2>2, <1>1, <1>3, <1>7, <1>10 DEF RelayDown
    <3> QED BY <3>1, <2>2, <2>3, <1>3 DEF Causes
  <2>7. RelayDown(relay', relay'.pending, Tail(active), backend, mode, peer)
    BY <2>3, <1>1, <1>5 DEF RelayDown
  <2>8. \A e : EventOK(e, relay, backend, rcv, peer) => EventOK(e, relay', backend, rcv, peer)
    BY <2>3 DEF EventOK
  <2> QED BY <2>3, <2>4, <2>5, <2>6, <2>7, <2>8, <1>2, EventKeeps
<1>11. CASE x = "client"
  <2>1. Up(c)
    BY <1>1, <1>3, <1>11 DEF EventOK
  <2>2. ClientClosed(relay, relay')
    BY <2>1, <1>1, <1>3, <1>11, ClientCloseEffect
  <2>3. Control(relay', relay'.pending, "events", backend, mode)
    BY <2>1, <2>2, <1>1, <1>3, ControlClientClosed
  <2>4. PICK b, d : b = relay'.conn["server"] /\ d = relay'.conn["client"]
    OBVIOUS
  <2>5. /\ relay' \in RelayType /\ relay'.fault = "none"
        /\ d.writeCompleteCallback_ = c.writeCompleteCallback_
    BY <2>2, <2>4, <1>1, <1>3 DEF ClientClosed, Closed
  <2>6. /\ b.isReading = a.isReading
        /\ b.state_ = a.state_ \/ (a.state_ = "kConnected" /\ b.state_ = "kDisconnecting")
    BY <2>2, <2>4, <1>3 DEF ClientClosed, ShutConn
  <2>8. \A z \in {"onHighWaterMark", "onWriteComplete"} :
          In(relay'.pending, z, "client") => In(relay.pending, z, "client")
    <3>1. OneMore(relay.pending, relay'.pending, "connectionDestroyed", "client")
      BY <2>2, <1>1, RelayFields, InAppend DEF ClientClosed
    <3> QED BY <3>1 DEF OneMore
  <2>9. Ended(relay', rcv, peer)
    <3>1. ASSUME NEW z \in Sides
          PROVE  relay'.conn[z].state_ = "kDisconnected" => rcv[z] = <<>> /\ peer[z] # "open"
      <4>1. CASE z = "client"
        BY <4>1, <1>11
      <4>2. CASE z = "server"
        BY <4>2, <2>4, <2>6, <1>3, <1>6 DEF Ended
      <4> QED BY <4>1, <4>2, TwoSides
    <3> QED BY <3>1, <1>6 DEF Ended
  <2>10. Causes(relay', mode, peer)
    BY <2>5 DEF Causes
  <2>11. RelayDown(relay', relay'.pending, Tail(active), backend, mode, peer)
    BY <2>4, <2>5, <2>6, <2>8, <1>1, <1>3, <1>5 DEF RelayDown
  <2>12. ASSUME NEW e \in EventType, EventOK(e, relay, backend, rcv, peer), Apart(active[1], e)
         PROVE  EventOK(e, relay', backend, rcv, peer)
    <3>1. e.side \in Sides
      BY DEF EventType
    <3>2. e.on \in {"IN", "HUP"} => e.side = "server"
      BY <3>1, <2>12, <1>1, <1>11, TwoSides DEF Apart
    <3> QED BY <3>1, <3>2, <2>4, <2>6, <2>12, <1>3, TwoSides DEF EventOK
  <2> QED BY <2>3, <2>5, <2>9, <2>10, <2>11, <2>12, <1>2, EventKeeps
<1> QED BY <1>9, <1>10, <1>11, TwoSides

\* The end of a stream, or a reset, keeps the invariant.
LEMMA ReadEndInv ==
  ASSUME TunnelInv, HandleReadEnd \/ HandleHup
  PROVE  TunnelInv'
<1>1. CASE HandleReadEnd
  <2>0. Event("IN")
    BY <1>1 DEF HandleReadEnd
  <2>1. PICK x \in Sides : x = active[1].side
    BY <2>0, EventFacts
  <2>2. rcv[x] = <<>> /\ relay' = HandleClose(relay, x) /\ UNCHANGED <<rcv, backend>>
    BY <1>1, <2>1 DEF HandleReadEnd
  <2>3. EventOK(active[1], relay, backend, rcv, peer) /\ active[1].on = "IN"
    BY <2>0, EventFacts
  <2>4. peer[x] # "open"
    BY <2>1, <2>2, <2>3 DEF EventOK
  <2> QED BY <2>0, <2>1, <2>2, <2>4, CloseInv
<1>2. CASE HandleHup
  <2>0. Event("HUP")
    BY <1>2 DEF HandleHup
  <2>1. PICK x \in Sides : x = active[1].side
    BY <2>0, EventFacts
  <2>2. relay' = HandleClose(relay, x) /\ UNCHANGED <<rcv, backend>>
    BY <1>2, <2>1 DEF HandleHup
  <2>3. EventOK(active[1], relay, backend, rcv, peer) /\ active[1].on = "HUP"
    BY <2>0, EventFacts
  <2>4. peer[x] = "reset"
    BY <2>1, <2>3 DEF EventOK
  <2>5. rcv[x] = <<>> /\ peer[x] # "open"
    BY <2>4 DEF TunnelInv, Ended
  <2> QED BY <2>0, <2>1, <2>2, <2>5, CloseInv
<1> QED BY <1>1, <1>2

\* What has arrived is read and the message callback called.
Read(x, s, y, t, data, r, r2, m) ==
  /\ Received(s, y, x, data) /\ data \in Seq(Units) /\ data # <<>>
  /\ r2 \in [Sides -> Seq(Units)]
  /\ data \o r2[x] = r[x] /\ r2[Other(x)] = r[Other(x)]
  /\ IF x = "server" /\ m = "socks4a" /\ ~s.tunnels THEN Requested(y, t)
     ELSE IF y.conn[Other(x)].state_ = "kConnected" /\ (x = "server" => y.context_)
       THEN Forwarded(y, t, Other(x))
     ELSE t = y

\* ::write() takes a number of units.
LEMMA RoomType ==
  ASSUME NEW x, NEW n \in Room(x)
  PROVE  n \in Nat
BY TunnelAssumption DEF Room

\* handleRead() with the message callback of either side.
LEMMA ReadEffect ==
  ASSUME TunnelInv, HandleRead
  PROVE  \E y, data : Read(active[1].side, relay, y, relay', data, rcv, rcv', mode)
<1>0. Event("IN")
  BY DEF HandleRead
<1>1. PICK x \in Sides : x = active[1].side
  BY <1>0, EventFacts
<1>2. relay \in RelayType
  BY <1>0, EventFacts
<1>3. PICK k \in 1..Len(rcv[x]), n \in Room(Target(x)) :
        /\ relay' = OnMessage([relay EXCEPT !.conn[x].inputBuffer_ =
                                 @ \o SubSeq(rcv[x], 1, k)], x, n)
        /\ rcv' = [rcv EXCEPT ![x] = SubSeq(rcv[x], k + 1, Len(rcv[x]))]
  <2>1. rcv \in [Sides -> Seq(Units)]
    BY DEF TunnelInv, TunnelTypes
  <2> QED BY <2>1, <1>1 DEF HandleRead
<1>4. n \in Nat
  BY <1>3, RoomType
<1>5. PICK data, rest : data = SubSeq(rcv[x], 1, k) /\ rest = SubSeq(rcv[x], k + 1, Len(rcv[x]))
  OBVIOUS
<1>6. rcv[x] \in Seq(Units) /\ rcv \in [Sides -> Seq(Units)]
  BY DEF TunnelInv, TunnelTypes
<1>7. IsParted(rcv[x], k, data, rest)
  BY <1>5, <1>6, Parts
<1>8. /\ data \in Seq(Units) /\ rest \in Seq(Units) /\ data \o rest = rcv[x] /\ Len(data) = k
  BY <1>7 DEF IsParted
<1>9. data # <<>>
  BY <1>8, EmptyLen
<1>10. /\ rcv' \in [Sides -> Seq(Units)] /\ rcv'[x] = rest /\ rcv'[Other(x)] = rcv[Other(x)]
  BY <1>3, <1>5, <1>6, <1>8, Others
<1>11. PICK y : y = [relay EXCEPT !.conn[x].inputBuffer_ = @ \o data]
  OBVIOUS
<1>12. Received(relay, y, x, data)
  BY <1>2, <1>8, <1>11, ReceiveEffect
<1>13. y \in RelayType /\ y.tunnels = relay.tunnels
  BY <1>12 DEF Received, SameFlags
<1>14. relay' = OnMessage(y, x, n)
  BY <1>3, <1>5, <1>11
<1>15. IF x = "server" /\ mode = "socks4a" /\ ~relay.tunnels THEN Requested(y, relay')
       ELSE IF y.conn[Other(x)].state_ = "kConnected" /\ (x = "server" => y.context_)
         THEN Forwarded(y, relay', Other(x))
       ELSE relay' = y
  <2>1. CASE x = "server" /\ mode = "socks4a" /\ ~relay.tunnels
    <3>1. relay' = OnRequest(y, y.conn["server"].inputBuffer_, n)
      BY <2>1, <1>13, <1>14 DEF OnMessage, OnServerMessage
    <3> QED BY <2>1, <3>1, <1>4, <1>13, RequestEffect
  <2>2. CASE x = "server" /\ ~(mode = "socks4a" /\ ~relay.tunnels)
    <3>1. relay' = IF y.context_ THEN SendBuffer(y, "client", n) ELSE y
      BY <2>2, <1>13, <1>14 DEF OnMessage, OnServerMessage
    <3>2. IF y.conn["client"].state_ = "kConnected"
            THEN Forwarded(y, SendBuffer(y, "client", n), "client")
            ELSE SendBuffer(y, "client", n) = y
      BY <1>4, <1>13, SendBufferEffect, TwoSides
    <3> QED BY <2>2, <3>1, <3>2, TwoSides
  <2>3. CASE x = "client"
    <3>1. relay' = SendBuffer(y, "server", n)
      BY <2>3, <1>14, TwoSides DEF OnMessage
    <3>2. IF y.conn["server"].state_ = "kConnected"
            THEN Forwarded(y, SendBuffer(y, "server", n), "server")
            ELSE SendBuffer(y, "server", n) = y
      BY <1>4, <1>13, SendBufferEffect, TwoSides
    <3> QED BY <2>3, <3>1, <3>2, TwoSides
  <2> QED BY <2>1, <2>2, <2>3, TwoSides
<1>16. Read(x, relay, y, relay', data, rcv, rcv', mode)
  BY <1>8, <1>9, <1>10, <1>12, <1>15 DEF Read
<1> QED BY <1>1, <1>16

\* What a message callback leaves alone: nobody starts or stops to read, no
\* connection goes down, and the only functor it may queue is onHighWaterMark
\* of the connection it has written to.
Kept(s, t, x) ==
  /\ t \in RelayType /\ t.fault = s.fault
  /\ \A z \in Sides :
       /\ t.conn[z].isReading = s.conn[z].isReading
       /\ t.conn[z].writeCompleteCallback_ = s.conn[z].writeCompleteCallback_
       /\ t.conn[z].state_ = "kDisconnected" <=> s.conn[z].state_ = "kDisconnected"
       /\ Up(t.conn[z]) <=> Up(s.conn[z])
  /\ \A on, z : In(t.pending, on, z) =>
       In(s.pending, on, z) \/ (on = "onHighWaterMark" /\ z = Other(x))

\* Reading changes none of it.
LEMMA ReceivedKept ==
  ASSUME NEW s \in RelayType, NEW x \in Sides, NEW y, NEW data, Received(s, y, x, data)
  PROVE  Kept(s, y, x)
<1>1. /\ y \in RelayType /\ y.fault = s.fault /\ y.pending = s.pending
      /\ SameControl(s.conn[x], y.conn[x]) /\ y.conn[Other(x)] = s.conn[Other(x)]
  BY DEF Received, SameFlags
<1>2. \A z \in Sides : SameControl(s.conn[z], y.conn[z])
  BY <1>1, TwoSides DEF SameControl
<1> QED BY <1>1, <1>2 DEF Kept, SameControl, Up

\* Passing a message on changes none of it.
LEMMA ForwardedKept ==
  ASSUME NEW s \in RelayType, NEW x \in Sides, NEW t, Forwarded(s, t, Other(x)),
         ~s.conn[Other(x)].writeCompleteCallback_
  PROVE  Kept(s, t, x)
<1>0. PICK o \in Sides : o = Other(x) /\ o # x /\ Other(o) = x
  BY Others
<1>1. /\ t \in RelayType /\ t.fault = s.fault
      /\ SameControl(s.conn[x], t.conn[x]) /\ SameControl(s.conn[o], t.conn[o])
      /\ Notified(s, t, o, Len(s.conn[o].outputBuffer_), Len(t.conn[o].outputBuffer_))
  BY <1>0 DEF Forwarded, Given, SameFlags
<1>2. \A z \in Sides : SameControl(s.conn[z], t.conn[z])
  BY <1>0, <1>1, TwoSides
<1>3. \A on, z : In(t.pending, on, z) =>
        In(s.pending, on, z) \/ (on = "onHighWaterMark" /\ z = o)
  <2>1. \/ t.pending = s.pending
        \/ t.pending = Append(s.pending, Functor("onHighWaterMark", o))
    BY <1>0, <1>1 DEF Notified
  <2>2. OneMore(s.pending, Append(s.pending, Functor("onHighWaterMark", o)),
                "onHighWaterMark", o)
    BY RelayFields, InAppend
  <2>3. CASE t.pending = s.pending
    BY <2>3
  <2>4. CASE t.pending = Append(s.pending, Functor("onHighWaterMark", o))
    BY <2>2, <2>4 DEF OneMore
  <2> QED BY <2>1, <2>3, <2>4
<1> QED BY <1>0, <1>1, <1>2, <1>3 DEF Kept, SameControl, Up

\* Neither does a request.
LEMMA RequestedKept ==
  ASSUME NEW s \in RelayType, NEW t, Requested(s, t), t.pending = s.pending
  PROVE  Kept(s, t, "server")
<1> DEFINE Same(p, r) == /\ r.isReading = p.isReading
                         /\ r.writeCompleteCallback_ = p.writeCompleteCallback_
                         /\ r.state_ = p.state_
                            \/ (p.state_ = "kConnected" /\ r.state_ = "kDisconnecting")
<1>1. \A p, r, z : Same(p, r) /\ Same(r, z) => Same(p, z)
  OBVIOUS
<1>2. \A p, r : Same(p, r) => /\ r.state_ = "kDisconnected" <=> p.state_ = "kDisconnected"
                              /\ Up(r) <=> Up(p)
  BY DEF Up
<1>3. PICK a : a = s.conn["server"]
  OBVIOUS
<1>4. SUFFICES /\ t \in RelayType /\ t.fault = s.fault
               /\ Same(a, t.conn["server"]) /\ t.conn["client"] = s.conn["client"]
  BY <1>2, <1>3, <1>4, TwoSides DEF Kept
<1>5. ASSUME NEW u, NEW v, ShutDown(u, v, "server")
      PROVE  /\ v \in RelayType /\ v.fault = u.fault
             /\ Same(u.conn["server"], v.conn["server"]) /\ v.conn["client"] = u.conn["client"]
  BY <1>5, TwoSides DEF ShutDown, ShutConn, SameFlags
<1>6. ASSUME NEW u, NEW v, NEW data, Sent(u, v, "server", data)
      PROVE  /\ v \in RelayType /\ v.fault = u.fault
             /\ Same(u.conn["server"], v.conn["server"]) /\ v.conn["client"] = u.conn["client"]
  BY <1>6, TwoSides DEF Sent, Given, SameControl, SameFlags
<1>7. ASSUME NEW v, NEW end, SetUp(s, v, end)
      PROVE  /\ v \in RelayType /\ v.fault = s.fault
             /\ Same(a, v.conn["server"]) /\ v.conn["client"] = s.conn["client"]
  BY <1>3, <1>7 DEF SetUp
<1> HIDE DEF Same
<1>8. CASE t = s
  BY <1>3, <1>8 DEF Same
<1>9. CASE ShutDown(s, t, "server")
  BY <1>3, <1>5, <1>9
<1>10. CASE \E u : /\ IF a.state_ = "kConnected" THEN Sent(s, u, "server", <<"x">>)
                      ELSE u = s
                   /\ ShutDown(u, t, "server")
  <2>1. PICK u : /\ IF a.state_ = "kConnected" THEN Sent(s, u, "server", <<"x">>)
                    ELSE u = s
                 /\ ShutDown(u, t, "server")
    BY <1>10
  <2>2. CASE u = s
    BY <2>1, <2>2, <1>9
  <2>3. CASE Sent(s, u, "server", <<"x">>)
    <3>1. /\ u.fault = s.fault /\ Same(a, u.conn["server"])
          /\ u.conn["client"] = s.conn["client"]
      BY <2>3, <1>3, <1>6
    <3>2. /\ t \in RelayType /\ t.fault = u.fault
          /\ Same(u.conn["server"], t.conn["server"]) /\ t.conn["client"] = u.conn["client"]
      BY <2>1, <1>5
    <3> QED BY <3>1, <3>2, <1>1
  <2> QED BY <2>1, <2>2, <2>3
<1>11. CASE Granted(s, t)
  <2>1. PICK y, end : /\ SetUp(s, y, end)
                      /\ IF a.state_ = "kConnected" THEN Sent(y, t, "server", <<"r">>)
                         ELSE t = y
    BY <1>3, <1>11 DEF Granted
  <2>2. /\ y \in RelayType /\ y.fault = s.fault
        /\ Same(a, y.conn["server"]) /\ y.conn["client"] = s.conn["client"]
    BY <2>1, <1>7
  <2>3. CASE t = y
    BY <2>2, <2>3
  <2>4. CASE Sent(y, t, "server", <<"r">>)
    <3>1. /\ t \in RelayType /\ t.fault = y.fault
          /\ Same(y.conn["server"], t.conn["server"]) /\ t.conn["client"] = y.conn["client"]
      BY <2>4, <1>6
    <3> QED BY <2>2, <3>1, <1>1
  <2> QED BY <2>1, <2>3, <2>4
<1> QED BY <1>3, <1>8, <1>9, <1>10, <1>11 DEF Requested

\* One after the other.
LEMMA KeptTwice ==
  ASSUME NEW s, NEW y, NEW t, NEW x, Kept(s, y, x), Kept(y, t, x)
  PROVE  Kept(s, t, x)
<1>1. t \in RelayType /\ t.fault = s.fault
  BY DEF Kept
<1>2. ASSUME NEW z \in Sides
      PROVE  /\ t.conn[z].isReading = s.conn[z].isReading
             /\ t.conn[z].writeCompleteCallback_ = s.conn[z].writeCompleteCallback_
             /\ t.conn[z].state_ = "kDisconnected" <=> s.conn[z].state_ = "kDisconnected"
             /\ Up(t.conn[z]) <=> Up(s.conn[z])
  <2>1. /\ y.conn[z].isReading = s.conn[z].isReading
        /\ y.conn[z].writeCompleteCallback_ = s.conn[z].writeCompleteCallback_
        /\ y.conn[z].state_ = "kDisconnected" <=> s.conn[z].state_ = "kDisconnected"
        /\ Up(y.conn[z]) <=> Up(s.conn[z])
    BY DEF Kept
  <2>2. /\ t.conn[z].isReading = y.conn[z].isReading
        /\ t.conn[z].writeCompleteCallback_ = y.conn[z].writeCompleteCallback_
        /\ t.conn[z].state_ = "kDisconnected" <=> y.conn[z].state_ = "kDisconnected"
        /\ Up(t.conn[z]) <=> Up(y.conn[z])
    BY DEF Kept
  <2> QED BY <2>1, <2>2
<1>3. \A on, z : In(t.pending, on, z) =>
        In(s.pending, on, z) \/ (on = "onHighWaterMark" /\ z = Other(x))
  BY DEF Kept
<1> QED BY <1>1, <1>2, <1>3 DEF Kept

\* The effect of a message callback, with what the invariant adds: a request
\* is looked at only before a backend is looked for, and what is passed on
\* goes to a side that is connected.
Passed(x, s, y, t, be, be2) ==
  /\ Control(y, y.pending, "events", be, mode) /\ y.tunnels = s.tunnels
  /\ \/ /\ x = "server" /\ mode = "socks4a" /\ be = "none" /\ ~s.tunnels /\ Requested(y, t)
        /\ be2 = IF t.tunnels THEN "connecting" ELSE "none"
     \/ /\ be = "done" /\ be2 = "done" /\ y.conn[Other(x)].state_ = "kConnected"
        /\ Forwarded(y, t, Other(x)) /\ t.tunnels = s.tunnels
     \/ /\ be2 = be /\ t = y /\ (be # "none" \/ s.tunnels)
        /\ ~(y.conn[Other(x)].state_ = "kConnected" /\ (x = "server" => y.context_))

\* What the invariant leaves of handleRead()'s cases.
LEMMA ReadPasses ==
  ASSUME TunnelInv, HandleRead, NEW x \in Sides, x = active[1].side,
         NEW y, NEW data, Read(x, relay, y, relay', data, rcv, rcv', mode)
  PROVE  Passed(x, relay, y, relay', backend, backend')
<1>0. Event("IN")
  BY DEF HandleRead
<1>1. /\ relay \in RelayType /\ active[1].on = "IN"
      /\ EventOK(active[1], relay, backend, rcv, peer)
      /\ Control(relay, relay.pending, "events", backend, mode)
  BY <1>0, EventFacts
<1>2. Received(relay, y, x, data) /\ data # <<>> /\ data \in Seq(Units)
      /\ data \o rcv'[x] = rcv[x] /\ rcv'[x] \in Seq(Units)
  BY DEF Read
<1>3. x = "client" => Up(relay.conn["client"])
  BY <1>1 DEF EventOK
<1>4. y \in RelayType /\ y.pending = relay.pending /\ y.tunnels = relay.tunnels
  BY <1>2 DEF Received, SameFlags
<1>5. Control(y, y.pending, "events", backend, mode)
  BY <1>1, <1>2, <1>3, <1>4, ControlReceived
<1>6. rcv[x] # <<>>
  <2>1. Len(data) > 0 /\ Len(data) \in Nat /\ Len(rcv'[x]) \in Nat
    BY <1>2, EmptyLen
  <2>2. Len(rcv[x]) = Len(data) + Len(rcv'[x])
    BY <1>2, JoinLen
  <2> QED BY <2>1, <2>2
<1>7. relay.conn[x].state_ # "kDisconnected"
  BY <1>6 DEF TunnelInv, Ended
<1>8. backend' = IF relay'.tunnels /\ ~relay.tunnels THEN "connecting" ELSE backend
  BY DEF HandleRead
<1>9. Life(relay, relay.pending, backend) /\ Registered(relay, relay.pending, backend, mode)
      /\ Life(y, y.pending, backend)
  BY <1>1, <1>5, ControlParts
<1>10. CASE x = "server" /\ mode = "socks4a" /\ ~relay.tunnels
  <2>1. Up(relay.conn["server"])
    <3>1. relay.conn["server"].state_ # "none"
      BY <1>9 DEF Life
    <3>2. relay.conn["server"].state_ \in States
      BY <1>1, RelayFields, TwoSides DEF ConnType
    <3> QED BY <3>1, <3>2, <1>7, <1>10 DEF Up, States
  <2>2. backend = "none"
    BY <2>1, <1>9, <1>10 DEF Registered
  <2>3. Requested(y, relay')
    BY <1>10 DEF Read
  <2> QED BY <2>2, <2>3, <1>4, <1>5, <1>8, <1>10 DEF Passed
<1>11. CASE /\ ~(x = "server" /\ mode = "socks4a" /\ ~relay.tunnels)
            /\ y.conn[Other(x)].state_ = "kConnected" /\ (x = "server" => y.context_)
  <2>1. Forwarded(y, relay', Other(x))
    BY <1>11 DEF Read
  <2>2. relay'.tunnels = relay.tunnels
    BY <2>1, <1>4 DEF Forwarded, SameFlags
  <2>3. backend = "done"
    <3>1. CASE x = "server"
      BY <3>1, <1>9, <1>11, TwoSides DEF Life
    <3>2. CASE x = "client"
      BY <3>2, <1>3, <1>9 DEF Life, Up
    <3> QED BY <3>1, <3>2, TwoSides
  <2> QED BY <2>1, <2>2, <2>3, <1>4, <1>5, <1>8, <1>11 DEF Passed
<1>12. CASE /\ ~(x = "server" /\ mode = "socks4a" /\ ~relay.tunnels)
            /\ ~(y.conn[Other(x)].state_ = "kConnected" /\ (x = "server" => y.context_))
  <2>1. relay' = y
    BY <1>12 DEF Read
  <2>2. backend' = backend
    BY <2>1, <1>4, <1>8
  <2>3. backend # "none" \/ relay.tunnels
    <3>1. CASE x = "client"
      BY <3>1, <1>3, <1>9 DEF Life, Up
    <3>2. CASE x = "server"
      <4>1. mode \in {"tcprelay", "socks4a"}
        BY DEF TunnelInv, TunnelTypes
      <4> QED BY <3>2, <4>1, <1>9, <1>12 DEF Registered
    <3> QED BY <3>1, <3>2, TwoSides
  <2> QED BY <2>1, <2>2, <2>3, <1>4, <1>5, <1>12 DEF Passed
<1> QED BY <1>10, <1>11, <1>12

\* handleRead() keeps the invariant.
LEMMA ReadInv ==
  ASSUME TunnelInv, HandleRead
  PROVE  TunnelInv'
<1>0. Event("IN")
  BY DEF HandleRead
<1>1. PICK x \in Sides : x = active[1].side
  BY <1>0, EventFacts
<1>2. PICK y, data : Read(x, relay, y, relay', data, rcv, rcv', mode)
  BY <1>1, ReadEffect
<1>3. Passed(x, relay, y, relay', backend, backend')
  BY <1>1, <1>2, ReadPasses
<1>4. /\ relay \in RelayType /\ relay.fault = "none" /\ active[1].on = "IN"
      /\ active # <<>> /\ active \in Seq(EventType)
      /\ EventOK(active[1], relay, backend, rcv, peer)
      /\ OneLess(active, Tail(active))
      /\ Control(relay, relay.pending, "events", backend, mode)
      /\ RelayDown(relay, relay.pending, active, backend, mode, peer)
  BY <1>0, EventFacts
<1>5. /\ Received(relay, y, x, data) /\ y \in RelayType /\ y.pending = relay.pending
  BY <1>2 DEF Read, Received
<1>6. Kept(relay, y, x)
  BY <1>4, <1>5, ReceivedKept
<1>7. relay.conn[x].isReading
  BY <1>1, <1>4 DEF EventOK
<1>8. ~relay.conn[Other(x)].writeCompleteCallback_
  <2>1. PICK o \in Sides : o = Other(x) /\ Other(o) = x
    BY Others
  <2>2. SideOK(relay.conn[o], relay.conn[x], In(relay.pending, "onHighWaterMark", o),
               In(relay.pending, "onWriteComplete", o), "events")
    BY <2>1, <1>4 DEF Control, Pairing
  <2> QED BY <2>1, <2>2, <1>7 DEF SideOK
<1>9. ~y.conn[Other(x)].writeCompleteCallback_ /\ y.conn[x].isReading
  BY <1>6, <1>7, <1>8, Others DEF Kept
<1>10. /\ Control(relay', relay'.pending, "events", backend', mode) /\ Kept(relay, relay', x)
       /\ backend' = backend \/ (backend = "none" /\ backend' = "connecting" /\ mode = "socks4a")
  <2>0. /\ Control(y, y.pending, "events", backend, mode) /\ y.tunnels = relay.tunnels
    BY <1>3 DEF Passed
  <2>1. CASE /\ x = "server" /\ backend = "none" /\ ~relay.tunnels /\ Requested(y, relay')
             /\ backend' = (IF relay'.tunnels THEN "connecting" ELSE "none")
             /\ mode = "socks4a"
    <3>1. /\ Control(relay', relay'.pending, "events",
                     IF relay'.tunnels THEN "connecting" ELSE "none", mode)
          /\ relay'.pending = y.pending
      BY <2>0, <2>1, <1>5, ControlRequested
    <3>2. Kept(y, relay', x)
      BY <2>1, <3>1, <1>5, RequestedKept
    <3>3. Kept(relay, relay', x)
      BY <3>2, <1>6, KeptTwice
    <3> QED BY <2>1, <3>1, <3>3
  <2>2. CASE /\ backend = "done" /\ backend' = "done" /\ y.conn[Other(x)].state_ = "kConnected"
             /\ Forwarded(y, relay', Other(x))
    <3>1. Kept(y, relay', x)
      BY <2>2, <1>5, <1>9, ForwardedKept
    <3>2. Kept(relay, relay', x)
      BY <3>1, <1>6, KeptTwice
    <3>3. Control(relay', relay'.pending, "events", backend', mode)
      <4>1. PICK o \in Sides : o = Other(x) /\ Other(o) = x
        BY Others
      <4>2. Control(relay', relay'.pending, "events", backend, mode)
        BY <4>1, <2>0, <2>2, <1>5, <1>9, ControlForwarded
      <4> QED BY <4>2, <2>2
    <3> QED BY <2>2, <3>2, <3>3
  <2>3. CASE backend' = backend /\ relay' = y
    BY <2>0, <2>3, <1>6
  <2> QED BY <1>3, <2>1, <2>2, <2>3 DEF Passed
<1>11. rcv' \in [Sides -> Seq(Units)] /\ rcv'[Other(x)] = rcv[Other(x)]
       /\ data \o rcv'[x] = rcv[x] /\ data \in Seq(Units) /\ data # <<>>
  BY <1>2 DEF Read
<1>12. rcv[x] # <<>>
  <2>1. rcv'[x] \in Seq(Units)
    BY <1>11
  <2>2. Len(data) > 0 /\ Len(data) \in Nat /\ Len(rcv'[x]) \in Nat
    BY <2>1, <1>11, EmptyLen
  <2>3. Len(rcv[x]) = Len(data) + Len(rcv'[x])
    BY <2>1, <1>11, JoinLen
  <2> QED BY <2>2, <2>3
<1>13. backend' \in Backends
  BY <1>10 DEF TunnelInv, TunnelTypes, Backends
<1>14. Ended(relay', rcv', peer)
  <2>1. ASSUME NEW z \in Sides
        PROVE  /\ relay'.conn[z].state_ = "kDisconnected" => rcv'[z] = <<>> /\ peer[z] # "open"
               /\ peer[z] = "reset" => rcv'[z] = <<>>
    <3>1. /\ relay.conn[z].state_ = "kDisconnected" => rcv[z] = <<>> /\ peer[z] # "open"
          /\ peer[z] = "reset" => rcv[z] = <<>>
      BY DEF TunnelInv, Ended
    <3>2. relay'.conn[z].state_ = "kDisconnected" <=> relay.conn[z].state_ = "kDisconnected"
      BY <1>10 DEF Kept
    <3>3. CASE z = x
      BY <3>1, <3>2, <3>3, <1>12
    <3>4. CASE z # x
      BY <3>1, <3>2, <3>4, <1>11, TwoSides
    <3> QED BY <3>3, <3>4
  <2> QED BY <2>1 DEF Ended
<1>15. Causes(relay', mode, peer) /\ relay' \in RelayType
  BY <1>4, <1>10 DEF Causes, Kept
<1>16. \A z \in {"IN", "HUP"} : ~In(Tail(active), z, x)
  <2>1. SUFFICES ASSUME NEW z \in {"IN", "HUP"}, NEW i \in DOMAIN Tail(active),
                        Tail(active)[i].on = z /\ Tail(active)[i].side = x
                 PROVE  FALSE
    BY DEF In
  <2>2. /\ i + 1 \in DOMAIN active /\ i + 1 # 1 /\ Tail(active)[i] = active[i + 1]
        /\ 1 \in DOMAIN active
    BY <1>4, TailEvents
  <2>3. Apart(active[1], active[i + 1])
    BY <2>2 DEF TunnelInv, Reported, AllApart
  <2> QED BY <2>1, <2>2, <2>3, <1>1, <1>4 DEF Apart
<1>17. RelayDown(relay', relay'.pending, Tail(active), backend', mode, peer)
  <2>0. SUFFICES ASSUME mode = "tcprelay"
                 PROVE  RelayDown(relay', relay'.pending, Tail(active), backend, mode, peer)
    BY <1>10 DEF RelayDown
  <2>1. /\ relay'.conn["server"].isReading = relay.conn["server"].isReading
        /\ relay'.conn["client"].writeCompleteCallback_
             = relay.conn["client"].writeCompleteCallback_
        /\ relay'.conn["server"].state_ = "kDisconnected"
             <=> relay.conn["server"].state_ = "kDisconnected"
    BY <1>10, TwoSides DEF Kept
  <2>2. \A on2, x2 : In(Tail(active), on2, x2) => In(active, on2, x2)
    BY <1>4 DEF OneLess
  <2>3. In(active, "IN", x)
    BY <1>1, <1>4, InTail
  <2>4. CASE x = "server"
    <3>1. ~(relay.conn["server"].state_ = "kDisconnected" /\ peer["server"] # "reset")
      BY <2>0, <2>3, <2>4, <1>4 DEF RelayDown
    <3>2. ~In(Tail(active), "IN", "server")
      BY <2>4, <1>16
    <3> QED BY <2>0, <2>1, <3>1, <3>2, <1>4 DEF RelayDown
  <2>5. CASE x = "client"
    <3>1. \A on2 : In(relay'.pending, on2, "client") => In(relay.pending, on2, "client")
      BY <2>5, <1>10, TwoSides DEF Kept
    <3> QED BY <2>1, <2>2, <3>1, <1>4 DEF RelayDown
  <2> QED BY <2>4, <2>5, TwoSides
<1>18. ASSUME NEW e \in EventType, EventOK(e, relay, backend, rcv, peer), Apart(active[1], e)
       PROVE  EventOK(e, relay', backend', rcv', peer)
  <2>1. e.side \in Sides
    BY DEF EventType
  <2>2. e.on = "IN" => e.side # x
    BY <1>1, <1>4, <1>18 DEF Apart
  <2>3. e.on = "IN" => rcv'[e.side] = rcv[e.side]
    BY <2>1, <2>2, <1>11, TwoSides
  <2>4. relay'.conn[e.side].isReading = relay.conn[e.side].isReading
    BY <2>1, <1>10 DEF Kept
  <2>5. Up(relay'.conn["client"]) <=> Up(relay.conn["client"])
    BY <1>10, TwoSides DEF Kept
  <2>6. e.on = "connect" => backend' = "accepted" /\ e.side = "client"
    BY <1>10, <1>18 DEF EventOK
  <2> QED BY <2>3, <2>4, <2>5, <2>6, <1>18 DEF EventOK
<1> QED BY <1>0, <1>10, <1>11, <1>13, <1>14, <1>15, <1>17, <1>18, EventKeeps

\* newConnection() keeps the invariant.
LEMMA ConnectInv ==
  ASSUME TunnelInv, NewConnection
  PROVE  TunnelInv'
<1>0. Event("connect") /\ backend' = "done" /\ rcv' = rcv
  BY DEF NewConnection
<1>1. /\ relay \in RelayType /\ relay.fault = "none" /\ active[1].on = "connect"
      /\ EventOK(active[1], relay, backend, rcv, peer)
      /\ OneLess(active, Tail(active))
      /\ Control(relay, relay.pending, "events", backend, mode)
      /\ RelayDown(relay, relay.pending, active, backend, mode, peer)
  BY <1>0, EventFacts
<1>2. backend = "accepted" /\ active[1].side = "client"
  BY <1>1 DEF EventOK
<1>3. Connected(relay, relay')
  <2>1. PICK n \in Room("client") : relay' = OnClientConnection(
                        [relay EXCEPT !.conn["client"] = NewConn("kConnected", TRUE),
                                      !.connection_ = TRUE], n)
    BY DEF NewConnection
  <2>2. n \in Nat
    BY <2>1, RoomType
  <2> QED BY <2>1, <2>2, <1>1, NewConnectionEffect
<1>4. Control(relay', relay'.pending, "events", "done", mode)
  BY <1>1, <1>2, <1>3, ControlConnected
<1>5. PICK y : Opened(relay, y) /\ Forwarded(y, relay', "client")
  BY <1>3 DEF Connected
<1>6. /\ y \in RelayType /\ y.fault = relay.fault /\ y.pending = relay.pending
      /\ y.conn["server"].state_ = relay.conn["server"].state_
      /\ y.conn["server"].isReading = TRUE
      /\ y.conn["client"] = [NewConn("kConnected", TRUE) EXCEPT !.highWaterMarkCallback_ = TRUE]
  BY <1>5 DEF Opened
<1>7. y.conn["client"].state_ = "kConnected" /\ ~y.conn["client"].writeCompleteCallback_
      /\ y.conn["client"].isReading
  BY <1>6 DEF NewConn
<1>8. Kept(y, relay', "server")
  BY <1>5, <1>6, <1>7, TwoSides, ForwardedKept
<1>9. /\ relay' \in RelayType /\ relay'.fault = "none"
      /\ relay'.conn["server"].isReading /\ relay'.conn["client"].isReading
      /\ Up(relay'.conn["client"]) /\ relay'.conn["client"].state_ # "kDisconnected"
      /\ relay'.conn["server"].state_ = "kDisconnected"
           <=> relay.conn["server"].state_ = "kDisconnected"
  <2>1. Up(y.conn["client"])
    BY <1>7 DEF Up
  <2>2. /\ relay' \in RelayType /\ relay'.fault = y.fault
        /\ relay'.conn["server"].isReading = y.conn["server"].isReading
        /\ relay'.conn["client"].isReading = y.conn["client"].isReading
        /\ Up(relay'.conn["client"]) <=> Up(y.conn["client"])
        /\ relay'.conn["server"].state_ = "kDisconnected"
             <=> y.conn["server"].state_ = "kDisconnected"
    BY <1>8, TwoSides DEF Kept
  <2>3. relay'.conn["client"].state_ # "kDisconnected"
    BY <2>1, <2>2 DEF Up
  <2> QED BY <2>1, <2>2, <2>3, <1>1, <1>6, <1>7
<1>10. Life(relay, relay.pending, backend)
  BY <1>1, ControlParts
<1>11. Ended(relay', rcv, peer)
  <2>1. Ended(relay, rcv, peer)
    BY DEF TunnelInv
  <2> QED BY <2>1, <1>9, TwoSides DEF Ended
<1>12. Causes(relay', mode, peer)
  BY <1>9 DEF Causes
<1>13. RelayDown(relay', relay'.pending, Tail(active), "done", mode, peer)
  <2>1. SUFFICES ASSUME mode = "tcprelay"
                 PROVE  /\ ~In(Tail(active), "IN", "server")
                        /\ relay'.conn["server"].state_ = "kDisconnected" => peer["server"] = "reset"
    BY DEF RelayDown
  <2>2. ~In(active, "IN", "server")
    <3>1. SUFFICES ASSUME NEW i \in DOMAIN active, active[i].on = "IN", active[i].side = "server"
                   PROVE  FALSE
      BY DEF In
    <3>2. relay.conn["server"].isReading
      <4>1. EventOK(active[i], relay, backend, rcv, peer)
        BY DEF TunnelInv, Reported
      <4> QED BY <3>1, <4>1 DEF EventOK
    <3> QED BY <2>1, <3>2, <1>1, <1>2 DEF RelayDown
  <2>3. relay.conn["server"].state_ = "kDisconnected" => peer["server"] = "reset"
    BY <2>1, <1>1, <1>2 DEF RelayDown
  <2> QED BY <2>2, <2>3, <1>1, <1>9 DEF OneLess
<1>14. ASSUME NEW e \in EventType, EventOK(e, relay, backend, rcv, peer), Apart(active[1], e)
       PROVE  EventOK(e, relay', "done", rcv, peer)
  <2>1. e.side \in Sides
    BY DEF EventType
  <2>2. e.on # "connect"
    BY <1>1, <1>2, <1>14 DEF EventOK, Apart
  <2>3. relay'.conn[e.side].isReading
    BY <2>1, <1>9, TwoSides
  <2> QED BY <2>2, <2>3, <1>9, <1>14 DEF EventOK
<1>15. rcv \in [Sides -> Seq(Units)] /\ "done" \in Backends
  BY DEF TunnelInv, TunnelTypes, Backends
<1> QED BY <1>0, <1>4, <1>9, <1>11, <1>12, <1>13, <1>14, <1>15, EventKeeps
------------------------------------------------------------------------------
(* The iteration and the functors.                                          *)

\* poll() keeps the invariant.
LEMMA PollInv ==
  ASSUME TunnelInv, Poll
  PROVE  TunnelInv'
<1>1. /\ relay.fault = "none" /\ phase = "poll" /\ phase' = "events"
      /\ UNCHANGED <<mode, script, sent, rcv, peer, backend, relay, batch>>
  BY DEF Poll, InIteration, Running, netVars
<1>2. PICK x \in Sides : active' = Events(x) \o Events(Other(x))
  BY DEF Poll
<1>3. relay.pending = <<>> /\ batch = <<>> /\ Waiting = <<>> /\ Waiting' = <<>>
  BY <1>1 DEF TunnelInv, Phases, Waiting
<1>4. TunnelTypes /\ Life(relay, Waiting, backend)
  BY DEF TunnelInv, Control
<1>5. active' \in Seq(EventType) /\ Reported(active', relay, backend, rcv, peer)
  BY <1>2, <1>4, PollReports
<1>6. TunnelTypes'
  BY <1>1, <1>4, <1>5 DEF TunnelTypes
<1>7. Phases'
  BY <1>1, <1>3 DEF Phases
<1>8. Control(relay, <<>>, "events", backend, mode)
  BY <1>1, <1>3, ControlRephased DEF TunnelInv
<1>9. RelayDown(relay, <<>>, active', backend, mode, peer)
  <2>1. SUFFICES ASSUME mode = "tcprelay", relay.conn["server"].state_ = "kDisconnected",
                        peer["server"] # "reset"
                 PROVE  ~In(active', "IN", "server") /\ ~In(active', "HUP", "server")
    BY <1>3, InEmpty DEF TunnelInv, RelayDown
  <2>2. ~relay.conn["server"].isReading
    BY <2>1 DEF TunnelInv, RelayDown
  <2>3. \A i \in DOMAIN active' : EventOK(active'[i], relay, backend, rcv, peer)
    BY <1>5 DEF Reported
  <2>4. \A i \in DOMAIN active' : active'[i].side = "server" => active'[i].on \notin {"IN", "HUP"}
    BY <2>1, <2>2, <2>3 DEF EventOK
  <2> QED BY <2>4 DEF In
<1>10. Ended(relay, rcv, peer) /\ Causes(relay, mode, peer)
  BY DEF TunnelInv
<1> QED BY <1>1, <1>3, <1>5, <1>6, <1>7, <1>8, <1>9, <1>10 DEF TunnelInv

\* So does the start of doPendingFunctors(), ...
LEMMA DoPendingInv ==
  ASSUME TunnelInv, DoPendingFunctors
  PROVE  TunnelInv'
<1>1. /\ phase = "events" /\ phase' = "functors" /\ active = <<>> /\ batch' = relay.pending
      /\ relay' = [relay EXCEPT !.pending = <<>>]
      /\ UNCHANGED <<mode, script, sent, rcv, peer, backend, active>>
  BY DEF DoPendingFunctors, InIteration, netVars
<1>2. relay \in RelayType /\ relay.pending \in Seq(FunctorType)
  BY RelayFields DEF TunnelInv, TunnelTypes
<1>3. /\ relay' \in RelayType /\ relay'.conn = relay.conn /\ relay'.pending = <<>>
      /\ relay'.context_ = relay.context_ /\ relay'.clientConn_ = relay.clientConn_
      /\ relay'.connection_ = relay.connection_ /\ relay'.callbacks = relay.callbacks
      /\ relay'.tunnels = relay.tunnels /\ relay'.fault = relay.fault
  BY <1>1, <1>2, EmptySeq DEF RelayType
<1>4. Waiting = relay.pending /\ Waiting' = relay.pending
  BY <1>1 DEF Waiting
<1>5. TunnelTypes'
  BY <1>1, <1>2, <1>3 DEF TunnelInv, TunnelTypes
<1>6. Phases'
  BY <1>1, <1>3 DEF Phases
<1>7. Control(relay', relay.pending, "functors", backend, mode)
  BY <1>1, <1>3, <1>4, ControlRephased DEF TunnelInv
<1>8. Reported(active, relay', backend, rcv, peer)
  BY <1>3 DEF TunnelInv, Reported, EventOK
<1>9. Ended(relay', rcv, peer) /\ Causes(relay', mode, peer)
  BY <1>3 DEF TunnelInv, Ended, Causes
<1>10. RelayDown(relay', relay.pending, active, backend, mode, peer)
  BY <1>3, <1>4 DEF TunnelInv, RelayDown
<1> QED BY <1>1, <1>4, <1>5, <1>6, <1>7, <1>8, <1>9, <1>10 DEF TunnelInv

\* ... its end, ...
LEMMA DoneInv ==
  ASSUME TunnelInv, FunctorsDone
  PROVE  TunnelInv'
<1>1. /\ phase = "functors" /\ phase' = "poll" /\ batch = <<>>
      /\ relay' = [relay EXCEPT !.freed = relay.freed \/ relay.conn["client"].destroyed]
      /\ UNCHANGED <<mode, script, sent, rcv, peer, backend, active, batch>>
  BY DEF FunctorsDone, InIteration, netVars, TunnelInv, TunnelTypes, RelayType
<1>2. relay \in RelayType /\ relay.pending = <<>> /\ active = <<>>
  BY <1>1 DEF TunnelInv, TunnelTypes, Phases
<1>3. /\ relay' \in RelayType /\ relay'.conn = relay.conn /\ relay'.pending = <<>>
      /\ relay'.context_ = relay.context_ /\ relay'.clientConn_ = relay.clientConn_
      /\ relay'.connection_ = relay.connection_ /\ relay'.callbacks = relay.callbacks
      /\ relay'.tunnels = relay.tunnels /\ relay'.fault = relay.fault
  <2>1. PICK gone \in BOOLEAN : gone = (relay.freed \/ relay.conn["client"].destroyed)
    OBVIOUS
  <2>2. relay' = [relay EXCEPT !.freed = gone]
    BY <2>1, <1>1
  <2> QED BY <2>2, <1>2 DEF RelayType
<1>4. Waiting = <<>> /\ Waiting' = <<>>
  BY <1>1, <1>3 DEF Waiting
<1>5. TunnelTypes'
  BY <1>1, <1>3 DEF TunnelInv, TunnelTypes
<1>6. Phases'
  BY <1>1, <1>2, <1>3 DEF Phases
<1>7. Control(relay', <<>>, "poll", backend, mode)
  BY <1>1, <1>3, <1>4, ControlRephased DEF TunnelInv
<1>8. Reported(active, relay', backend, rcv, peer)
  BY <1>3 DEF TunnelInv, Reported, EventOK
<1>9. Ended(relay', rcv, peer) /\ Causes(relay', mode, peer)
  BY <1>3 DEF TunnelInv, Ended, Causes
<1>10. RelayDown(relay', <<>>, active, backend, mode, peer)
  BY <1>3, <1>4 DEF TunnelInv, RelayDown
<1> QED BY <1>1, <1>4, <1>5, <1>6, <1>7, <1>8, <1>9, <1>10 DEF TunnelInv

\* The four ways a functor may go.
LEMMA FunctorCases ==
  ASSUME TunnelInv, RunFunctor, NEW on, NEW x, on = batch[1].on, x = batch[1].side
  PROVE  /\ on \in {"onHighWaterMark", "onWriteComplete", "connectionDestroyed"} /\ x \in Sides
         /\ \/ on = "connectionDestroyed" /\ relay' = ConnectionDestroyed(relay, x)
            \/ /\ on # "connectionDestroyed" /\ relay' = relay
               /\ x = "server" /\ ~relay.tunnels
            \/ on = "onHighWaterMark" /\ relay' = OnHighWaterMark(relay, x)
            \/ on = "onWriteComplete" /\ relay' = OnWriteComplete(relay, x)
<1>1. batch \in Seq(FunctorType) /\ batch # <<>>
  BY DEF TunnelInv, TunnelTypes, RunFunctor
<1>2. batch[1] \in FunctorType
  BY <1>1
<1>3. on \in {"onHighWaterMark", "onWriteComplete", "connectionDestroyed"} /\ x \in Sides
  BY <1>2 DEF FunctorType
<1>4. PICK called \in BOOLEAN : called <=> on # "connectionDestroyed" /\ Locked(relay, x)
  OBVIOUS
<1>5. relay' = CASE on = "connectionDestroyed" -> ConnectionDestroyed(relay, x)
                 [] on # "connectionDestroyed" /\ ~called -> relay
                 [] called /\ on = "onHighWaterMark" -> OnHighWaterMark(relay, x)
                 [] called /\ on = "onWriteComplete" -> OnWriteComplete(relay, x)
  BY <1>4 DEF RunFunctor
<1>6. CASE on = "connectionDestroyed"
  BY <1>3, <1>4, <1>5, <1>6
<1>7. CASE on # "connectionDestroyed" /\ ~called
  <2>1. relay' = relay
    BY <1>5, <1>7
  <2>2. x = "server" /\ ~relay.tunnels
    BY <1>3, <1>4, <1>7, TwoSides DEF Locked
  <2> QED BY <1>3, <1>7, <2>1, <2>2
<1>8. CASE called /\ on = "onHighWaterMark"
  BY <1>3, <1>5, <1>8
<1>9. CASE called /\ on = "onWriteComplete"
  BY <1>3, <1>5, <1>9
<1> QED BY <1>3, <1>4, <1>6, <1>7, <1>8, <1>9

\* ... and each functor it runs, also one that fails.
LEMMA FunctorInv ==
  ASSUME TunnelInv, RunFunctor
  PROVE  TunnelInv'
<1>1. /\ relay.fault = "none" /\ phase = "functors" /\ phase' = "functors" /\ batch # <<>>
      /\ batch' = Tail(batch)
      /\ UNCHANGED <<mode, script, sent, rcv, peer, backend, active>>
  BY DEF RunFunctor, InIteration, Running, netVars
<1>2. PICK q, rest : q = batch /\ rest = Tail(batch)
  OBVIOUS
<1>3. q \in Seq(FunctorType) /\ q # <<>> /\ rest \in Seq(FunctorType)
  <2>1. ASSUME NEW S, NEW b \in Seq(S), b # <<>> PROVE Tail(b) \in Seq(S)
    BY <2>1
  <2>2. batch \in Seq(FunctorType)
    BY DEF TunnelInv, TunnelTypes
  <2> QED BY <2>1, <2>2, <1>1, <1>2
<1>4. relay \in RelayType /\ relay.pending = <<>> /\ active = <<>>
  BY <1>1 DEF TunnelInv, TunnelTypes, Phases
<1>5. Waiting = q /\ Waiting' = rest
  BY <1>1, <1>2 DEF Waiting
<1>6. /\ Control(relay, q, "functors", backend, mode)
      /\ RelayDown(relay, q, active, backend, mode, peer)
      /\ Ended(relay, rcv, peer)
  BY <1>1, <1>5 DEF TunnelInv
<1>7. PICK on, x : on = q[1].on /\ x = q[1].side
  OBVIOUS
<1>8. /\ on \in {"onHighWaterMark", "onWriteComplete", "connectionDestroyed"} /\ x \in Sides
      /\ \/ on = "connectionDestroyed" /\ relay' = ConnectionDestroyed(relay, x)
         \/ /\ on # "connectionDestroyed" /\ relay' = relay
            /\ x = "server" /\ ~relay.tunnels
         \/ on = "onHighWaterMark" /\ relay' = OnHighWaterMark(relay, x)
         \/ on = "onWriteComplete" /\ relay' = OnWriteComplete(relay, x)
  BY <1>2, <1>7, FunctorCases
<1>9. OneLess(q, rest) /\ In(q, on, x)
  BY <1>2, <1>3, <1>7, InTail
<1>10. \A on2, x2 : In(rest, on2, x2) => In(q, on2, x2)
  BY <1>9 DEF OneLess
<1>11. PICK a \in ConnType, c \in ConnType :
         a = relay.conn["server"] /\ c = relay.conn["client"]
  BY <1>4, RelayFields, TwoSides
<1>12. Life(relay, q, backend) /\ Registered(relay, q, backend, mode)
  BY <1>6, ControlParts
<1>13. \A on2, x2 : ~In(active, on2, x2)
  BY <1>4, InEmpty
\* It is enough to look at the relay.
<1>20. ASSUME relay' \in RelayType, relay'.pending = <<>>,
              Control(relay', rest, "functors", backend, mode),
              \A z \in Sides : relay'.conn[z].state_ = relay.conn[z].state_,
              RelayDown(relay', rest, active, backend, mode, peer),
              Causes(relay', mode, peer)
       PROVE  TunnelInv'
  <2>1. TunnelTypes'
    BY <1>1, <1>2, <1>3, <1>20 DEF TunnelInv, TunnelTypes
  <2>2. Phases'
    BY <1>1, <1>4, <1>20 DEF Phases
  <2>3. Ended(relay', rcv, peer)
    BY <1>6, <1>20 DEF Ended
  <2>4. Reported(active, relay', backend, rcv, peer)
    BY <1>4 DEF Reported, AllApart
  <2> QED BY <2>1, <2>2, <2>3, <2>4, <1>1, <1>5, <1>20 DEF TunnelInv
\* The relay has failed, or nothing was done.
<1>21. ASSUME NEW what, Faulted(relay, relay', what) \/ relay' = relay
       PROVE  /\ relay' \in RelayType /\ relay'.pending = <<>>
              /\ \A z \in Sides : relay'.conn[z].state_ = relay.conn[z].state_
              /\ RelayDown(relay', rest, active, backend, mode, peer)
  <2>1. relay' \in RelayType /\ relay'.pending = relay.pending /\ relay'.conn = relay.conn
    BY <1>4, <1>21 DEF Faulted
  <2> QED BY <2>1, <1>4, <1>6, <1>10 DEF RelayDown
<1>22. CASE on = "connectionDestroyed" /\ relay' = ConnectionDestroyed(relay, x)
  <2>1. IF relay.conn[x].isReading THEN Faulted(relay, relay', "assert")
        ELSE Destroyed(relay, relay', x)
    BY <1>1, <1>4, <1>8, <1>22, DestroyedEffect
  <2>2. Control(relay', rest, "functors", backend, mode)
    BY <2>1, <1>4, <1>6, <1>7, <1>8, <1>9, <1>22, ControlDestroyed
  <2>3. CASE relay.conn[x].isReading
    <3>1. Faulted(relay, relay', "assert") /\ relay'.conn = relay.conn /\ relay'.fault = "assert"
      BY <2>1, <2>3 DEF Faulted
    <3>2. relay.conn[x].state_ = "kDisconnected"
      BY <1>8, <1>9, <1>12, <1>22 DEF Life
    <3>3. x = "server"
      BY <2>3, <3>2, <1>8, <1>12, TwoSides DEF Life, Up
    <3>4. mode = "tcprelay" => peer["server"] = "reset"
      BY <2>3, <3>2, <3>3, <1>6 DEF RelayDown
    <3>5. Causes(relay', mode, peer)
      BY <3>1, <3>2, <3>3, <3>4 DEF Causes
    <3> QED BY <2>2, <3>1, <3>5, <1>20, <1>21
  <2>4. CASE ~relay.conn[x].isReading
    <3>1. Destroyed(relay, relay', x)
      BY <2>1, <2>4
    <3>2. /\ relay' \in RelayType /\ relay'.pending = <<>> /\ relay'.fault = "none"
          /\ \A z \in Sides : /\ relay'.conn[z].state_ = relay.conn[z].state_
                              /\ relay'.conn[z].isReading = relay.conn[z].isReading
                              /\ relay'.conn[z].writeCompleteCallback_
                                   = relay.conn[z].writeCompleteCallback_
      BY <3>1, <1>1, <1>4, <1>8, TwoSides DEF Destroyed, SameFlags
    <3>3. RelayDown(relay', rest, active, backend, mode, peer)
      BY <3>2, <1>6, <1>10, TwoSides DEF RelayDown
    <3>4. Causes(relay', mode, peer)
      BY <3>2 DEF Causes
    <3> QED BY <2>2, <3>2, <3>3, <3>4, <1>20
  <2> QED BY <2>3, <2>4
<1>23. ASSUME on \in {"onHighWaterMark", "onWriteComplete"} PROVE backend = "done"
  BY <1>8, <1>9, <1>12, <1>23 DEF Registered
<1>24. CASE /\ on # "connectionDestroyed" /\ relay' = relay
            /\ x = "server" /\ ~relay.tunnels
  <2>1. backend = "done"
    BY <1>8, <1>23, <1>24
  <2>2. a.state_ # "kConnected"
    BY <2>1, <1>11, <1>12, <1>24 DEF Registered, Up
  <2>3. Control(relay', rest, "functors", backend, mode)
    BY <2>2, <1>4, <1>6, <1>9, <1>11, <1>24, ControlDropped
  <2>4. Causes(relay', mode, peer)
    BY <1>1, <1>24 DEF Causes
  <2> QED BY <2>3, <2>4, <1>20, <1>21, <1>24
\* clientConn_ is null.
<1>25. ASSUME on \in {"onHighWaterMark", "onWriteComplete"}, ~relay.clientConn_,
              Faulted(relay, relay', "null")
       PROVE  TunnelInv'
  <2>1. c.state_ = "kDisconnected"
    <3>1. c.state_ # "none" /\ ~Up(c)
      BY <1>11, <1>12, <1>23, <1>25 DEF Life
    <3> QED BY <3>1 DEF Up, ConnType, States
  <2>2. Control(relay', rest, "functors", backend, mode)
    <3>1. relay.conn["client"].state_ # "kConnected"
      BY <2>1, <1>11
    <3> QED BY <3>1, <1>4, <1>6, <1>9, <1>25, ControlDropped
  <2>3. Causes(relay', mode, peer)
    BY <2>1, <1>11, <1>25 DEF Causes, Faulted
  <2> QED BY <2>2, <2>3, <1>20, <1>21, <1>25
\* The other side is made to read, or not to.
<1>26. ASSUME NEW reading \in BOOLEAN, relay.clientConn_, Switched(relay, relay', x, reading),
              IF reading THEN on = "onWriteComplete"
              ELSE on = "onHighWaterMark" /\ relay.conn[x].outputBuffer_ # <<>>
       PROVE  TunnelInv'
  <2>1. Control(relay', rest, "functors", backend, mode)
    BY <1>4, <1>6, <1>7, <1>8, <1>9, <1>26, ControlSwitched
  <2>2. backend = "done"
    BY <1>23, <1>26
  <2>3. PICK o \in Sides : o = Other(x) /\ o # x
    BY <1>8, Others
  <2>4. /\ relay' \in RelayType /\ relay'.pending = <<>> /\ relay'.fault = "none"
        /\ relay'.conn[x].state_ = relay.conn[x].state_
        /\ relay'.conn[x].isReading = relay.conn[x].isReading
        /\ relay'.conn[o].state_ = relay.conn[o].state_
        /\ relay'.conn[o].writeCompleteCallback_ = relay.conn[o].writeCompleteCallback_
    BY <2>3, <1>1, <1>4, <1>26 DEF Switched, SameFlags
  <2>5. \A z \in Sides : relay'.conn[z].state_ = relay.conn[z].state_
    BY <2>3, <2>4, <1>8, TwoSides
  <2>6. RelayDown(relay', rest, active, backend, mode, peer)
    <3>1. CASE x = "server"
      <4>1. /\ relay'.conn["server"].state_ = relay.conn["server"].state_
            /\ relay'.conn["server"].isReading = relay.conn["server"].isReading
            /\ relay'.conn["client"].writeCompleteCallback_
                 = relay.conn["client"].writeCompleteCallback_
        BY <2>3, <2>4, <3>1, TwoSides
      <4> QED BY <4>1, <1>6, <1>10 DEF RelayDown
    <3>2. CASE x = "client"
      <4>1. mode = "tcprelay" => ~(relay.conn["server"].state_ = "kDisconnected"
                                    /\ peer["server"] # "reset")
        BY <3>2, <1>6, <1>8, <1>9, <1>26 DEF RelayDown
      <4>2. relay'.conn["server"].state_ = relay.conn["server"].state_
        BY <2>5, TwoSides
      <4> QED BY <2>2, <4>1, <4>2, <1>13 DEF RelayDown
    <3> QED BY <3>1, <3>2, <1>8, TwoSides
  <2>7. Causes(relay', mode, peer)
    BY <2>4 DEF Causes
  <2> QED BY <2>1, <2>4, <2>5, <2>6, <2>7, <1>20
<1>27. CASE on = "onHighWaterMark" /\ relay' = OnHighWaterMark(relay, x)
  <2>1. IF relay.conn[x].outputBuffer_ = <<>>
          THEN relay' = relay \/ (~relay.clientConn_ /\ Faulted(relay, relay', "null"))
        ELSE IF ~relay.clientConn_ THEN Faulted(relay, relay', "null")
        ELSE Switched(relay, relay', x, FALSE)
    BY <1>1, <1>4, <1>8, <1>27, HighWaterMarkEffect
  <2>2. CASE relay' = relay /\ relay.conn[x].outputBuffer_ = <<>>
    <3>1. Control(relay', rest, "functors", backend, mode)
      BY <2>2, <1>4, <1>6, <1>7, <1>8, <1>9, <1>27, ControlDropped
    <3>2. Causes(relay', mode, peer)
      BY <2>2, <1>1 DEF Causes
    <3> QED BY <2>2, <3>1, <3>2, <1>20, <1>21
  <2>3. CASE ~relay.clientConn_ /\ Faulted(relay, relay', "null")
    BY <2>3, <1>25, <1>27
  <2>4. CASE /\ relay.clientConn_ /\ relay.conn[x].outputBuffer_ # <<>>
             /\ Switched(relay, relay', x, FALSE)
    BY <2>4, <1>26, <1>27
  <2> QED BY <2>1, <2>2, <2>3, <2>4
<1>28. CASE on = "onWriteComplete" /\ relay' = OnWriteComplete(relay, x)
  <2>1. IF relay.clientConn_ THEN Switched(relay, relay', x, TRUE)
        ELSE Faulted(relay, relay', "null")
    BY <1>1, <1>4, <1>8, <1>28, WriteCompleteEffect
  <2>2. CASE relay.clientConn_
    BY <2>1, <2>2, <1>26, <1>28
  <2>3. CASE ~relay.clientConn_
    BY <2>1, <2>3, <1>25, <1>28
  <2> QED BY <2>2, <2>3
<1> QED BY <1>8, <1>22, <1>24, <1>27, <1>28
------------------------------------------------------------------------------
(* The peers.                                                               *)

\* A peer may send, ...
LEMMA PeerSendsInv ==
  ASSUME TunnelInv, NEW x \in Sides, PeerSends(x)
  PROVE  TunnelInv'
<1>1. /\ peer[x] = "open" /\ relay.fault = "none"
      /\ UNCHANGED <<mode, script, peer, backend, relay, phase, active, batch>>
  BY DEF PeerSends, Running
<1>2. PICK d : /\ d = IF x = "server" /\ Len(sent[x]) < Len(script)
                        THEN script[Len(sent[x]) + 1] ELSE Data(Len(sent[x]))
               /\ sent' = [sent EXCEPT ![x] = Append(@, d)]
               /\ rcv' = [rcv EXCEPT ![x] = Append(@, d)]
  BY DEF PeerSends
<1>3. TunnelTypes
  BY DEF TunnelInv
<1>4. d \in Units
  <2>1. script \in Seq(Units) /\ Len(sent[x]) \in Nat
    BY <1>3 DEF TunnelTypes
  <2>2. Len(sent[x]) < Len(script) => script[Len(sent[x]) + 1] \in Units
    BY <2>1
  <2>3. Data(Len(sent[x])) \in Units
    BY DEF Data, Units
  <2> QED BY <2>2, <2>3, <1>2
<1>5. /\ sent' \in [Sides -> Seq(Units)] /\ rcv' \in [Sides -> Seq(Units)]
      /\ rcv'[x] # <<>> /\ \A z \in Sides : z # x => rcv'[z] = rcv[z]
  <2>1. sent \in [Sides -> Seq(Units)] /\ rcv \in [Sides -> Seq(Units)]
    BY <1>3 DEF TunnelTypes
  <2>2. ASSUME NEW b \in Seq(Units) PROVE Append(b, d) \in Seq(Units) /\ Append(b, d) # <<>>
    <3>1. Append(b, d) \in Seq(Units) /\ Len(Append(b, d)) = Len(b) + 1 /\ Len(b) \in Nat
      BY <1>4
    <3> QED BY <3>1
  <2> QED BY <2>1, <2>2, <1>2
<1>6. TunnelTypes'
  BY <1>1, <1>3, <1>5 DEF TunnelTypes
<1>7. Phases' /\ Waiting' = Waiting
  BY <1>1 DEF TunnelInv, Phases, Waiting
<1>8. \A e \in EventType : EventOK(e, relay, backend, rcv, peer) => EventOK(e, relay, backend, rcv', peer)
  <2>1. \A e \in EventType : e.side \in Sides
    BY DEF EventType
  <2> QED BY <2>1, <1>5 DEF EventOK
<1>9. Reported(active, relay, backend, rcv', peer)
  <2>1. \A i \in DOMAIN active : active[i] \in EventType
    BY <1>3 DEF TunnelTypes
  <2> QED BY <2>1, <1>8 DEF TunnelInv, Reported
<1>10. Ended(relay, rcv', peer)
  BY <1>1, <1>5 DEF TunnelInv, Ended
<1> QED BY <1>1, <1>6, <1>7, <1>9, <1>10 DEF TunnelInv

\* ... close or reset, ...
LEMMA PeerEndsInv ==
  ASSUME TunnelInv, NEW x \in Sides, PeerCloses(x) \/ PeerResets(x)
  PROVE  TunnelInv'
<1>1. UNCHANGED <<mode, script, sent, backend, relay, phase, active, batch>>
  BY DEF PeerCloses, PeerResets
<1>2. TunnelTypes
  BY DEF TunnelInv
<1>3. /\ peer' \in [Sides -> Peers] /\ rcv' \in [Sides -> Seq(Units)]
      /\ peer'[x] # "open" /\ (peer[x] = "reset" => peer'[x] = "reset")
      /\ \A z \in Sides : z # x => rcv'[z] = rcv[z] /\ peer'[z] = peer[z]
      /\ rcv'[x] = rcv[x] \/ rcv'[x] = <<>>
      /\ peer'[x] = "reset" => rcv'[x] = <<>>
  BY <1>2, EmptySeq DEF PeerCloses, PeerResets, TunnelTypes, Peers
<1>4. TunnelTypes'
  BY <1>1, <1>2, <1>3 DEF TunnelTypes
<1>5. Phases' /\ Waiting' = Waiting
  BY <1>1 DEF TunnelInv, Phases, Waiting
<1>6. \A e \in EventType : EventOK(e, relay, backend, rcv, peer) => EventOK(e, relay, backend, rcv', peer')
  <2>1. \A e \in EventType : e.side \in Sides
    BY DEF EventType
  <2> QED BY <2>1, <1>3 DEF EventOK
<1>7. Reported(active, relay, backend, rcv', peer')
  <2>1. \A i \in DOMAIN active : active[i] \in EventType
    BY <1>2 DEF TunnelTypes
  <2> QED BY <2>1, <1>6 DEF TunnelInv, Reported
<1>8. Ended(relay, rcv', peer')
  BY <1>3 DEF TunnelInv, Ended
<1>9. peer["server"] = "reset" => peer'["server"] = "reset"
  BY <1>3, TwoSides
<1>10. RelayDown(relay, Waiting, active, backend, mode, peer') /\ Causes(relay, mode, peer')
  BY <1>9 DEF TunnelInv, RelayDown, Causes
<1> QED BY <1>1, <1>4, <1>5, <1>7, <1>8, <1>10 DEF TunnelInv

\* ... and the backend accept, at any time.
LEMMA AcceptsInv ==
  ASSUME TunnelInv, BackendAccepts
  PROVE  TunnelInv'
<1>1. /\ backend = "connecting" /\ backend' = "accepted"
      /\ UNCHANGED <<mode, script, sent, rcv, peer, relay, phase, active, batch>>
  BY DEF BackendAccepts, netVars
<1>2. TunnelTypes' /\ Phases' /\ Waiting' = Waiting
  BY <1>1 DEF TunnelInv, TunnelTypes, Phases, Waiting, Backends
<1>3. Control(relay, Waiting, phase, "accepted", mode)
  BY <1>1, ControlAccepted DEF TunnelInv
<1>4. Reported(active, relay, "accepted", rcv, peer)
  BY <1>1 DEF TunnelInv, Reported, EventOK
<1>5. RelayDown(relay, Waiting, active, "accepted", mode, peer)
  BY <1>1 DEF TunnelInv, RelayDown
<1> QED BY <1>1, <1>2, <1>3, <1>4, <1>5 DEF TunnelInv

\* The invariant is inductive.
LEMMA NextInv == TunnelInv /\ [Next]_vars => TunnelInv'
<1> SUFFICES ASSUME TunnelInv, [Next]_vars PROVE TunnelInv'
  OBVIOUS
<1>1. CASE UNCHANGED vars
  BY <1>1 DEF vars, netVars, TunnelInv, TunnelTypes, Phases, Waiting
<1>2. CASE HandleError
  <2>1. Event("IN") /\ UNCHANGED <<rcv, backend, relay>>
    BY <1>2 DEF HandleError
  <2> QED BY <2>1, EventOnly
<1>3. CASE LoopStep
  BY <1>2, <1>3, PollInv, ReadInv, ReadEndInv, WriteInv, ConnectInv, DoPendingInv, FunctorInv,
     DoneInv DEF LoopStep
<1>4. CASE BackendAccepts
  BY <1>4, AcceptsInv
<1>5. CASE \E side \in Sides : PeerSends(side) \/ PeerCloses(side) \/ PeerResets(side)
  BY <1>5, PeerSendsInv, PeerEndsInv
<1> QED BY <1>1, <1>3, <1>4, <1>5 DEF Next

\* The functors of the invariant are those of the property.
LEMMA WaitingIsQueued ==
  ASSUME TunnelInv
  PROVE  \A on, x : IsQueued(on, x) <=> In(Waiting, on, x)
<1>1. relay.pending \in Seq(FunctorType) /\ batch \in Seq(FunctorType)
  BY RelayFields DEF TunnelInv, TunnelTypes
<1>2. relay.pending = <<>> \/ batch = <<>>
  BY DEF TunnelInv, TunnelTypes, Phases
<1>3. Queued = Waiting
  <2>1. ASSUME NEW S, NEW a \in Seq(S) PROVE a \o <<>> = a /\ <<>> \o a = a
    OBVIOUS
  <2>2. CASE phase = "functors"
    BY <2>1, <2>2, <1>1 DEF TunnelInv, Phases, Queued, Waiting
  <2>3. CASE phase # "functors"
    BY <2>1, <2>3, <1>1 DEF TunnelInv, Phases, Queued, Waiting
  <2> QED BY <2>2, <2>3
<1>4. Waiting \in Seq(FunctorType)
  BY <1>1 DEF Waiting
<1>5. ASSUME NEW f \in FunctorType, NEW on, NEW x
      PROVE  f = Functor(on, x) <=> f.on = on /\ f.side = x
  BY DEF FunctorType, Functor
<1>6. \A i \in DOMAIN Waiting : Waiting[i] \in FunctorType
  BY <1>4
<1> QED BY <1>3, <1>5, <1>6 DEF IsQueued, In

\* The inductive invariant holds in every state of the specification.
THEOREM TunnelInvariant == Spec => []TunnelInv
BY InitInv, NextInv, PTL DEF Spec

\* The state keeps its type: connectionDestroyed() waits only for a connection that
\* is down, and a tunnel that has clientConn_ has a client that has it too.
THEOREM TypeCorrect == Spec => []TypeOK
<1>1. TunnelInv => TypeOK
  <2> SUFFICES ASSUME TunnelInv PROVE TypeOK
    OBVIOUS
  <2>1. /\ relay \in RelayType /\ backend \in Backends
        /\ phase \in {"poll", "events", "functors"} /\ Life(relay, Waiting, backend)
    BY DEF TunnelInv, TunnelTypes, Control
  <2>2. ASSUME NEW x \in Sides
        PROVE  /\ Conn(x).state_ \in {"none", "kConnected", "kDisconnecting", "kDisconnected"}
               /\ IsQueued("connectionDestroyed", x) => Conn(x).state_ = "kDisconnected"
    <3>1. Conn(x).state_ \in States
      BY <2>1, RelayFields DEF Conn, ConnType
    <3>2. IsQueued("connectionDestroyed", x) <=> In(Waiting, "connectionDestroyed", x)
      BY WaitingIsQueued
    <3>3. In(Waiting, "connectionDestroyed", x) => Conn(x).state_ = "kDisconnected"
      BY <2>1, Zenon DEF Life, Conn
    <3> QED BY <3>1, <3>2, <3>3 DEF States
  <2>3. relay.clientConn_ => relay.connection_
    BY <2>1, Zenon DEF Life
  <2>4. relay.fault \in {"none", "assert", "null"}
    BY <2>1 DEF RelayType
  <2>5. phase = "poll" => active = <<>> /\ batch = <<>>
    BY DEF TunnelInv, Phases
  <2> QED BY <2>1, <2>2, <2>3, <2>4, <2>5 DEF TypeOK, Backends
<1> QED BY <1>1, TunnelInvariant, PTL

\* Back pressure of the tunnel, whatever the mark and whatever order the events and
\* functors come in: while both sides are connected, a side that does not read
\* waits for a write that will complete and tell it to, and onHighWaterMark() is
\* queued or has stopped the reading whenever a buffer is at the mark.
THEOREM BackPressure == Spec => []FlowControl
<1>1. TunnelInv => FlowControl
  <2> SUFFICES ASSUME TunnelInv, \A x \in Sides : Conn(x).state_ = "kConnected",
                      NEW x \in Sides
               PROVE  /\ \/ Conn(x).isReading
                         \/ /\ Conn(Other(x)).writeCompleteCallback_
                            /\ \/ Conn(Other(x)).outputBuffer_ # <<>>
                               \/ IsQueued("onWriteComplete", Other(x))
                      /\ Len(Conn(x).outputBuffer_) >= kHighWaterMark =>
                           ~Conn(Other(x)).isReading \/ IsQueued("onHighWaterMark", x)
    BY DEF FlowControl
  <2>1. PICK o \in Sides : o = Other(x) /\ Other(o) = x
    BY Others
  <2>2. Flow(relay, Waiting)
    BY DEF TunnelInv, Control
  <2>3. /\ FlowOK(Conn(x), Conn(o), In(Waiting, "onHighWaterMark", x),
                  In(Waiting, "onWriteComplete", x))
        /\ FlowOK(Conn(o), Conn(x), In(Waiting, "onHighWaterMark", o),
                  In(Waiting, "onWriteComplete", o))
    BY <2>1, <2>2 DEF Flow, Conn
  <2>4. Conn(x).state_ = "kConnected" /\ Conn(o).state_ = "kConnected"
    OBVIOUS
  <2>5. \A on, z : IsQueued(on, z) <=> In(Waiting, on, z)
    BY WaitingIsQueued
  <2> QED BY <2>1, <2>3, <2>4, <2>5 DEF FlowOK
<1> QED BY <1>1, TunnelInvariant, PTL

\* Where the tunnel can fail, at any bounds: clientConn_ is null in a callback only
\* after the backend's connection went down, and an assert of handleClose() or
\* connectionDestroyed() fails only when serverConn_ was made to read again after
\* it went down, in tcprelay only after a reset.
THEOREM FaultsExplained == Spec => []FaultCauses
<1>1. TunnelInv => FaultCauses
  BY DEF TunnelInv, Causes, FaultCauses, Conn
<1> QED BY <1>1, TunnelInvariant, PTL
------------------------------------------------------------------------------
(* The streams.                                                             *)

\* The way of a stream: what c has written and will write, what waits in the
\* inputBuffer_ of the connection it comes from, and what was not read.
Line(c, a, r) == ((c.written \o c.outputBuffer_) \o a.inputBuffer_) \o r

\* Sequences of units that the lines are made of.
LEMMA LineType ==
  ASSUME NEW c \in ConnType, NEW a \in ConnType, NEW r \in Seq(Units)
  PROVE  /\ c.written \in Seq(Units) /\ c.outputBuffer_ \in Seq(Units)
         /\ a.inputBuffer_ \in Seq(Units)
         /\ c.written \o c.outputBuffer_ \in Seq(Units)
         /\ (c.written \o c.outputBuffer_) \o a.inputBuffer_ \in Seq(Units)
         /\ Line(c, a, r) \in Seq(Units)
BY JoinLen DEF ConnType, Line

\* Both streams are whole: what comes from x was r and is r2 now, what goes there
\* is z.
SameLines(s, t, x, r, r2, z) ==
  /\ Line(t.conn[Other(x)], t.conn[x], r2) = Line(s.conn[Other(x)], s.conn[x], r)
  /\ Line(t.conn[x], t.conn[Other(x)], z) = Line(s.conn[x], s.conn[Other(x)], z)

\* Reading takes nothing from the streams and adds nothing, ...
LEMMA LineReceived ==
  ASSUME NEW s \in RelayType, NEW x \in Sides, NEW y, NEW data \in Seq(Units),
         Received(s, y, x, data), NEW r, NEW r2 \in Seq(Units), data \o r2 = r, NEW z
  PROVE  SameLines(s, y, x, r, r2, z)
<1>1. PICK o \in Sides : o = Other(x)
  BY Others
<1>2. PICK c \in ConnType, a \in ConnType, b \in ConnType :
        c = s.conn[o] /\ a = s.conn[x] /\ b = y.conn[x]
  BY RelayFields DEF Received
<1>3. /\ y.conn[o] = c /\ b.inputBuffer_ = a.inputBuffer_ \o data
      /\ b.written = a.written /\ b.outputBuffer_ = a.outputBuffer_
  BY <1>1, <1>2 DEF Received
<1>4. PICK w, i : w = c.written \o c.outputBuffer_ /\ i = a.inputBuffer_
  OBVIOUS
<1>5. w \in Seq(Units) /\ i \in Seq(Units)
  BY <1>4, LineType
<1>6. /\ Assoc(w \o i, data, r2) /\ Assoc(w, i, data)
  BY <1>5, Joins, JoinLen
<1>7. (w \o (i \o data)) \o r2 = (w \o i) \o r
  BY <1>6 DEF Assoc
<1> QED BY <1>1, <1>2, <1>3, <1>4, <1>7 DEF Line, SameLines

\* ... and neither does passing a message on.
LEMMA LineForwarded ==
  ASSUME NEW y \in RelayType, NEW x \in Sides, NEW t, Forwarded(y, t, Other(x)), NEW r, NEW z
  PROVE  SameLines(y, t, x, r, r, z)
<1>1. PICK o \in Sides : o = Other(x) /\ Other(o) = x
  BY Others
<1>2. PICK c \in ConnType, a \in ConnType, d \in ConnType, b \in ConnType :
        c = y.conn[o] /\ a = y.conn[x] /\ d = t.conn[o] /\ b = t.conn[x]
  BY RelayFields DEF Forwarded
<1>3. /\ b.inputBuffer_ = <<>> /\ b.outputBuffer_ = a.outputBuffer_ /\ b.written = a.written
      /\ d.inputBuffer_ = c.inputBuffer_
      /\ d.written \o d.outputBuffer_ = (c.written \o c.outputBuffer_) \o a.inputBuffer_
  BY <1>1, <1>2 DEF Forwarded, Given
<1>4. PICK w : w = (c.written \o c.outputBuffer_) \o a.inputBuffer_
  OBVIOUS
<1>5. w \in Seq(Units)
  BY <1>4, JoinLen DEF ConnType
<1>6. w \o <<>> = w
  BY <1>5, JoinEmpty
<1> QED BY <1>1, <1>2, <1>3, <1>4, <1>6 DEF Line, SameLines

\* What the peer of serverConn_ has sent is its script, then its data.
Follows(b, sc) == \A i \in 1..Len(b) : i <= Len(sc) => b[i] = sc[i]

Scripted(sc, m) ==
  /\ m = "socks4a" => sc \in Requests
  /\ m = "tcprelay" => sc = <<>>

\* What was cut from the front of the stream to the backend.
Cut(be, sc) == IF be = "none" THEN <<>> ELSE sc

StreamUp(s, r, sn, sc, be) ==
  Cut(be, sc) \o Line(s.conn["client"], s.conn["server"], r["server"]) = sn["server"]

StreamDown(s, r, sn, be, m) ==
  \E answer \in {<<>>, <<"r">>, <<"x">>} :
    /\ Line(s.conn["server"], s.conn["client"], r["client"]) = answer \o sn["client"]
    /\ (answer = <<"r">>) <=> (m = "socks4a" /\ be # "none")

\* Before the backend has accepted nothing has come from it.
Quiet(r, sn, pr, be) ==
  be # "done" => r["client"] = <<>> /\ sn["client"] = <<>> /\ pr["client"] = "open"

\* A request that was refused, whatever comes after it.
Refused(b) == Len(b) > kMaxRequest \/ (b # <<>> /\ b[1] \notin {"v4", "v4a"})

\* Who is told that the stream has ended, and when.
Endings(s, be) ==
  LET a == s.conn["server"]
      c == s.conn["client"]
  IN  /\ c.state_ = "kConnected" => a.inputBuffer_ = <<>>
      /\ a.state_ = "kConnected" => c.inputBuffer_ = <<>>
      /\ a.fin => a.outputBuffer_ = <<>> /\ a.state_ \in {"kDisconnecting", "kDisconnected"}
      /\ c.fin => c.outputBuffer_ = <<>> /\ c.state_ \in {"kDisconnecting", "kDisconnected"}
      /\ c.fin \/ c.state_ = "kDisconnecting" =>
           a.state_ = "kDisconnected" /\ a.inputBuffer_ = <<>>
      /\ a.fin \/ a.state_ = "kDisconnecting" =>
           be = "none" \/ (c.state_ = "kDisconnected" /\ c.inputBuffer_ = <<>>)
      /\ be = "none" /\ a.state_ = "kDisconnecting" => Refused(a.inputBuffer_)

StreamInv ==
  /\ Scripted(script, mode) /\ Follows(sent["server"], script)
  /\ Endings(relay, backend) /\ Quiet(rcv, sent, peer, backend)
  /\ peer["server"] # "reset" => StreamUp(relay, rcv, sent, script, backend)
  /\ peer["client"] # "reset" => StreamDown(relay, rcv, sent, backend, mode)

\* The streams start empty.
LEMMA InitStreams == Init => StreamInv
<1> SUFFICES ASSUME Init PROVE StreamInv
  OBVIOUS
<1> DEFINE s == [conn |-> [x \in Sides |->
                        IF x = "server" THEN NewConn("kConnected", mode = "socks4a")
                        ELSE NewConn("none", FALSE)],
                 context_ |-> FALSE, clientConn_ |-> FALSE, connection_ |-> FALSE,
                 callbacks |-> FALSE, tunnels |-> FALSE, 
                 freed |-> FALSE, pending |-> <<>>, fault |-> "none"]
<1>1. PICK a, c : a = relay.conn["server"] /\ c = relay.conn["client"]
  OBVIOUS
<1>2. relay = IF mode = "tcprelay" THEN Setup(s) ELSE s
  BY DEF Init, Accepted
<1>3. /\ a.state_ = "kConnected" /\ a.inputBuffer_ = <<>> /\ a.outputBuffer_ = <<>>
      /\ a.written = <<>> /\ ~a.fin
      /\ c.state_ = "none" /\ c.inputBuffer_ = <<>> /\ c.outputBuffer_ = <<>>
      /\ c.written = <<>> /\ ~c.fin
  BY <1>1, <1>2 DEF Setup, Sides, NewConn
<1>4. /\ rcv["server"] = <<>> /\ rcv["client"] = <<>>
      /\ sent["server"] = <<>> /\ sent["client"] = <<>>
      /\ peer["client"] = "open" /\ mode \in {"tcprelay", "socks4a"}
      /\ backend = (IF mode = "tcprelay" THEN "connecting" ELSE "none")
      /\ script \in IF mode = "socks4a" THEN Requests ELSE {<<>>}
  BY TwoSides DEF Init
<1>5. <<>> \o <<>> = <<>>
  OBVIOUS
<1>6. Line(c, a, <<>>) = <<>> /\ Line(a, c, <<>>) = <<>>
  BY <1>3, <1>5 DEF Line
<1>7. Scripted(script, mode) /\ Follows(sent["server"], script)
  BY <1>4 DEF Scripted, Follows
<1>8. Endings(relay, backend) /\ Quiet(rcv, sent, peer, backend)
  BY <1>1, <1>3, <1>4 DEF Endings, Quiet
<1>9. StreamUp(relay, rcv, sent, script, backend)
  BY <1>1, <1>4, <1>5, <1>6 DEF StreamUp, Cut
<1>10. StreamDown(relay, rcv, sent, backend, mode)
  <2>1. <<>> # <<"r">>
    OBVIOUS
  <2> QED BY <2>1, <1>1, <1>4, <1>5, <1>6 DEF StreamDown
<1> QED BY <1>7, <1>8, <1>9, <1>10 DEF StreamInv


\* A connection whose stream, state and end are as they were.
Alike(c, d) == SameStreams(c, d) /\ d.state_ = c.state_ /\ d.fin = c.fin

\* Endings depends on the streams, the states and the ends only.
LEMMA EndingsAlike ==
  ASSUME NEW s, NEW t, NEW be, NEW be2, Endings(s, be), be2 = "none" <=> be = "none",
         \A x \in Sides : Alike(s.conn[x], t.conn[x])
  PROVE  Endings(t, be2)
<1>1. /\ Alike(s.conn["server"], t.conn["server"])
      /\ Alike(s.conn["client"], t.conn["client"])
  BY TwoSides
<1> QED BY <1>1 DEF Endings, Alike, SameStreams

\* So do the lines.
LEMMA LinesAlike ==
  ASSUME NEW s, NEW t, NEW x \in Sides, NEW r, NEW r2, r2 = r,
         \A z \in Sides : SameStreams(s.conn[z], t.conn[z])
  PROVE  Line(t.conn[x], t.conn[Other(x)], r2[Other(x)])
           = Line(s.conn[x], s.conn[Other(x)], r[Other(x)])
<1>1. SameStreams(s.conn[x], t.conn[x]) /\ SameStreams(s.conn[Other(x)], t.conn[Other(x)])
  BY Others
<1> QED BY <1>1 DEF Line, SameStreams

\* What has to be shown of a step of the loop that sends no answer.
LEMMA StreamsFrom ==
  ASSUME StreamInv, UNCHANGED <<mode, script, sent, peer>>,
         backend' = "none" <=> backend = "none", backend = "done" => backend' = "done",
         \A x \in Sides : Line(relay'.conn[x], relay'.conn[Other(x)], rcv'[Other(x)])
                            = Line(relay.conn[x], relay.conn[Other(x)], rcv[Other(x)]),
         Endings(relay', backend'), rcv'["client"] = <<>> \/ rcv' = rcv \/ backend = "done"
  PROVE  StreamInv'
<1>1. /\ Line(relay'.conn["client"], relay'.conn["server"], rcv'["server"])
           = Line(relay.conn["client"], relay.conn["server"], rcv["server"])
      /\ Line(relay'.conn["server"], relay'.conn["client"], rcv'["client"])
           = Line(relay.conn["server"], relay.conn["client"], rcv["client"])
  BY TwoSides
<1>2. Cut(backend', script) = Cut(backend, script)
  BY DEF Cut
<1>3. Quiet(rcv', sent, peer, backend')
  BY DEF StreamInv, Quiet
<1>4. StreamUp(relay, rcv, sent, script, backend) => StreamUp(relay', rcv', sent, script, backend')
  BY <1>1, <1>2 DEF StreamUp
<1>5. StreamDown(relay, rcv, sent, backend, mode) => StreamDown(relay', rcv', sent, backend', mode)
  BY <1>1 DEF StreamDown
<1> QED BY <1>3, <1>4, <1>5 DEF StreamInv

\* A step that leaves the streams alone.
LEMMA StreamsAlike ==
  ASSUME StreamInv, UNCHANGED <<mode, script, sent, rcv, peer>>,
         backend' = "none" <=> backend = "none", backend = "done" => backend' = "done",
         \A x \in Sides : Alike(relay.conn[x], relay'.conn[x])
  PROVE  StreamInv'
<1>1. Endings(relay', backend')
  BY EndingsAlike DEF StreamInv
<1>2. \A z \in Sides : SameStreams(relay.conn[z], relay'.conn[z])
  BY DEF Alike
<1>4. UNCHANGED <<mode, script, sent, peer>> /\ rcv' = rcv
  OBVIOUS
<1>3. ASSUME NEW x \in Sides
      PROVE  Line(relay'.conn[x], relay'.conn[Other(x)], rcv'[Other(x)])
               = Line(relay.conn[x], relay.conn[Other(x)], rcv[Other(x)])
  BY <1>2, <1>4, LinesAlike
<1> QED BY <1>1, <1>3, <1>4, StreamsFrom

\* A connection that was not touched.
LEMMA AlikeSelf == \A c : Alike(c, c)
BY DEF Alike, SameStreams

\* No functor touches a stream: the callbacks only switch reading.
LEMMA FunctorStreams ==
  ASSUME TunnelInv, StreamInv, RunFunctor
  PROVE  StreamInv'
<1>1. relay.fault = "none" /\ relay \in RelayType
      /\ UNCHANGED <<mode, script, sent, rcv, peer, backend>>
  BY DEF RunFunctor, InIteration, Running, netVars, TunnelInv, TunnelTypes
<1>2. PICK on, x : on = batch[1].on /\ x = batch[1].side
  OBVIOUS
<1>3. /\ x \in Sides
      /\ \/ relay' = ConnectionDestroyed(relay, x) \/ relay' = relay
         \/ relay' = OnHighWaterMark(relay, x) \/ relay' = OnWriteComplete(relay, x)
  BY <1>2, FunctorCases
<1>4. \/ relay' = relay \/ Faulted(relay, relay', "null") \/ Faulted(relay, relay', "assert")
      \/ Destroyed(relay, relay', x) \/ \E b \in BOOLEAN : Switched(relay, relay', x, b)
  BY <1>1, <1>3, DestroyedEffect, HighWaterMarkEffect, WriteCompleteEffect
<1>5. CASE relay' = relay \/ Faulted(relay, relay', "null") \/ Faulted(relay, relay', "assert")
  <2>1. relay'.conn = relay.conn
    BY <1>5 DEF Faulted
  <2> QED BY <2>1, <1>1, AlikeSelf, StreamsAlike
<1>6. ASSUME Alike(relay.conn[x], relay'.conn[x]), Alike(relay.conn[Other(x)], relay'.conn[Other(x)])
      PROVE  StreamInv'
  <2>1. \A z \in Sides : Alike(relay.conn[z], relay'.conn[z])
    BY <1>3, <1>6, TwoSides
  <2> QED BY <2>1, <1>1, StreamsAlike
<1>7. CASE Destroyed(relay, relay', x)
  BY <1>6, <1>7, AlikeSelf DEF Destroyed, Alike
<1>8. CASE \E b \in BOOLEAN : Switched(relay, relay', x, b)
  BY <1>6, <1>8 DEF Switched, Alike
<1> QED BY <1>4, <1>5, <1>7, <1>8

\* Nor do the loop's own steps.
LEMMA IdleStreams ==
  ASSUME TunnelInv, StreamInv,
         Poll \/ HandleError \/ DoPendingFunctors \/ FunctorsDone \/ BackendAccepts
  PROVE  StreamInv'
<1>1. relay \in RelayType
  BY DEF TunnelInv, TunnelTypes
<1>2. relay'.conn = relay.conn
  BY <1>1 DEF Poll, HandleError, Event, DoPendingFunctors, FunctorsDone, BackendAccepts, RelayType
<1>3. UNCHANGED <<mode, script, sent, rcv, peer>>
  BY DEF Poll, HandleError, Event, DoPendingFunctors, FunctorsDone, BackendAccepts, netVars
<1>4. backend' = backend \/ (backend = "connecting" /\ backend' = "accepted")
  BY DEF Poll, HandleError, Event, DoPendingFunctors, FunctorsDone, BackendAccepts
<1> QED BY <1>2, <1>3, <1>4, AlikeSelf, StreamsAlike

\* The stream of a connection that is written is the same; it ends when all of
\* it is.
LEMMA WriteStreams ==
  ASSUME TunnelInv, StreamInv, HandleWrite
  PROVE  StreamInv'
<1>0. Event("OUT") /\ UNCHANGED <<rcv, backend>>
  BY DEF HandleWrite
<1>1. relay \in RelayType /\ UNCHANGED <<mode, script, sent, peer>>
  BY <1>0, EventFacts DEF Event
<1>2. PICK x \in Sides : x = active[1].side
  BY <1>0, EventFacts
<1>3. PICK c \in ConnType : c = relay.conn[x]
  BY <1>1, RelayFields
<1>4. CASE UNCHANGED relay
  BY <1>0, <1>1, <1>4, AlikeSelf, StreamsAlike
<1>5. ASSUME NEW k \in 1..Len(c.outputBuffer_), relay' = Written(relay, x, k)
      PROVE  StreamInv'
  <2>1. Wrote(relay, relay', x, k)
    BY <1>1, <1>3, <1>5, WriteEffect
  <2>2. PICK o \in Sides : o = Other(x) /\ Other(o) = x
    BY Others
  <2>3. PICK d : d = relay'.conn[x]
    OBVIOUS
  <2>4. /\ relay'.conn[o] = relay.conn[o] /\ relay' \in RelayType
        /\ d.inputBuffer_ = c.inputBuffer_ /\ d.state_ = c.state_
        /\ d.written \o d.outputBuffer_ = c.written \o c.outputBuffer_
        /\ Len(d.outputBuffer_) = Len(c.outputBuffer_) - k
        /\ d.fin <=> c.fin \/ (k = Len(c.outputBuffer_) /\ c.state_ = "kDisconnecting")
    BY <2>1, <2>2, <2>3, <1>3 DEF Wrote
  <2>5. d \in ConnType
    BY <2>3, <2>4, RelayFields
  <2>6. d.fin => (c.fin \/ c.state_ = "kDisconnecting") /\ (~c.fin => d.outputBuffer_ = <<>>)
    <3>1. /\ Len(d.outputBuffer_) \in Nat /\ Len(c.outputBuffer_) \in Nat
          /\ Len(d.outputBuffer_) = 0 => d.outputBuffer_ = <<>>
      BY <2>5, EmptyLen DEF ConnType
    <3> QED BY <3>1, <2>4
  <2>7. c.outputBuffer_ # <<>>
    <3>1. c.outputBuffer_ \in Seq(Units) /\ Len(c.outputBuffer_) # 0
      BY <1>5 DEF ConnType
    <3> QED BY <3>1, EmptyLen
  <2>8. Endings(relay', backend')
    <3>1. Endings(relay, backend)
      BY DEF StreamInv
    <3>2. CASE x = "server"
      <4>1. o = "client" /\ relay'.conn["client"] = relay.conn["client"]
        BY <3>2, <2>2, <2>4, TwoSides
      <4> QED BY <3>1, <3>2, <4>1, <2>3, <2>4, <2>6, <2>7, <1>0, <1>3 DEF Endings
    <3>3. CASE x = "client"
      <4>1. o = "server" /\ relay'.conn["server"] = relay.conn["server"]
        BY <3>3, <2>2, <2>4, TwoSides
      <4> QED BY <3>1, <3>3, <4>1, <2>3, <2>4, <2>6, <2>7, <1>0, <1>3 DEF Endings
    <3> QED BY <3>2, <3>3, TwoSides
  <2>9. \A z \in Sides : Line(relay'.conn[z], relay'.conn[Other(z)], rcv'[Other(z)])
                            = Line(relay.conn[z], relay.conn[Other(z)], rcv[Other(z)])
    <3>1. \A r : /\ Line(relay'.conn[x], relay'.conn[o], r) = Line(relay.conn[x], relay.conn[o], r)
                 /\ Line(relay'.conn[o], relay'.conn[x], r) = Line(relay.conn[o], relay.conn[x], r)
      BY <2>3, <2>4, <1>3 DEF Line
    <3> QED BY <3>1, <2>2, <1>0, TwoSides
  <2>10. rcv' = rcv /\ backend' = backend
    BY <1>0
  <2> QED BY <1>1, <2>8, <2>9, <2>10, StreamsFrom
<1>6. CASE /\ IsWriting(c)
           /\ \E k \in {n \in Room(x) : n > 0 /\ n <= Len(c.outputBuffer_)} :
                relay' = Written(relay, x, k)
  <2>1. PICK k \in Room(x) : k > 0 /\ k <= Len(c.outputBuffer_) /\ relay' = Written(relay, x, k)
    BY <1>6
  <2>2. k \in Nat /\ Len(c.outputBuffer_) \in Nat
    BY <2>1, TunnelAssumption, EmptyLen DEF Room, ConnType
  <2>3. k \in 1..Len(c.outputBuffer_)
    BY <2>1, <2>2
  <2> QED BY <2>1, <2>3, <1>5
<1> QED BY <1>2, <1>3, <1>4, <1>6 DEF HandleWrite, Written

\* When serverConn_ goes down, disconnect() ends the stream to the backend only
\* because all of it was passed on.
LEMMA ServerClosedEnds ==
  ASSUME NEW s \in RelayType, NEW t, NEW q, NEW be, NEW m, Endings(s, be), Life(s, q, be),
         Registered(s, q, be, m), Up(s.conn["server"]), ServerClosed(s, t)
  PROVE  Endings(t, be)
<1>1. PICK a, b, c, d : /\ a = s.conn["server"] /\ b = t.conn["server"]
                        /\ c = s.conn["client"] /\ d = t.conn["client"]
  OBVIOUS
<1>2. Closed(a, b) /\ Up(a)
  BY <1>1 DEF ServerClosed
<1>3. /\ d.state_ # "kConnected" /\ SameStreams(c, d)
      /\ \/ d.state_ = c.state_ /\ (d.fin <=> c.fin)
         \/ /\ d.state_ = "kDisconnecting" /\ c.state_ = "kConnected"
            /\ (d.fin <=> c.fin \/ c.outputBuffer_ = <<>>)
  <2>1. CASE s.tunnels /\ s.connection_
    <3>1. ShutConn(c, d)
      BY <2>1, <1>1 DEF ServerClosed
    <3> QED BY <3>1 DEF ShutConn
  <2>2. CASE ~(s.tunnels /\ s.connection_)
    <3>1. d = c
      BY <2>2, <1>1 DEF ServerClosed
    <3>2. c.state_ # "kConnected"
      BY <2>2, <1>1, <1>2 DEF Life, Registered, Up
    <3> QED BY <3>1, <3>2 DEF SameStreams
  <2> QED BY <2>1, <2>2
<1>4. a.state_ # "kDisconnected"
  BY <1>2 DEF Up
<1> QED BY <1>1, <1>2, <1>3, <1>4 DEF Endings, Closed, SameStreams

\* When clientConn_ goes down, so does teardown().
LEMMA ClientClosedEnds ==
  ASSUME NEW s \in RelayType, NEW t, NEW q, NEW be, Endings(s, be), Life(s, q, be),
         Up(s.conn["client"]), ClientClosed(s, t)
  PROVE  Endings(t, be)
<1>1. PICK a, b, c, d : /\ a = s.conn["server"] /\ b = t.conn["server"]
                        /\ c = s.conn["client"] /\ d = t.conn["client"]
  OBVIOUS
<1>2. Closed(c, d) /\ Up(c) /\ ShutConn(a, b)
  BY <1>1 DEF ClientClosed
<1>3. c.state_ # "kDisconnected" /\ be # "none"
  BY <1>1, <1>2 DEF Up, Life
<1> QED BY <1>1, <1>2, <1>3 DEF Endings, Closed, ShutConn, SameStreams

\* handleClose() loses nothing.
LEMMA CloseStreams ==
  ASSUME TunnelInv, StreamInv, HandleReadEnd \/ HandleHup
  PROVE  StreamInv'
<1>1. PICK on \in {"IN", "HUP"} : Event(on)
  BY DEF HandleReadEnd, HandleHup
<1>2. /\ relay \in RelayType /\ relay.fault = "none" /\ active[1].on = on
      /\ EventOK(active[1], relay, backend, rcv, peer)
      /\ Control(relay, relay.pending, "events", backend, mode)
      /\ UNCHANGED <<mode, script, sent, peer>>
  BY <1>1, EventFacts DEF Event
<1>3. PICK x \in Sides : x = active[1].side
  BY <1>1, EventFacts
<1>4. relay' = HandleClose(relay, x) /\ UNCHANGED <<rcv, backend>>
  BY <1>3 DEF HandleReadEnd, HandleHup
<1>5. /\ Life(relay, relay.pending, backend) /\ Registered(relay, relay.pending, backend, mode)
      /\ Endings(relay, backend)
  BY <1>2, ControlParts DEF StreamInv
<1>6. ASSUME SameStreams(relay.conn["server"], relay'.conn["server"]),
             SameStreams(relay.conn["client"], relay'.conn["client"]), Endings(relay', backend)
      PROVE  StreamInv'
  <2>2. rcv' = rcv /\ backend' = backend
    BY <1>4
  <2>1. ASSUME NEW z \in Sides
        PROVE  Line(relay'.conn[z], relay'.conn[Other(z)], rcv'[Other(z)])
                 = Line(relay.conn[z], relay.conn[Other(z)], rcv[Other(z)])
    <3>1. \A w \in Sides : SameStreams(relay.conn[w], relay'.conn[w])
      BY <1>6, TwoSides
    <3> QED BY <3>1, <2>2, LinesAlike
  <2> QED BY <2>1, <2>2, <1>2, <1>6, StreamsFrom
<1>7. CASE ~Up(relay.conn[x])
  <2>1. Faulted(relay, relay', "assert")
    BY <1>2, <1>4, <1>7, FaultEffect DEF HandleClose
  <2>2. relay'.conn = relay.conn
    BY <2>1 DEF Faulted
  <2> QED BY <2>2, <1>2, <1>4, AlikeSelf, StreamsAlike
<1>8. CASE x = "server" /\ Up(relay.conn[x])
  <2>1. mode = "tcprelay" => relay.tunnels
    BY <1>5, <1>8 DEF Registered
  <2>2. ServerClosed(relay, relay')
    BY <2>1, <1>2, <1>4, <1>8, ServerCloseEffect
  <2>3. Endings(relay', backend)
    BY <2>2, <1>2, <1>5, <1>8, ServerClosedEnds
  <2>4. /\ SameStreams(relay.conn["server"], relay'.conn["server"])
        /\ SameStreams(relay.conn["client"], relay'.conn["client"])
    BY <2>2 DEF ServerClosed, Closed, ShutConn, SameStreams
  <2> QED BY <2>3, <2>4, <1>6
<1>9. CASE x = "client" /\ Up(relay.conn[x])
  <2>1. ClientClosed(relay, relay')
    BY <1>2, <1>4, <1>9, ClientCloseEffect
  <2>2. Endings(relay', backend)
    BY <2>1, <1>2, <1>5, <1>9, ClientClosedEnds
  <2>3. /\ SameStreams(relay.conn["server"], relay'.conn["server"])
        /\ SameStreams(relay.conn["client"], relay'.conn["client"])
    BY <2>1 DEF ClientClosed, Closed, ShutConn
  <2> QED BY <2>2, <2>3, <1>6
<1> QED BY <1>7, <1>8, <1>9, TwoSides

\* newConnection() sends first what came before the backend accepted.
LEMMA ConnectStreams ==
  ASSUME TunnelInv, StreamInv, NewConnection
  PROVE  StreamInv'
<1>0. Event("connect") /\ backend' = "done" /\ rcv' = rcv
  BY DEF NewConnection
<1>1. /\ relay \in RelayType /\ active[1].on = "connect"
      /\ EventOK(active[1], relay, backend, rcv, peer)
      /\ Control(relay, relay.pending, "events", backend, mode)
      /\ UNCHANGED <<mode, script, sent, peer>>
  BY <1>0, EventFacts DEF Event
<1>2. backend = "accepted"
  BY <1>1 DEF EventOK
<1>3. Connected(relay, relay')
  <2>1. PICK n \in Room("client") : relay' = OnClientConnection(
                        [relay EXCEPT !.conn["client"] = NewConn("kConnected", TRUE),
                                      !.connection_ = TRUE], n)
    BY DEF NewConnection
  <2>2. n \in Nat
    BY <2>1, RoomType
  <2> QED BY <2>1, <2>2, <1>1, NewConnectionEffect
<1>4. PICK y : Opened(relay, y) /\ Forwarded(y, relay', "client")
  BY <1>3 DEF Connected
<1>5. PICK a, c : a = relay.conn["server"] /\ c = relay.conn["client"]
  OBVIOUS
<1>6. c.state_ = "none" /\ c = NewConn("none", FALSE)
  <2>1. Life(relay, relay.pending, backend)
    BY <1>1, ControlParts
  <2> QED BY <2>1, <1>2, <1>5 DEF Life
<1>7. c.inputBuffer_ = <<>> /\ c.outputBuffer_ = <<>> /\ c.written = <<>>
  BY <1>6 DEF NewConn
<1>8. PICK b, d : b = y.conn["server"] /\ d = y.conn["client"]
  OBVIOUS
<1>9. /\ d.inputBuffer_ = <<>> /\ d.outputBuffer_ = <<>> /\ d.written = <<>>
      /\ d.state_ = "kConnected" /\ ~d.fin
  <2>1. d = [NewConn("kConnected", TRUE) EXCEPT !.highWaterMarkCallback_ = TRUE]
    BY <1>4, <1>8 DEF Opened
  <2> QED BY <2>1 DEF NewConn
<1>10. y \in RelayType /\ SameStreams(a, b) /\ b.state_ = a.state_ /\ b.fin = a.fin
  BY <1>4, <1>5, <1>8 DEF Opened
<1>11. \A r : Line(d, b, r) = Line(c, a, r) /\ Line(b, d, r) = Line(a, c, r)
  BY <1>7, <1>9, <1>10 DEF Line, SameStreams
<1>12. PICK a2, c2 : a2 = relay'.conn["server"] /\ c2 = relay'.conn["client"]
  OBVIOUS
<1>13. \A r : Line(c2, a2, r) = Line(d, b, r) /\ Line(a2, c2, r) = Line(b, d, r)
  <2>1. ASSUME NEW r PROVE SameLines(y, relay', "server", r, r, r)
    BY <1>4, <1>10, LineForwarded, TwoSides
  <2> QED BY <2>1, <1>8, <1>12, TwoSides DEF SameLines
<1>14. /\ a2.inputBuffer_ = <<>> /\ a2.outputBuffer_ = b.outputBuffer_ /\ SameControl(b, a2)
       /\ c2.inputBuffer_ = <<>> /\ SameControl(d, c2)
  BY <1>4, <1>8, <1>9, <1>12, TwoSides DEF Forwarded, Given
<1>15. Endings(relay, backend)
  BY DEF StreamInv
<1>16. ~a.fin /\ a.state_ # "kDisconnecting"
  BY <1>2, <1>5, <1>6, <1>15 DEF Endings
<1>17. Endings(relay', backend')
  BY <1>9, <1>10, <1>12, <1>14, <1>16 DEF Endings, SameControl
<1>18. \A x \in Sides : Line(relay'.conn[x], relay'.conn[Other(x)], rcv'[Other(x)])
                            = Line(relay.conn[x], relay.conn[Other(x)], rcv[Other(x)])
  BY <1>0, <1>5, <1>11, <1>12, <1>13, TwoSides
<1> QED BY <1>0, <1>1, <1>2, <1>17, <1>18, StreamsFrom

------------------------------------------------------------------------------
(* The peers.                                                               *)

\* What a peer sends is at the end of its stream.
LEMMA PeerSendsStreams ==
  ASSUME TunnelInv, StreamInv, NEW x \in Sides, PeerSends(x)
  PROVE  StreamInv'
<1>1. /\ UNCHANGED <<mode, script, peer, backend, relay>> /\ Alive(x)
  BY DEF PeerSends
<1>2. PICK d : /\ d = IF x = "server" /\ Len(sent[x]) < Len(script)
                        THEN script[Len(sent[x]) + 1] ELSE Data(Len(sent[x]))
               /\ sent' = [sent EXCEPT ![x] = Append(@, d)]
               /\ rcv' = [rcv EXCEPT ![x] = Append(@, d)]
  BY DEF PeerSends
<1>3. /\ script \in Seq(Units) /\ sent \in [Sides -> Seq(Units)] /\ rcv \in [Sides -> Seq(Units)]
      /\ relay \in RelayType
  BY DEF TunnelInv, TunnelTypes
<1>4. d \in Units
  <2>1. Len(sent[x]) \in Nat /\ Len(script) \in Nat
    BY <1>3
  <2>2. Len(sent[x]) < Len(script) => script[Len(sent[x]) + 1] \in Units
    BY <2>1, <1>3
  <2>3. Data(Len(sent[x])) \in Units
    BY DEF Data, Units
  <2> QED BY <2>2, <2>3, <1>2
<1>5. /\ sent'[x] = sent[x] \o <<d>> /\ rcv'[x] = rcv[x] \o <<d>> /\ <<d>> \in Seq(Units)
      /\ \A z \in Sides : z # x => sent'[z] = sent[z] /\ rcv'[z] = rcv[z]
  <2>1. sent[x] \in Seq(Units) /\ rcv[x] \in Seq(Units)
    BY <1>3
  <2>2. Append(sent[x], d) = sent[x] \o <<d>> /\ Append(rcv[x], d) = rcv[x] \o <<d>>
    BY <2>1, <1>4, AppendIsConcat
  <2>3. <<d>> \in Seq(Units)
    BY <1>4
  <2> QED BY <2>2, <2>3, <1>2, <1>3
<1>6. ASSUME NEW w \in Seq(Units), Line(relay.conn[Other(x)], relay.conn[x], rcv[x]) = w
      PROVE  Line(relay.conn[Other(x)], relay.conn[x], rcv'[x]) = w \o <<d>>
  <2>1. PICK c \in ConnType, a \in ConnType : c = relay.conn[Other(x)] /\ a = relay.conn[x]
    BY <1>3, RelayFields, Others
  <2>2. PICK l : l = (c.written \o c.outputBuffer_) \o a.inputBuffer_
    OBVIOUS
  <2>3. l \in Seq(Units) /\ rcv[x] \in Seq(Units)
    BY <2>2, <1>3, JoinLen DEF ConnType
  <2>4. Assoc(l, rcv[x], <<d>>)
    BY <2>3, <1>5, Joins
  <2> QED BY <2>1, <2>2, <2>4, <1>5, <1>6 DEF Line, Assoc
<1>7. Follows(sent'["server"], script)
  <2>1. Follows(sent["server"], script)
    BY DEF StreamInv
  <2>2. CASE x # "server"
    BY <2>1, <2>2, <1>5, TwoSides
  <2>3. CASE x = "server"
    <3>1. PICK b \in Seq(Units) : b = sent["server"]
      BY <1>3, TwoSides
    <3>2. sent'["server"] = Append(b, d) /\ Len(b) \in Nat /\ Len(script) \in Nat
      BY <3>1, <2>3, <1>2, <1>3, TwoSides
    <3>3. /\ Len(Append(b, d)) = Len(b) + 1 /\ Append(b, d)[Len(b) + 1] = d
          /\ \A i \in 1..Len(b) : Append(b, d)[i] = b[i]
      BY <3>1, <1>4, AppendProperties
    <3>4. Len(b) + 1 <= Len(script) => d = script[Len(b) + 1]
      BY <3>1, <3>2, <2>3, <1>2
    <3>5. ASSUME NEW i \in 1..(Len(b) + 1), i <= Len(script)
          PROVE  Append(b, d)[i] = script[i]
      <4>1. CASE i = Len(b) + 1
        BY <4>1, <3>3, <3>4, <3>5
      <4>2. CASE i # Len(b) + 1
        <5>1. i \in 1..Len(b)
          BY <4>2, <3>2
        <5> QED BY <5>1, <3>1, <3>3, <3>5, <2>1 DEF Follows
      <4> QED BY <4>1, <4>2
    <3> QED BY <3>2, <3>3, <3>5 DEF Follows
  <2> QED BY <2>2, <2>3
<1>8. Quiet(rcv', sent', peer, backend)
  <2>1. Quiet(rcv, sent, peer, backend)
    BY DEF StreamInv
  <2>2. CASE x = "client"
    BY <2>2, <1>1 DEF Alive, Quiet
  <2>3. CASE x = "server"
    BY <2>1, <2>3, <1>5, TwoSides DEF Quiet
  <2> QED BY <2>2, <2>3, TwoSides
<1>9. ASSUME StreamUp(relay, rcv, sent, script, backend)
      PROVE  StreamUp(relay, rcv', sent', script, backend)
  <2>1. CASE x = "client"
    BY <2>1, <1>5, <1>9, TwoSides DEF StreamUp
  <2>2. CASE x = "server"
    <3>1. PICK w, cut : /\ w = Line(relay.conn["client"], relay.conn["server"], rcv["server"])
                        /\ cut = Cut(backend, script)
      OBVIOUS
    <3>2. w \in Seq(Units) /\ cut \in Seq(Units)
      <4>1. relay.conn["client"] \in ConnType /\ relay.conn["server"] \in ConnType
            /\ rcv["server"] \in Seq(Units)
        BY <1>3, RelayFields, TwoSides
      <4> QED BY <4>1, <3>1, <1>3, LineType, JoinEmpty DEF Cut
    <3>3. Line(relay.conn["client"], relay.conn["server"], rcv'["server"]) = w \o <<d>>
      BY <3>1, <3>2, <2>2, <1>6, TwoSides
    <3>4. Assoc(cut, w, <<d>>)
      BY <3>2, <1>5, Joins
    <3>5. cut \o w = sent["server"]
      BY <3>1, <1>9 DEF StreamUp
    <3> QED BY <3>1, <3>3, <3>4, <3>5, <2>2, <1>5 DEF StreamUp, Assoc
  <2> QED BY <2>1, <2>2, TwoSides
<1>10. ASSUME StreamDown(relay, rcv, sent, backend, mode)
       PROVE  StreamDown(relay, rcv', sent', backend, mode)
  <2>1. CASE x = "server"
    BY <2>1, <1>5, <1>10, TwoSides DEF StreamDown
  <2>2. CASE x = "client"
    <3>1. PICK answer \in {<<>>, <<"r">>, <<"x">>} :
            /\ Line(relay.conn["server"], relay.conn["client"], rcv["client"])
                 = answer \o sent["client"]
            /\ (answer = <<"r">>) <=> (mode = "socks4a" /\ backend # "none")
      BY <1>10 DEF StreamDown
    <3>2. answer \in Seq(Units) /\ sent["client"] \in Seq(Units)
      <4>1. <<>> \in Seq(Units) /\ <<"r">> \in Seq(Units) /\ <<"x">> \in Seq(Units)
        BY DEF Units
      <4> QED BY <4>1, <1>3, TwoSides
    <3>3. answer \o sent["client"] \in Seq(Units)
      BY <3>2, JoinLen
    <3>4. Line(relay.conn["server"], relay.conn["client"], rcv'["client"])
            = (answer \o sent["client"]) \o <<d>>
      BY <3>1, <3>3, <2>2, <1>6, TwoSides
    <3>5. Assoc(answer, sent["client"], <<d>>)
      BY <3>2, <1>5, Joins
    <3>6. Line(relay.conn["server"], relay.conn["client"], rcv'["client"])
            = answer \o sent'["client"]
      BY <3>4, <3>5, <2>2, <1>5 DEF Assoc
    <3> QED BY <3>1, <3>6 DEF StreamDown
  <2> QED BY <2>1, <2>2, TwoSides
<1> QED BY <1>1, <1>7, <1>8, <1>9, <1>10 DEF StreamInv

\* A peer that closes leaves its stream as it is; of one that resets nothing is
\* claimed.
LEMMA PeerEndsStreams ==
  ASSUME TunnelInv, StreamInv, NEW x \in Sides, PeerCloses(x) \/ PeerResets(x)
  PROVE  StreamInv'
<1>1. UNCHANGED <<mode, script, sent, backend, relay>> /\ Alive(x) /\ peer[x] # "reset"
  BY DEF PeerCloses, PeerResets
<1>2. /\ \A z \in Sides : z # x => rcv'[z] = rcv[z] /\ peer'[z] = peer[z]
      /\ rcv'[x] = rcv[x] \/ peer'[x] = "reset"
  BY DEF PeerCloses, PeerResets, TunnelInv, TunnelTypes
<1>3. \A z \in Sides : peer'[z] # "reset" => rcv'[z] = rcv[z] /\ peer[z] # "reset"
  BY <1>1, <1>2
<1>4. Quiet(rcv', sent, peer', backend)
  <2>1. CASE x = "client"
    BY <2>1, <1>1 DEF Alive, Quiet
  <2>2. CASE x = "server"
    BY <2>2, <1>2, TwoSides DEF Quiet, StreamInv
  <2> QED BY <2>1, <2>2, TwoSides
<1>5. peer'["server"] # "reset" => StreamUp(relay, rcv', sent, script, backend)
  BY <1>3, TwoSides DEF StreamInv, StreamUp
<1>6. peer'["client"] # "reset" => StreamDown(relay, rcv', sent, backend, mode)
  BY <1>3, TwoSides DEF StreamInv, StreamDown
<1> QED BY <1>1, <1>4, <1>5, <1>6 DEF StreamInv
------------------------------------------------------------------------------
(* handleRead().                                                            *)

\* A request of this kind, with this rest after the fixed part.
IsRequest(sc, kind, rest) ==
  /\ sc \in Seq(Units) /\ Len(sc) = kFixed + Len(rest) /\ sc[1] = kind
  /\ \A i \in 1..Len(rest) : sc[kFixed + i] = rest[i]

\* The parts of a request.
LEMMA FixedPart ==
  ASSUME NEW kind \in Units, NEW rest \in Seq(Units)
  PROVE  IsRequest(Fixed(kind) \o rest, kind, rest)
<1>1. kFixed \in Nat \ {0}
  BY TunnelAssumption
<1>2. PICK f : f = Fixed(kind)
  OBVIOUS
<1>3. f \in Seq(Units) /\ Len(f) = kFixed /\ f[1] = kind
  BY <1>1, <1>2 DEF Fixed
<1>4. /\ f \o rest \in Seq(Units) /\ Len(f \o rest) = Len(f) + Len(rest)
      /\ \A i \in 1..Len(f) + Len(rest) :
           (f \o rest)[i] = IF i <= Len(f) THEN f[i] ELSE rest[i - Len(f)]
  BY <1>3, ConcatProperties
<1>5. Len(rest) \in Nat
  OBVIOUS
<1>6. (f \o rest)[1] = kind
  BY <1>1, <1>3, <1>4, <1>5
<1>7. ASSUME NEW i \in 1..Len(rest) PROVE (f \o rest)[kFixed + i] = rest[i]
  <2>1. kFixed + i \in 1..(kFixed + Len(rest)) /\ ~(kFixed + i <= kFixed) /\ (kFixed + i) - kFixed = i
    BY <1>1, <1>5
  <2> QED BY <2>1, <1>3, <1>4
<1> QED BY <1>2, <1>3, <1>4, <1>6, <1>7 DEF IsRequest

\* After the fixed part comes the rest, as far as the buffer goes.
Continues(buf, rest) ==
  \A i \in 1..Len(rest) : kFixed + i <= Len(buf) => buf[kFixed + i] = rest[i]

\* A whole request that is granted is the peer's script, to its last unit: the
\* search for the NULs ends where the script does, whatever follows it.
LEMMA RequestIsScript ==
  ASSUME NEW sc \in Requests, NEW buf \in Seq(Units), Follows(buf, sc), Whole(buf),
         buf[1] \in {"v4", "v4a"}
  PROVE  sc \in Seq(Units) /\ RequestEnd(buf) = Len(sc)
<1>1. kFixed \in Nat \ {0} /\ kMaxRequest \in Nat
  BY TunnelAssumption
<1>2. /\ Len(buf) \in Nat /\ Len(buf) > kFixed /\ Len(buf) <= kMaxRequest /\ RequestEnd(buf) # 0
  BY DEF Whole
<1>3. "0" # "h" /\ "0" # "u" /\ "v4" # "v4a"
      /\ {"0", "h", "u", "v4", "v4a", "v4n", "bad"} \subseteq Units
  BY DEF Units
<1>4. PICK where : where = Nul(buf, kFixed)
  OBVIOUS
<1>5. IsNul(buf, kFixed, where)
  BY <1>1, <1>4, NulProps
<1>6. ASSUME NEW kind \in Units, NEW rest \in Seq(Units), sc = Fixed(kind) \o rest
      PROVE  /\ sc \in Seq(Units) /\ Len(sc) = kFixed + Len(rest) /\ Len(rest) \in Nat
             /\ (Len(rest) > 0 => buf[1] = kind)
             /\ Continues(buf, rest)
  <2>1. /\ sc \in Seq(Units) /\ Len(sc) = kFixed + Len(rest) /\ sc[1] = kind
        /\ \A i \in 1..Len(rest) : sc[kFixed + i] = rest[i]
    <3>1. IsRequest(sc, kind, rest)
      BY <1>6, FixedPart
    <3> QED BY <3>1 DEF IsRequest
  <2>2. Len(rest) \in Nat
    OBVIOUS
  <2>3. buf[1] = kind
    <3>1. 1 \in 1..Len(buf) /\ 1 <= Len(sc)
      BY <2>1, <2>2, <1>1, <1>2
    <3> QED BY <3>1, <2>1 DEF Follows
  <2>4. ASSUME NEW i \in 1..Len(rest), kFixed + i <= Len(buf) PROVE buf[kFixed + i] = rest[i]
    <3>1. kFixed + i \in 1..Len(buf) /\ kFixed + i <= Len(sc)
      BY <2>1, <2>2, <2>4, <1>1, <1>2
    <3> QED BY <3>1, <2>1 DEF Follows
  <2> QED BY <2>1, <2>2, <2>3, <2>4 DEF Continues
<1>7. ASSUME NEW rest \in Seq(Units), rest[1] = "0", Len(rest) > 0,
             Continues(buf, rest)
      PROVE  where = kFixed + 1
  <2>1. kFixed + 1 \in (kFixed + 1)..Len(buf) /\ buf[kFixed + 1] = "0"
    BY <1>1, <1>2, <1>7 DEF Continues
  <2>2. where # 0
    BY <2>1, <1>1, <1>2, <1>5 DEF IsNul
  <2>3. where \in (kFixed + 1)..Len(buf) /\ \A i \in (kFixed + 1)..(where - 1) : buf[i] # "0"
    BY <2>2, <1>5 DEF IsNul
  <2>4. ~(where > kFixed + 1)
    <3>1. SUFFICES ASSUME where > kFixed + 1 PROVE kFixed + 1 \in (kFixed + 1)..(where - 1)
      BY <2>1, <2>3
    <3> QED BY <3>1, <2>3, <1>1
  <2> QED BY <2>3, <2>4, <1>1
<1>8. CASE sc = Fixed("v4") \o <<"0">>
  <2>0. /\ <<"0">> \in Seq(Units) /\ Len(<<"0">>) = 1 /\ Len(<<"0">>) > 0
        /\ <<"0">>[1] = "0"
    BY <1>3
  <2>1. PICK rest \in Seq(Units) : /\ sc = Fixed("v4") \o rest /\ Len(rest) = 1 /\ Len(rest) > 0
                                   /\ rest[1] = "0"
    BY <2>0, <1>8
  <2>2. /\ sc \in Seq(Units) /\ Len(sc) = kFixed + 1 /\ buf[1] = "v4"
        /\ Continues(buf, rest)
    <3>1. "v4" \in Units
      BY <1>3
    <3> QED BY <3>1, <2>1, <1>6
  <2>3. where = kFixed + 1
    BY <2>1, <2>2, <1>7
  <2>4. RequestEnd(buf) = where
    BY <2>2, <1>4 DEF RequestEnd
  <2> QED BY <2>2, <2>3, <2>4
<1>9. CASE sc = Fixed("v4a") \o <<"0", "h", "0">>
  <2>0. /\ <<"0", "h", "0">> \in Seq(Units) /\ Len(<<"0", "h", "0">>) = 3
        /\ Len(<<"0", "h", "0">>) > 0
        /\ <<"0", "h", "0">>[1] = "0" /\ <<"0", "h", "0">>[2] = "h" /\ <<"0", "h", "0">>[3] = "0"
    BY <1>3
  <2>1. PICK rest \in Seq(Units) : /\ sc = Fixed("v4a") \o rest /\ Len(rest) = 3 /\ Len(rest) > 0
                                   /\ rest[1] = "0" /\ rest[2] = "h" /\ rest[3] = "0"
    BY <2>0, <1>9
  <2>2. /\ sc \in Seq(Units) /\ Len(sc) = kFixed + 3 /\ buf[1] = "v4a"
        /\ Continues(buf, rest)
    <3>1. "v4a" \in Units
      BY <1>3
    <3> QED BY <3>1, <2>1, <1>6
  <2>3. where = kFixed + 1
    BY <2>1, <2>2, <1>7
  <2>4. PICK p : p = Nul(buf, where)
    OBVIOUS
  <2>5. RequestEnd(buf) = p
    BY <2>2, <2>3, <2>4, <1>1, <1>4 DEF RequestEnd
  <2>6. IsNul(buf, where, p) /\ p # 0
    <3>1. where \in Nat
      BY <2>3, <1>1
    <3> QED BY <3>1, <2>4, <2>5, <1>2, NulProps
  <2>7. p \in (kFixed + 2)..Len(buf) /\ buf[p] = "0"
        /\ \A i \in (kFixed + 2)..(p - 1) : buf[i] # "0"
    <3>1. (kFixed + 1) + 1 = kFixed + 2
      BY <1>1
    <3> QED BY <3>1, <2>3, <2>6 DEF IsNul
  <2>8. /\ kFixed + 2 <= Len(buf) => buf[kFixed + 2] = "h"
        /\ kFixed + 3 <= Len(buf) => buf[kFixed + 3] = "0"
    BY <2>1, <2>2 DEF Continues
  <2>9. p # kFixed + 2
    BY <2>7, <2>8, <1>1, <1>2, <1>3
  <2>10. p >= kFixed + 3 /\ kFixed + 3 <= Len(buf)
    BY <2>7, <2>9, <1>1, <1>2
  <2>11. ~(p > kFixed + 3)
    <3>1. SUFFICES ASSUME p > kFixed + 3 PROVE kFixed + 3 \in (kFixed + 2)..(p - 1)
      BY <2>7, <2>8, <2>10
    <3> QED BY <3>1, <2>7, <1>1
  <2> QED BY <2>2, <2>5, <2>7, <2>10, <2>11, <1>1
<1>10. ASSUME NEW kind \in {"v4n", "bad"}, NEW rest \in Seq(Units), Len(rest) > 0,
              sc = Fixed(kind) \o rest
       PROVE  FALSE
  BY <1>3, <1>6, <1>10
<1>11. CASE sc = Fixed("v4") \o [i \in 1..kMaxRequest |-> "u"]
  <2>0. PICK rest : rest = [i \in 1..kMaxRequest |-> "u"]
    OBVIOUS
  <2>1. rest \in Seq(Units) /\ Len(rest) = kMaxRequest /\ \A i \in 1..Len(rest) : rest[i] = "u"
    BY <2>0, <1>1, <1>3
  <2>2. /\ buf[1] = "v4"
        /\ Continues(buf, rest)
    <3>1. "v4" \in Units /\ Len(rest) > 0
      BY <2>1, <1>1, <1>2, <1>3
    <3> QED BY <3>1, <2>0, <2>1, <1>6, <1>11
  <2>3. ASSUME NEW i \in (kFixed + 1)..Len(buf) PROVE buf[i] # "0"
    <3>1. i - kFixed \in 1..Len(rest) /\ kFixed + (i - kFixed) = i /\ i <= Len(buf)
      BY <2>1, <1>1, <1>2
    <3>2. buf[i] = rest[i - kFixed]
      BY <3>1, <2>2 DEF Continues
    <3> QED BY <3>1, <3>2, <2>1, <1>3
  <2>4. where = 0
    BY <2>3, <1>5 DEF IsNul
  <2> QED BY <2>4, <1>2, <1>4 DEF RequestEnd
<1>12. <<"0">> \in Seq(Units) /\ Len(<<"0">>) > 0
       /\ <<"0", "h", "0">> \in Seq(Units) /\ Len(<<"0", "h", "0">>) > 0
  BY <1>3
<1> QED BY <1>8, <1>9, <1>10, <1>11, <1>12 DEF Requests

\* So what is left in the buffer is what comes after the request.
LEMMA RequestCut ==
  ASSUME NEW sc \in Requests, NEW buf \in Seq(Units), Follows(buf, sc), Whole(buf),
         buf[1] \in {"v4", "v4a"}
  PROVE  sc \o SubSeq(buf, RequestEnd(buf) + 1, Len(buf)) = buf
<1>1. PICK end : end = RequestEnd(buf)
  OBVIOUS
<1>2. sc \in Seq(Units) /\ end = Len(sc) /\ end \in 0..Len(buf)
  BY <1>1, RequestIsScript, RequestEndType
<1>3. PICK front : front = SubSeq(buf, 1, end)
  OBVIOUS
<1>4. IsParted(buf, end, front, SubSeq(buf, end + 1, Len(buf)))
  BY <1>2, <1>3, Parts
<1>5. front \in Seq(Units) /\ Len(front) = Len(sc)
  BY <1>2, <1>4 DEF IsParted
<1>6. ASSUME NEW i \in 1..Len(front) PROVE front[i] = sc[i]
  <2>1. i \in 1..Len(buf) /\ i <= Len(sc) /\ i \in 1..end
    BY <1>2, <1>5
  <2>2. front[i] = buf[i]
    BY <1>2, <1>3, <2>1
  <2> QED BY <2>1, <2>2 DEF Follows
<1>7. front = sc
  BY <1>2, <1>5, <1>6, SeqEqual
<1> QED BY <1>1, <1>4, <1>7 DEF IsParted

\* A message is passed on.
LEMMA ForwardedEnds ==
  ASSUME NEW s \in RelayType, NEW x \in Sides, NEW y, NEW data, NEW t, Endings(s, "done"),
         Received(s, y, x, data), Forwarded(y, t, Other(x)),
         y.conn[Other(x)].state_ = "kConnected"
  PROVE  Endings(t, "done")
<1>1. PICK o \in Sides : o = Other(x) /\ Other(o) = x
  BY Others
<1>2. PICK c, d, e, f : /\ c = s.conn[x] /\ d = t.conn[x] /\ e = s.conn[o] /\ f = t.conn[o]
  OBVIOUS
<1>3. /\ d.inputBuffer_ = <<>> /\ d.outputBuffer_ = c.outputBuffer_ /\ SameControl(c, d)
      /\ f.inputBuffer_ = e.inputBuffer_ /\ SameControl(e, f) /\ e.state_ = "kConnected"
  BY <1>1, <1>2 DEF Received, Forwarded, Given, SameControl
<1>4. CASE x = "server"
  <2>1. o = "client"
    BY <1>1, <1>4, TwoSides
  <2> QED BY <1>2, <1>3, <1>4, <2>1 DEF Endings, SameControl
<1>5. CASE x = "client"
  <2>1. o = "server"
    BY <1>1, <1>5, TwoSides
  <2> QED BY <1>2, <1>3, <1>5, <2>1 DEF Endings, SameControl
<1> QED BY <1>4, <1>5, TwoSides

\* A message is kept, because the other side no longer takes it or does not yet.
LEMMA HeldEnds ==
  ASSUME NEW s \in RelayType, NEW x \in Sides, NEW y, NEW data, NEW be, NEW q,
         Endings(s, be), Life(s, q, be), be # "none", Received(s, y, x, data),
         s.conn[x].state_ # "kDisconnected",
         ~(y.conn[Other(x)].state_ = "kConnected" /\ (x = "server" => y.context_))
  PROVE  Endings(y, be)
<1>1. PICK o \in Sides : o = Other(x) /\ Other(o) = x
  BY Others
<1>2. PICK c, d, e : c = s.conn[x] /\ d = y.conn[x] /\ e = s.conn[o]
  OBVIOUS
<1>3. /\ d.outputBuffer_ = c.outputBuffer_ /\ SameControl(c, d) /\ y.conn[o] = e
      /\ c.state_ # "kDisconnected"
  BY <1>1, <1>2 DEF Received
<1>4. e.state_ # "kConnected"
  <2>1. y.context_ = s.context_
    BY DEF Received, SameFlags
  <2>2. x = "server" /\ e.state_ = "kConnected" => s.context_
    BY <1>1, <1>2, TwoSides DEF Life, Up
  <2> QED BY <2>1, <2>2, <1>1, <1>3
<1>5. CASE x = "server"
  <2>1. o = "client"
    BY <1>1, <1>5, TwoSides
  <2> QED BY <1>2, <1>3, <1>4, <1>5, <2>1 DEF Endings, SameControl
<1>6. CASE x = "client"
  <2>1. o = "server"
    BY <1>1, <1>6, TwoSides
  <2> QED BY <1>2, <1>3, <1>4, <1>6, <2>1 DEF Endings, SameControl
<1> QED BY <1>5, <1>6, TwoSides

\* A request that was refused is not granted when more comes.
LEMMA RefusedLonger ==
  ASSUME NEW b \in Seq(Units), NEW d \in Seq(Units), Refused(b)
  PROVE  Refused(b \o d)
<1>1. Len(b \o d) = Len(b) + Len(d) /\ Len(b) \in Nat /\ Len(d) \in Nat /\ b \o d \in Seq(Units)
  OBVIOUS
<1>2. kMaxRequest \in Nat
  BY TunnelAssumption
<1>3. CASE Len(b) > kMaxRequest
  BY <1>1, <1>2, <1>3 DEF Refused
<1>4. CASE b # <<>> /\ b[1] \notin {"v4", "v4a"}
  <2>1. Len(b) # 0
    BY <1>4, EmptyLen
  <2>2. (b \o d)[1] = b[1] /\ b \o d # <<>>
    <3>1. 1 \in 1..Len(b) + Len(d) /\ 1 <= Len(b) /\ Len(b \o d) # 0
      BY <2>1, <1>1
    <3>2. (b \o d)[1] = b[1]
      BY <3>1, ConcatProperties
    <3> QED BY <3>1, <3>2, <1>1, EmptyLen
  <2> QED BY <2>2, <1>4 DEF Refused
<1> QED BY <1>3, <1>4 DEF Refused

\* Of a longer sequence that follows a script, so does what comes first.
LEMMA FollowsFirst ==
  ASSUME NEW b \in Seq(Units), NEW r \in Seq(Units), NEW sc \in Seq(Units), Follows(b \o r, sc)
  PROVE  Follows(b, sc)
<1>1. SUFFICES ASSUME NEW i \in 1..Len(b), i <= Len(sc) PROVE b[i] = sc[i]
  BY DEF Follows
<1>2. /\ Len(b \o r) = Len(b) + Len(r) /\ Len(b) \in Nat /\ Len(r) \in Nat
      /\ \A j \in 1..Len(b) + Len(r) :
           (b \o r)[j] = IF j <= Len(b) THEN b[j] ELSE r[j - Len(b)]
  BY ConcatProperties
<1>3. i \in 1..Len(b) + Len(r) /\ i \in 1..Len(b \o r) /\ i <= Len(b)
  BY <1>2
<1>4. (b \o r)[i] = b[i]
  BY <1>2, <1>3
<1> QED BY <1>1, <1>3, <1>4 DEF Follows

\* Before there is a backend clientConn_ is empty.
LEMMA LineEmpty ==
  ASSUME NEW a \in ConnType, NEW c \in ConnType, c = NewConn("none", FALSE), NEW r \in Seq(Units)
  PROVE  /\ Line(c, a, r) = a.inputBuffer_ \o r
         /\ Line(a, c, <<>>) = a.written \o a.outputBuffer_
<1>1. c.written = <<>> /\ c.outputBuffer_ = <<>> /\ c.inputBuffer_ = <<>>
  BY DEF NewConn
<1>2. PICK i, w : i = a.inputBuffer_ /\ w = a.written \o a.outputBuffer_
  OBVIOUS
<1>3. i \in Seq(Units) /\ w \in Seq(Units)
  BY <1>2, LineType
<1>4. <<>> \o <<>> = <<>> /\ <<>> \o i = i /\ w \o <<>> = w
  BY <1>3, JoinEmpty
<1> QED BY <1>1, <1>2, <1>4 DEF Line

\* The request is not granted: serverConn_ is left alone, or shut down after
\* the answer "x" if it could still be sent.
Declined(y, t) ==
  LET a == y.conn["server"]
      b == t.conn["server"]
  IN  /\ t.tunnels = y.tunnels /\ t.conn["client"] = y.conn["client"]
      /\ b.inputBuffer_ = a.inputBuffer_
      /\ \/ b.written \o b.outputBuffer_ = a.written \o a.outputBuffer_
         \/ b.written \o b.outputBuffer_ = <<"x">>

\* The request is granted: it is taken from the buffer, and "r" is all that
\* serverConn_ was ever given.
Admitted(y, t) ==
  LET buf == y.conn["server"].inputBuffer_
      b == t.conn["server"]
  IN  /\ Whole(buf) /\ buf[1] \in {"v4", "v4a"} /\ t.tunnels
      /\ t.conn["client"] = y.conn["client"]
      /\ b.inputBuffer_ = SubSeq(buf, RequestEnd(buf) + 1, Len(buf))
      /\ b.written \o b.outputBuffer_ = <<"r">>

\* A request ends in one of two ways, and is answered at most once.
LEMMA RequestOutcome ==
  ASSUME NEW y \in RelayType, NEW t, NEW q, NEW m, Requested(y, t), ~y.tunnels,
         Life(y, q, "none"), Registered(y, q, "none", m), Endings(y, "none"),
         y.conn["server"].state_ # "kDisconnected"
  PROVE  /\ t \in RelayType
         /\ \/ Declined(y, t) /\ Endings(t, "none")
            \/ Admitted(y, t) /\ Endings(t, "connecting")
<1>1. PICK a \in ConnType, c \in ConnType : a = y.conn["server"] /\ c = y.conn["client"]
  BY RelayFields, TwoSides
<1>2. PICK buf \in Seq(Units) : buf = a.inputBuffer_
  BY DEF ConnType
<1>3. /\ c.state_ = "none" /\ ~c.fin /\ c.inputBuffer_ = <<>>
      /\ a.state_ \in {"kConnected", "kDisconnecting"}
  <2>1. c.state_ = "none" /\ c = NewConn("none", FALSE) /\ a.state_ # "none"
    BY <1>1 DEF Life
  <2>2. a.state_ \in {"kConnected", "kDisconnecting"}
    BY <2>1, <1>1 DEF ConnType, States
  <2> QED BY <2>1, <2>2 DEF NewConn
<1>4. a.state_ = "kConnected" => a.written = <<>> /\ a.outputBuffer_ = <<>> /\ ~a.fin
  BY <1>1 DEF Registered, Endings
<1>5. /\ a.fin => a.outputBuffer_ = <<>> /\ a.state_ = "kDisconnecting"
      /\ a.state_ = "kDisconnecting" => Refused(buf)
  BY <1>1, <1>2, <1>3 DEF Endings
<1>6. ASSUME NEW u \in RelayType, ShutDown(u, t, "server"), Refused(buf),
             u.conn["client"] = c, u.tunnels = y.tunnels,
             u.conn["server"].inputBuffer_ = buf, SameControl(a, u.conn["server"]),
             a.state_ = "kDisconnecting" => u.conn["server"] = a,
             \/ u.conn["server"].written \o u.conn["server"].outputBuffer_
                  = a.written \o a.outputBuffer_
             \/ u.conn["server"].written \o u.conn["server"].outputBuffer_ = <<"x">>
      PROVE  t \in RelayType /\ Declined(y, t) /\ Endings(t, "none")
  <2>1. PICK ua, b : ua = u.conn["server"] /\ b = t.conn["server"]
    OBVIOUS
  <2>2. /\ t \in RelayType /\ t.tunnels = y.tunnels /\ t.conn["client"] = c
        /\ ShutConn(ua, b)
    BY <2>1, <1>6, TwoSides DEF ShutDown, SameFlags
  <2>3. b.inputBuffer_ = buf /\ b.outputBuffer_ = ua.outputBuffer_ /\ b.written = ua.written
    BY <2>1, <2>2, <1>6 DEF ShutConn, SameStreams
  <2>4. Declined(y, t)
    BY <2>1, <2>2, <2>3, <1>1, <1>2, <1>6 DEF Declined
  <2>5. b.state_ = "kDisconnecting"
    BY <2>1, <2>2, <1>3, <1>6 DEF ShutConn, SameControl
  <2>6. b.fin => b.outputBuffer_ = <<>>
    BY <2>1, <2>2, <2>3, <1>3, <1>4, <1>5, <1>6 DEF ShutConn, SameControl
  <2>7. Endings(t, "none")
    BY <2>1, <2>2, <2>3, <2>5, <2>6, <1>3, <1>6 DEF Endings
  <2> QED BY <2>2, <2>4, <2>7
<1>7. CASE t = y
  BY <1>7 DEF Declined
<1>8. CASE Len(buf) > kMaxRequest /\ ShutDown(y, t, "server")
  <2>1. Refused(buf)
    BY <1>8 DEF Refused
  <2>2. SameControl(a, a)
    BY DEF SameControl
  <2> QED BY <2>1, <2>2, <1>1, <1>2, <1>6, <1>8
<1>9. ASSUME NEW s \in RelayType, NEW u, NEW unit \in {"r", "x"}, Sent(s, u, "server", <<unit>>),
             s.conn["server"].written = <<>>, s.conn["server"].outputBuffer_ = <<>>
      PROVE  /\ u \in RelayType /\ SameFlags(s, u) /\ u.conn["client"] = s.conn["client"]
             /\ u.conn["server"].inputBuffer_ = s.conn["server"].inputBuffer_
             /\ SameControl(s.conn["server"], u.conn["server"])
             /\ u.conn["server"].written \o u.conn["server"].outputBuffer_ = <<unit>>
  <2>1. (<<>> \o <<>>) \o <<unit>> = <<unit>>
    OBVIOUS
  <2> QED BY <2>1, <1>9, TwoSides DEF Sent, Given
<1>10. CASE /\ Whole(buf) /\ buf[1] \notin {"v4", "v4a"}
            /\ \E u : /\ IF a.state_ = "kConnected" THEN Sent(y, u, "server", <<"x">>) ELSE u = y
                      /\ ShutDown(u, t, "server")
  <2>1. Refused(buf)
    <3>1. Len(buf) # 0
      BY <1>10, TunnelAssumption DEF Whole
    <3>2. buf # <<>>
      BY <3>1, EmptyLen
    <3> QED BY <3>2, <1>10 DEF Refused
  <2>2. PICK u : /\ IF a.state_ = "kConnected" THEN Sent(y, u, "server", <<"x">>) ELSE u = y
                 /\ ShutDown(u, t, "server")
    BY <1>10
  <2>3. CASE a.state_ = "kConnected"
    <3>1. /\ u \in RelayType /\ SameFlags(y, u) /\ u.conn["client"] = c
          /\ u.conn["server"].inputBuffer_ = buf /\ SameControl(a, u.conn["server"])
          /\ u.conn["server"].written \o u.conn["server"].outputBuffer_ = <<"x">>
      BY <2>2, <2>3, <1>1, <1>2, <1>4, <1>9
    <3>2. u.tunnels = y.tunnels
      BY <3>1 DEF SameFlags
    <3> QED BY <2>1, <2>2, <2>3, <3>1, <3>2, <1>6
  <2>4. CASE a.state_ # "kConnected"
    <3>1. SameControl(a, a)
      BY DEF SameControl
    <3> QED BY <2>1, <2>2, <2>4, <3>1, <1>1, <1>2, <1>6
  <2> QED BY <2>3, <2>4
<1>11. CASE Whole(buf) /\ buf[1] \in {"v4", "v4a"} /\ Granted(y, t)
  <2>1. a.state_ = "kConnected"
    <3>1. ~Refused(buf)
      BY <1>11, TunnelAssumption DEF Whole, Refused
    <3> QED BY <3>1, <1>3, <1>5
  <2>2. PICK w : SetUp(y, w, RequestEnd(buf)) /\ Sent(w, t, "server", <<"r">>)
    BY <2>1, <1>1, <1>2, <1>11 DEF Granted
  <2>3. PICK wa : wa = w.conn["server"]
    OBVIOUS
  <2>4. /\ w \in RelayType /\ w.conn["client"] = c /\ w.tunnels
        /\ wa.inputBuffer_ = SubSeq(buf, RequestEnd(buf) + 1, Len(buf))
        /\ wa.outputBuffer_ = <<>> /\ wa.written = <<>>
        /\ wa.state_ = "kConnected" /\ ~wa.fin
    BY <2>1, <2>2, <2>3, <1>1, <1>2, <1>4 DEF SetUp
  <2>5. PICK b : b = t.conn["server"]
    OBVIOUS
  <2>6. /\ t \in RelayType /\ t.conn["client"] = c /\ SameFlags(w, t)
        /\ b.inputBuffer_ = SubSeq(buf, RequestEnd(buf) + 1, Len(buf))
        /\ SameControl(wa, b) /\ b.written \o b.outputBuffer_ = <<"r">>
    BY <2>2, <2>3, <2>4, <2>5, <1>9
  <2>7. t.tunnels /\ b.state_ = "kConnected" /\ ~b.fin
    BY <2>4, <2>6 DEF SameFlags, SameControl
  <2>8. Admitted(y, t)
    BY <2>5, <2>6, <2>7, <1>1, <1>2, <1>11 DEF Admitted
  <2>9. Endings(t, "connecting")
    BY <2>5, <2>6, <2>7, <1>3 DEF Endings
  <2> QED BY <2>6, <2>8, <2>9
<1> QED BY <1>1, <1>2, <1>7, <1>8, <1>10, <1>11 DEF Requested

\* A request, granted or not, keeps both streams: what follows it in the buffer
\* stays there, and the answer is the first that the peer gets.
LEMMA RequestStreams ==
  ASSUME TunnelInv, StreamInv, HandleRead, "server" = active[1].side, mode = "socks4a",
         backend = "none", ~relay.tunnels, NEW y, NEW data,
         Received(relay, y, "server", data), data \in Seq(Units),
         data \o rcv'["server"] = rcv["server"], rcv' \in [Sides -> Seq(Units)],
         rcv'["client"] = rcv["client"], Control(y, y.pending, "events", "none", mode),
         Requested(y, relay'), backend' = IF relay'.tunnels THEN "connecting" ELSE "none",
         relay.conn["server"].state_ # "kDisconnected"
  PROVE  StreamInv'
<1>1. relay \in RelayType /\ UNCHANGED <<mode, script, sent, peer>>
  BY DEF HandleRead, Event, TunnelInv, TunnelTypes
<1>2. PICK a \in ConnType, c \in ConnType, ya \in ConnType :
        a = relay.conn["server"] /\ c = relay.conn["client"] /\ ya = y.conn["server"]
  BY <1>1, RelayFields, TwoSides DEF Received
<1>3. /\ y \in RelayType /\ y.conn["client"] = c /\ y.tunnels = relay.tunnels
      /\ SameControl(a, ya) /\ ya.inputBuffer_ = a.inputBuffer_ \o data
      /\ ya.outputBuffer_ = a.outputBuffer_ /\ ya.written = a.written
  BY <1>2, TwoSides DEF Received, SameFlags
<1>4. Life(y, y.pending, "none") /\ Registered(y, y.pending, "none", mode)
  BY <1>3, ControlParts
<1>5. c = NewConn("none", FALSE)
  BY <1>3, <1>4 DEF Life
<1>6. c.state_ = "none" /\ ~c.fin /\ c.inputBuffer_ = <<>>
  BY <1>5 DEF NewConn
<1>7. rcv["client"] = <<>> /\ sent["client"] = <<>> /\ peer["client"] = "open"
  BY DEF StreamInv, Quiet
\* What was refused stays refused.
<1>8. Endings(y, "none")
  <2>1. Endings(relay, "none")
    BY DEF StreamInv
  <2>2. a.state_ = "kDisconnecting" => Refused(ya.inputBuffer_)
    BY <2>1, <1>2, <1>3, RefusedLonger DEF Endings, ConnType
  <2> QED BY <2>1, <2>2, <1>2, <1>3, <1>6 DEF Endings, SameControl
<1>9. ya.state_ # "kDisconnected"
  BY <1>2, <1>3 DEF SameControl
<1>10. /\ relay' \in RelayType
       /\ \/ Declined(y, relay') /\ Endings(relay', "none")
          \/ Admitted(y, relay') /\ Endings(relay', "connecting")
  BY <1>2, <1>3, <1>4, <1>8, <1>9, RequestOutcome
<1>11. PICK b \in ConnType : b = relay'.conn["server"]
  BY <1>10, RelayFields, TwoSides
<1>12. PICK buf \in Seq(Units), r \in Seq(Units) : buf = ya.inputBuffer_ /\ r = rcv'["server"]
  BY TwoSides DEF ConnType
<1>13. peer["server"] # "reset" => sent["server"] = buf \o r
  <2>1. SUFFICES ASSUME peer["server"] # "reset" PROVE sent["server"] = buf \o r
    OBVIOUS
  <2>2. PICK l : l = Line(c, a, rcv["server"])
    OBVIOUS
  <2>3. rcv["server"] \in Seq(Units)
    BY TwoSides DEF TunnelInv, TunnelTypes
  <2>4. l = a.inputBuffer_ \o rcv["server"] /\ l \in Seq(Units)
    <3>1. PICK r0 \in Seq(Units) : r0 = rcv["server"]
      BY <2>3
    <3>2. Line(c, a, r0) = a.inputBuffer_ \o r0
      BY <1>5, LineEmpty
    <3>3. Line(c, a, r0) \in Seq(Units)
      BY LineType
    <3> QED BY <3>1, <3>2, <3>3, <2>2
  <2>5. <<>> \o l = l
    BY <2>4, JoinEmpty
  <2>6. sent["server"] = l
    BY <2>1, <2>2, <2>5, <1>2 DEF StreamInv, StreamUp, Cut
  <2>7. a.inputBuffer_ \in Seq(Units)
    BY DEF ConnType
  <2>8. Assoc(a.inputBuffer_, data, r)
    BY <2>7, Joins
  <2> QED BY <2>4, <2>6, <2>8, <1>3, <1>12 DEF Assoc
<1>14. \E answer \in {<<>>, <<"x">>} : a.written \o a.outputBuffer_ = answer
  <2>1. PICK answer \in {<<>>, <<"r">>, <<"x">>} :
          /\ Line(a, c, <<>>) = answer \o <<>>
          /\ (answer = <<"r">>) <=> (mode = "socks4a" /\ backend # "none")
    BY <1>2, <1>7 DEF StreamInv, StreamDown
  <2>2. <<>> \o <<>> = <<>> /\ <<"x">> \o <<>> = <<"x">>
    OBVIOUS
  <2>3. answer \in {<<>>, <<"x">>}
    BY <2>1
  <2>4. Line(a, c, <<>>) = a.written \o a.outputBuffer_
    BY <1>5, <1>12, LineEmpty
  <2> QED BY <2>1, <2>2, <2>3, <2>4
<1>15. /\ \A z \in Seq(Units) : Line(c, b, z) = b.inputBuffer_ \o z
       /\ Line(b, c, <<>>) = b.written \o b.outputBuffer_
  BY <1>5, <1>12, LineEmpty
<1>16. /\ <<>> # <<"r">> /\ <<"x">> # <<"r">> /\ <<>> \o <<>> = <<>>
       /\ <<"x">> \o <<>> = <<"x">> /\ <<"r">> \o <<>> = <<"r">>
  OBVIOUS
<1>17. /\ Scripted(script, mode) /\ Follows(sent["server"], script)
       /\ Quiet(rcv', sent, peer, backend')
  BY <1>7 DEF StreamInv, Quiet
<1>18. CASE Declined(y, relay') /\ Endings(relay', "none")
  <2>1. /\ ~relay'.tunnels /\ relay'.conn["client"] = c /\ b.inputBuffer_ = buf
        /\ \/ b.written \o b.outputBuffer_ = a.written \o a.outputBuffer_
           \/ b.written \o b.outputBuffer_ = <<"x">>
    BY <1>2, <1>3, <1>11, <1>12, <1>18 DEF Declined
  <2>2. backend' = "none"
    BY <2>1
  <2>3. peer["server"] # "reset" => StreamUp(relay', rcv', sent, script, "none")
    <3>1. Line(c, b, r) = buf \o r /\ buf \o r \in Seq(Units)
      BY <2>1, <1>15, JoinLen
    <3>2. <<>> \o (buf \o r) = buf \o r
      BY <3>1, JoinEmpty
    <3> QED BY <2>1, <3>1, <3>2, <1>11, <1>12, <1>13 DEF StreamUp, Cut
  <2>4. PICK answer \in {<<>>, <<"x">>} : b.written \o b.outputBuffer_ = answer
    BY <2>1, <1>14
  <2>5. Line(b, c, <<>>) = answer \o <<>> /\ answer # <<"r">>
    BY <2>4, <1>15, <1>16
  <2>6. StreamDown(relay', rcv', sent, "none", mode)
    BY <2>1, <2>4, <2>5, <1>7, <1>11 DEF StreamDown
  <2> QED BY <2>2, <2>3, <2>6, <1>1, <1>17, <1>18 DEF StreamInv
<1>19. CASE Admitted(y, relay') /\ Endings(relay', "connecting")
  <2>1. PICK rest : rest = SubSeq(buf, RequestEnd(buf) + 1, Len(buf))
    OBVIOUS
  <2>2. /\ Whole(buf) /\ buf[1] \in {"v4", "v4a"} /\ relay'.tunnels
        /\ relay'.conn["client"] = c /\ b.inputBuffer_ = rest
        /\ b.written \o b.outputBuffer_ = <<"r">>
    BY <2>1, <1>2, <1>3, <1>11, <1>12, <1>19 DEF Admitted
  <2>3. backend' = "connecting"
    BY <2>2
  <2>4. peer["server"] # "reset" => StreamUp(relay', rcv', sent, script, "connecting")
    <3>1. SUFFICES ASSUME peer["server"] # "reset"
                   PROVE  script \o Line(c, b, r) = buf \o r
      BY <2>2, <1>11, <1>12, <1>13 DEF StreamUp, Cut
    <3>2. script \in Requests /\ script \in Seq(Units)
      BY <1>17 DEF Scripted, TunnelInv, TunnelTypes
    <3>3. Follows(buf, script)
      BY <3>1, <3>2, <1>13, <1>17, FollowsFirst
    <3>4. script \o rest = buf
      BY <2>1, <2>2, <3>2, <3>3, RequestCut
    <3>5. rest \in Seq(Units)
      BY <2>2 DEF ConnType
    <3>6. Assoc(script, rest, r)
      BY <3>2, <3>5, Joins
    <3> QED BY <3>4, <3>6, <2>2, <1>15 DEF Assoc
  <2>5. Line(b, c, <<>>) = <<"r">> \o <<>>
    BY <2>2, <1>15, <1>16
  <2>6. StreamDown(relay', rcv', sent, "connecting", mode)
    BY <2>2, <2>5, <1>7, <1>11 DEF StreamDown
  <2> QED BY <2>3, <2>4, <2>6, <1>1, <1>17, <1>19 DEF StreamInv
<1> QED BY <1>10, <1>18, <1>19

\* handleRead() keeps the streams.
LEMMA ReadStreams ==
  ASSUME TunnelInv, StreamInv, HandleRead
  PROVE  StreamInv'
<1>0. Event("IN")
  BY DEF HandleRead
<1>1. PICK x \in Sides : x = active[1].side
  BY <1>0, EventFacts
<1>2. PICK y, data : Read(x, relay, y, relay', data, rcv, rcv', mode)
  BY <1>1, ReadEffect
<1>3. Passed(x, relay, y, relay', backend, backend')
  BY <1>1, <1>2, ReadPasses
<1>4. /\ relay \in RelayType /\ active[1].on = "IN"
      /\ EventOK(active[1], relay, backend, rcv, peer)
      /\ Control(relay, relay.pending, "events", backend, mode)
      /\ UNCHANGED <<mode, script, sent, peer>>
  BY <1>0, EventFacts DEF Event
<1>5. /\ Received(relay, y, x, data) /\ y \in RelayType
      /\ rcv' \in [Sides -> Seq(Units)] /\ rcv'[Other(x)] = rcv[Other(x)]
      /\ data \o rcv'[x] = rcv[x] /\ data \in Seq(Units) /\ data # <<>>
  BY <1>2 DEF Read, Received
<1>6. PICK o \in Sides : o = Other(x) /\ Other(o) = x
  BY Others
<1>7. rcv'[x] \in Seq(Units)
  BY <1>5
<1>8. relay.conn[x].state_ # "kDisconnected"
  <2>1. Len(data) > 0 /\ Len(data) \in Nat /\ Len(rcv'[x]) \in Nat
    BY <1>5, <1>7, EmptyLen
  <2>2. Len(rcv[x]) = Len(data) + Len(rcv'[x])
    BY <1>5, <1>7, JoinLen
  <2>3. rcv[x] # <<>>
    BY <2>1, <2>2
  <2> QED BY <2>3 DEF TunnelInv, Ended
<1>9. Life(relay, relay.pending, backend) /\ Registered(relay, relay.pending, backend, mode)
  BY <1>4, ControlParts
<1>10. /\ Line(y.conn[o], y.conn[x], rcv'[x]) = Line(relay.conn[o], relay.conn[x], rcv[x])
       /\ Line(y.conn[x], y.conn[o], rcv'[o]) = Line(relay.conn[x], relay.conn[o], rcv[o])
  <2>1. SameLines(relay, y, x, rcv[x], rcv'[x], rcv[o])
    BY <1>4, <1>5, <1>7, LineReceived
  <2>2. rcv'[o] = rcv[o]
    BY <1>5, <1>6
  <2> QED BY <2>1, <2>2, <1>6 DEF SameLines
<1>11. rcv'["client"] = <<>> \/ backend = "done"
  <2>1. CASE x = "client"
    <3>1. Up(relay.conn["client"])
      BY <2>1, <1>1, <1>4 DEF EventOK
    <3> QED BY <3>1, <1>9 DEF Life, Up
  <2>2. CASE x = "server"
    BY <2>2, <1>5, TwoSides DEF StreamInv, Quiet
  <2> QED BY <2>1, <2>2, TwoSides
<1>12. CASE /\ x = "server" /\ mode = "socks4a" /\ backend = "none" /\ ~relay.tunnels
            /\ Requested(y, relay')
            /\ backend' = (IF relay'.tunnels THEN "connecting" ELSE "none")
  <2>1. Control(y, y.pending, "events", "none", mode)
    BY <1>3, <1>12 DEF Passed
  <2>2. /\ Received(relay, y, "server", data) /\ rcv'["client"] = rcv["client"]
        /\ data \o rcv'["server"] = rcv["server"] /\ relay.conn["server"].state_ # "kDisconnected"
        /\ "server" = active[1].side
    BY <1>1, <1>5, <1>8, <1>12, TwoSides
  <2> QED BY <2>1, <2>2, <1>5, <1>12, RequestStreams
<1>13. ASSUME backend' = backend, Endings(relay', backend),
              Line(relay'.conn[o], relay'.conn[x], rcv'[x]) = Line(y.conn[o], y.conn[x], rcv'[x]),
              Line(relay'.conn[x], relay'.conn[o], rcv'[o]) = Line(y.conn[x], y.conn[o], rcv'[o])
       PROVE  StreamInv'
  <2>1. \A z \in Sides : z = x \/ z = o
    BY <1>6, TwoSides
  <2>2. \A z \in Sides : Line(relay'.conn[z], relay'.conn[Other(z)], rcv'[Other(z)])
                            = Line(relay.conn[z], relay.conn[Other(z)], rcv[Other(z)])
    BY <2>1, <1>6, <1>10, <1>13
  <2> QED BY <2>2, <1>4, <1>11, <1>13, StreamsFrom
<1>14. CASE /\ backend = "done" /\ backend' = "done" /\ y.conn[Other(x)].state_ = "kConnected"
            /\ Forwarded(y, relay', Other(x))
  <2>1. Endings(relay', "done")
    BY <1>4, <1>5, <1>14, ForwardedEnds DEF StreamInv
  <2>2. /\ Line(relay'.conn[o], relay'.conn[x], rcv'[x]) = Line(y.conn[o], y.conn[x], rcv'[x])
        /\ Line(relay'.conn[x], relay'.conn[o], rcv'[o]) = Line(y.conn[x], y.conn[o], rcv'[o])
    <3>1. SameLines(y, relay', x, rcv'[x], rcv'[x], rcv'[o])
      BY <1>5, <1>14, LineForwarded
    <3> QED BY <3>1, <1>6 DEF SameLines
  <2> QED BY <2>1, <2>2, <1>13, <1>14
<1>15. CASE /\ backend' = backend /\ relay' = y /\ (backend # "none" \/ relay.tunnels)
            /\ ~(y.conn[Other(x)].state_ = "kConnected" /\ (x = "server" => y.context_))
  <2>1. backend # "none"
    BY <1>9, <1>15 DEF Registered
  <2>2. Endings(y, backend)
    BY <2>1, <1>4, <1>5, <1>8, <1>9, <1>15, HeldEnds DEF StreamInv
  <2> QED BY <2>2, <1>13, <1>15
<1> QED BY <1>3, <1>12, <1>14, <1>15 DEF Passed

\* The streams are kept by every step.
LEMMA NextStreams == TunnelInv /\ StreamInv /\ [Next]_vars => StreamInv'
<1> SUFFICES ASSUME TunnelInv, StreamInv, [Next]_vars PROVE StreamInv'
  OBVIOUS
<1>1. CASE UNCHANGED vars
  BY <1>1 DEF vars, netVars, StreamInv
<1>2. CASE LoopStep
  BY <1>2, IdleStreams, ReadStreams, CloseStreams, WriteStreams, ConnectStreams, FunctorStreams
     DEF LoopStep
<1>3. CASE BackendAccepts
  BY <1>3, IdleStreams
<1>4. CASE \E side \in Sides : PeerSends(side) \/ PeerCloses(side) \/ PeerResets(side)
  BY <1>4, PeerSendsStreams, PeerEndsStreams
<1> QED BY <1>1, <1>2, <1>3, <1>4 DEF Next

\* What is left of two sequences when the first is cut off.
LEMMA AfterCut ==
  ASSUME NEW a \in Seq(Units), NEW b \in Seq(Units)
  PROVE  SubSeq(a \o b, Len(a) + 1, Len(a \o b)) = b
<1>1. PICK c, k : c = a \o b /\ k = Len(a)
  OBVIOUS
<1>2. c \in Seq(Units) /\ Len(c) = Len(a) + Len(b) /\ k \in 0..Len(c) /\ Len(b) \in Nat
  BY <1>1, JoinLen
<1>3. PICK d : d = SubSeq(c, k + 1, Len(c))
  OBVIOUS
<1>4. d \in Seq(Units) /\ Len(d) = Len(b)
  BY <1>1, <1>2, <1>3, Parts DEF IsParted
<1>5. ASSUME NEW i \in 1..Len(d) PROVE d[i] = b[i]
  <2>1. d[i] = c[k + i]
    BY <1>2, <1>3, <1>4
  <2>2. k + i \in 1..Len(a) + Len(b) /\ ~(k + i <= Len(a)) /\ (k + i) - Len(a) = i
    BY <1>1, <1>2, <1>4
  <2>3. c[k + i] = b[i]
    BY <2>2, <1>1, ConcatProperties
  <2> QED BY <2>1, <2>3
<1>6. d = b
  BY <1>4, <1>5, SeqEqual
<1> QED BY <1>1, <1>3, <1>6

\* The tunnel loses, repeats and reorders nothing, for requests, marks and streams
\* of any length: what tcprelay and socks4a have written, buffered or not yet read
\* is what the peers sent, less the SOCKS request and after its one answer, and
\* the end is passed on only after all of it.
THEOREM StreamsWhole == Spec => []StreamsKept
<1>1. TunnelInv /\ StreamInv => StreamsKept
  <2> SUFFICES ASSUME TunnelInv, StreamInv PROVE StreamsKept
    OBVIOUS
  <2>1. /\ relay \in RelayType /\ script \in Seq(Units) /\ rcv \in [Sides -> Seq(Units)]
        /\ Conn("server") \in ConnType /\ Conn("client") \in ConnType
    BY RelayFields, TwoSides DEF TunnelInv, TunnelTypes, Conn
  <2>2. Registered(relay, Waiting, backend, mode) /\ Life(relay, Waiting, backend)
    BY DEF TunnelInv, Control
  <2>3. PICK cut \in Seq(Units) : cut = Cut(backend, script) /\ Request = Len(cut)
    <3>1. relay.tunnels => backend # "none"
      BY <2>2 DEF Registered
    <3>2. <<>> \in Seq(Units) /\ Len(<<>>) = 0
      BY JoinEmpty
    <3> QED BY <3>1, <3>2, <2>1 DEF Cut, Request
  <2>4. ASSUME peer["server"] # "reset"
        PROVE  Line(Conn("client"), Conn("server"), rcv["server"])
                 = SubSeq(sent["server"], Request + 1, Len(sent["server"]))
    <3>1. PICK l : l = Line(Conn("client"), Conn("server"), rcv["server"])
      OBVIOUS
    <3>2. l \in Seq(Units)
      BY <3>1, <2>1, LineType, TwoSides
    <3>3. cut \o l = sent["server"]
      BY <3>1, <2>3, <2>4 DEF StreamInv, StreamUp, Conn
    <3> QED BY <3>1, <3>2, <3>3, <2>3, AfterCut
  <2>5. peer["client"] # "reset" =>
          \E answer \in {<<>>, <<"r">>, <<"x">>} :
            /\ Line(Conn("server"), Conn("client"), rcv["client"]) = answer \o sent["client"]
            /\ (answer = <<"r">>) <=> (mode = "socks4a" /\ backend # "none")
    BY DEF StreamInv, StreamDown, Conn
  <2>6. ASSUME NEW x \in Sides, Conn(x).fin, backend = "done"
        PROVE  Conn(x).outputBuffer_ = <<>> /\ Conn(Other(x)).inputBuffer_ = <<>>
    <3>1. Endings(relay, backend)
      BY DEF StreamInv
    <3>2. CASE x = "server"
      BY <3>1, <3>2, <2>6, TwoSides DEF Endings, Conn
    <3>3. CASE x = "client"
      BY <3>1, <3>3, <2>6, TwoSides DEF Endings, Conn
    <3> QED BY <3>2, <3>3, TwoSides
  <2> QED BY <2>4, <2>5, <2>6 DEF StreamsKept, Line
<1>2. Spec => [](TunnelInv /\ StreamInv)
  BY InitInv, InitStreams, NextInv, NextStreams, PTL DEF Spec
<1> QED BY <1>1, <1>2, PTL
==============================================================================
