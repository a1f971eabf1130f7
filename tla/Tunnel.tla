-------------------------------- MODULE Tunnel --------------------------------
(***************************************************************************)
(* One tunnel of tcprelay or socks4a (examples/socks4a): the accepted      *)
(* connection serverConn_, the TcpClient's connection clientConn_ to the   *)
(* backend, and the loop both live in.  The handlers call each other       *)
(* within one event, so they are operators on the record `relay`; an       *)
(* iteration of the loop is a poll, the events it reported and the         *)
(* functors queued so far.  A unit of a stream is a string: "0" is a NUL,  *)
(* "r" and "x" are the answers to a SOCKS request.                         *)
(***************************************************************************)
EXTENDS Naturals, Sequences, FiniteSetsExt

CONSTANTS kHighWaterMark,   \* 1024 * 1024 in the code
          kFixed,           \* units of the fixed part of a request, 8 bytes
          kMaxRequest,      \* units allowed for a request, 128 bytes
          MaxData           \* bound on the data units of each peer

ASSUME TunnelAssumption ==
         /\ kHighWaterMark \in Nat /\ kHighWaterMark > 1   \* an answer stays below
         /\ kFixed \in Nat \ {0} /\ kMaxRequest \in Nat /\ MaxData \in Nat

VARIABLES
  mode,      \* "tcprelay" or "socks4a"
  script,    \* what the peer of serverConn_ sends before its data
  sent,      \* per side: what its peer has sent
  rcv,       \* per side: what has arrived and was not read
  peer,      \* per side: "open", "closed" or "reset"
  backend,   \* the Connector: "none", "connecting", "accepted" or "done"
  relay,     \* the two connections, the tunnel and the queued functors
  phase,     \* "poll", "events" or "functors"
  active,    \* the events poll() returned that are still to be handled
  batch      \* the functors being run

netVars == <<mode, script, sent, rcv, peer>>
vars == <<netVars, backend, relay, phase, active, batch>>

Sides == {"server", "client"}
Other(side) == IF side = "server" THEN "client" ELSE "server"

\* A request: the fixed part tells the kind, "v4n" a name that does not resolve.
Fixed(kind) == [i \in 1..kFixed |-> kind]
Requests == {Fixed("v4") \o <<"0">>, Fixed("v4a") \o <<"0", "h", "0">>,
             Fixed("v4n") \o <<"0", "h", "0">>, Fixed("bad") \o <<"0">>,
             Fixed("v4") \o [i \in 1..kMaxRequest |-> "u"]}

\* The data of a peer alternates between a NUL and another unit.
Data(n) == IF n % 2 = 1 THEN "0" ELSE "d"
DataSent(side) == Len(sent[side]) - IF side = "server" THEN Len(script) ELSE 0

NewConn(state, reading) ==
  [state_ |-> state, isReading |-> reading, inputBuffer_ |-> <<>>,
   outputBuffer_ |-> <<>>, written |-> <<>>, fin |-> FALSE, destroyed |-> FALSE,
   highWaterMarkCallback_ |-> FALSE, writeCompleteCallback_ |-> FALSE]

\* A plausible mistake: the tunnel is not entered in g_tunnels.
SetupUnregistered(s) ==
  [s EXCEPT !.conn["server"].highWaterMarkCallback_ = TRUE, !.callbacks = TRUE]

\* Tunnel's constructor, setup() and the entry in g_tunnels.
Setup(s) == [s EXCEPT !.conn["server"].highWaterMarkCallback_ = TRUE,
                      !.callbacks = TRUE, !.tunnels = TRUE]

\* onServerConnection() of a connection that is up: tcprelay stops reading and
\* makes the tunnel, socks4a waits for a request.
Accepted(m) ==
  LET s == [conn |-> [x \in Sides |->
                        IF x = "server" THEN NewConn("kConnected", m = "socks4a")
                        ELSE NewConn("none", FALSE)],
            context_ |-> FALSE,     \* serverConn_ knows clientConn_
            clientConn_ |-> FALSE, connection_ |-> FALSE,
            callbacks |-> FALSE,    \* client_'s callbacks hold the tunnel
            tunnels |-> FALSE,      \* g_tunnels holds the tunnel
            freed |-> FALSE, pending |-> <<>>, fault |-> "none"]
  IN  IF m = "tcprelay" THEN Setup(s) ELSE s

Init ==
  /\ mode \in {"tcprelay", "socks4a"}
  /\ script \in IF mode = "socks4a" THEN Requests ELSE {<<>>}
  /\ sent = [x \in Sides |-> <<>>] /\ rcv = sent
  /\ peer = [x \in Sides |-> "open"]
  /\ relay = Accepted(mode)
  /\ backend = IF mode = "tcprelay" THEN "connecting" ELSE "none"
  /\ phase = "poll" /\ active = <<>> /\ batch = <<>>

------------------------------------------------------------------------------
(* TcpConnection, as far as the tunnel uses it.                             *)

Fault(s, what) == IF s.fault = "none" THEN [s EXCEPT !.fault = what] ELSE s
Up(c) == c.state_ \in {"kConnected", "kDisconnecting"}
IsWriting(c) == Up(c) /\ c.outputBuffer_ # <<>>
Functor(on, side) == [on |-> on, side |-> side]
QueueInLoop(s, on, side) == [s EXCEPT !.pending = Append(@, Functor(on, side))]

\* A plausible mistake: the mark has to be passed.
CrossesPast(old, new) == new > kHighWaterMark /\ old < kHighWaterMark

Crosses(old, new) == new >= kHighWaterMark /\ old < kHighWaterMark

\* sendInLoop(), if the kernel takes n units.
SendInLoop(s, side, data, n) ==
  LET c == s.conn[side]
      k == IF c.outputBuffer_ = <<>> THEN Min({n, Len(data)}) ELSE 0
      rest == SubSeq(data, k + 1, Len(data))
      old == Len(c.outputBuffer_)
      y == [s EXCEPT !.conn[side].written = @ \o SubSeq(data, 1, k),
                     !.conn[side].outputBuffer_ = @ \o rest]
  IN  IF rest = <<>> /\ c.writeCompleteCallback_
        THEN QueueInLoop(y, "onWriteComplete", side)
      ELSE IF Crosses(old, old + Len(rest)) /\ rest # <<>> /\ c.highWaterMarkCallback_
        THEN QueueInLoop(y, "onHighWaterMark", side)
      ELSE y

Send(s, side, data, n) ==
  IF s.conn[side].state_ = "kConnected" THEN SendInLoop(s, side, data, n) ELSE s

\* A plausible mistake: the buffer is emptied whether it can be sent or not.
SendBufferAnyway(s, side, n) ==
  Send([s EXCEPT !.conn[Other(side)].inputBuffer_ = <<>>], side,
       s.conn[Other(side)].inputBuffer_, n)

\* send(Buffer*) of the other side's inputBuffer_.
SendBuffer(s, side, n) ==
  IF s.conn[side].state_ = "kConnected"
    THEN SendInLoop([s EXCEPT !.conn[Other(side)].inputBuffer_ = <<>>], side,
                    s.conn[Other(side)].inputBuffer_, n)
    ELSE s

StartRead(s, side) == [s EXCEPT !.conn[side].isReading = TRUE]
StopRead(s, side) == [s EXCEPT !.conn[side].isReading = FALSE]

\* A plausible mistake: what waits to be written is not waited for.
ShutdownAtOnce(s, side) == [s EXCEPT !.conn[side].fin = TRUE]

ShutdownInLoop(s, side) ==
  IF IsWriting(s.conn[side]) THEN s ELSE [s EXCEPT !.conn[side].fin = TRUE]

Shutdown(s, side) ==
  IF s.conn[side].state_ = "kConnected"
    THEN ShutdownInLoop([s EXCEPT !.conn[side].state_ = "kDisconnecting"], side)
    ELSE s

------------------------------------------------------------------------------
(* The tunnel.                                                              *)

Teardown(s) ==
  LET y == [s EXCEPT !.callbacks = FALSE, !.context_ = FALSE]
  IN  [Shutdown(y, "server") EXCEPT !.clientConn_ = FALSE]

\* A plausible mistake: what has come before is left in the buffer.
OnClientConnectionLeaves(s, n) ==
  IF s.conn["client"].state_ = "kConnected"
    THEN [StartRead(s, "server") EXCEPT !.conn["client"].highWaterMarkCallback_ = TRUE,
                                        !.context_ = TRUE, !.clientConn_ = TRUE]
    ELSE Teardown(s)

OnClientConnection(s, n) ==
  LET y == [StartRead(s, "server") EXCEPT
              !.conn["client"].highWaterMarkCallback_ = TRUE,
              !.context_ = TRUE, !.clientConn_ = TRUE]
  IN  IF s.conn["client"].state_ # "kConnected" THEN Teardown(s)
      ELSE IF s.conn["server"].inputBuffer_ = <<>> THEN y
      ELSE SendBuffer(y, "client", n)

\* TcpClient::disconnect(): an attempt to connect goes on.
Disconnect(s) == IF s.connection_ THEN Shutdown(s, "client") ELSE s

\* A plausible mistake: the tunnel is forgotten and its client is not.
ForgetOnly(s) == [s EXCEPT !.tunnels = FALSE]

\* socks4a's onServerConnection() of a connection that is down.
Forget(s) == IF s.tunnels THEN [Disconnect(s) EXCEPT !.tunnels = FALSE] ELSE s

\* tcprelay's asserts that there is a tunnel.
OnServerDown(s) ==
  IF mode = "tcprelay" /\ ~s.tunnels THEN Fault(s, "assert") ELSE Forget(s)

\* The weak_ptr of a callback can be locked: g_tunnels, client_'s callbacks or
\* the copies in clientConn_ hold the tunnel.
Locked(s, which) == s.tunnels \/ s.callbacks \/ ~s.freed \/ which = "client"

\* A plausible mistake: the buffer may be empty by now.
OnHighWaterMarkLate(s, which) ==
  IF ~s.clientConn_ THEN Fault(s, "null")
  ELSE [StopRead(s, Other(which)) EXCEPT !.conn[which].writeCompleteCallback_ = TRUE]

OnHighWaterMark(s, which) ==
  LET empty == s.conn[which].outputBuffer_ = <<>>
  IN  IF which = "server" /\ empty THEN s
      ELSE IF ~s.clientConn_ THEN Fault(s, "null")
      ELSE IF empty THEN s
      ELSE [StopRead(s, Other(which)) EXCEPT !.conn[which].writeCompleteCallback_ = TRUE]

OnWriteComplete(s, which) ==
  IF ~s.clientConn_ THEN Fault(s, "null")
  ELSE [StartRead(s, Other(which)) EXCEPT !.conn[which].writeCompleteCallback_ = FALSE]

------------------------------------------------------------------------------
(* socks4a's onServerMessage().                                             *)

\* std::find(): where the first NUL after a place is, or 0.
Nul(buf, place) ==
  LET at == {i \in (place + 1)..Len(buf) : buf[i] = "0"}
  IN  IF at = {} THEN 0 ELSE Min(at)

\* The end of the request, or 0 if more has to come.
RequestEnd(buf) ==
  LET where == Nul(buf, kFixed)
  IN  IF where # 0 /\ buf[1] \in {"v4a", "v4n"} THEN Nul(buf, where) ELSE where

OnRequest(s, buf, n) ==
  LET end == RequestEnd(buf)
  IN  IF Len(buf) > kMaxRequest THEN Shutdown(s, "server")
      ELSE IF Len(buf) <= kFixed \/ end = 0 THEN s
      ELSE IF buf[1] \in {"v4", "v4a"}
        THEN Send([Setup(s) EXCEPT !.conn["server"].inputBuffer_ =
                                      SubSeq(buf, end + 1, Len(buf))],
                  "server", <<"r">>, n)
      ELSE Shutdown(Send(s, "server", <<"x">>, n), "server")

\* onServerMessage() of either program.
OnServerMessage(s, n) ==
  IF mode = "socks4a" /\ ~s.tunnels THEN OnRequest(s, s.conn["server"].inputBuffer_, n)
  ELSE IF s.context_ THEN SendBuffer(s, "client", n) ELSE s

\* onServerMessage() or onClientMessage().
OnMessage(s, side, n) ==
  IF side = "server" THEN OnServerMessage(s, n) ELSE SendBuffer(s, "server", n)

------------------------------------------------------------------------------
(* The handlers of the two channels.                                        *)

\* handleClose(), with the close callback of the TcpServer or the TcpClient.
HandleClose(s, side) ==
  LET y == [s EXCEPT !.conn[side].state_ = "kDisconnected",
                     !.conn[side].isReading = FALSE]
      down == IF side = "server" THEN OnServerDown(y)
              ELSE [OnClientConnection(y, 0) EXCEPT !.connection_ = FALSE]
  IN  IF ~Up(s.conn[side]) THEN Fault(s, "assert")
      ELSE QueueInLoop(down, "connectionDestroyed", side)

\* connectionDestroyed(): removeChannel() asserts that no event is wanted.
ConnectionDestroyed(s, side) ==
  IF s.conn[side].isReading THEN Fault(s, "assert")
  ELSE [s EXCEPT !.conn[side].destroyed = TRUE]

Running == relay.fault = "none"
InIteration(where) == Running /\ phase = where

\* What ::write() takes: any part, and nothing if the peer has gone.
Room(side) == IF peer[side] = "reset" THEN {0} ELSE 0..(kHighWaterMark + 1)

\* An event, and what had become of the peer when it was reported.
Ready(on, side) == [on |-> on, side |-> side, seen |-> peer[side]]

\* poll(): a connection that is in the poller reports that there is something
\* to read, that it can write, or, if it does not read, that it was reset.
Events(side) ==
  LET c == relay.conn[side]
      hup == peer[side] = "reset" /\ ~c.isReading /\ IsWriting(c)
  IN  (IF c.isReading /\ (rcv[side] # <<>> \/ peer[side] # "open")
         THEN <<Ready("IN", side)>> ELSE <<>>)
      \o (IF hup THEN <<Ready("HUP", side)>> ELSE <<>>)
      \o (IF IsWriting(c) /\ ~hup THEN <<Ready("OUT", side)>> ELSE <<>>)
      \o (IF side = "client" /\ backend = "accepted"
            THEN <<Ready("connect", side)>> ELSE <<>>)

Poll ==
  /\ InIteration("poll")
  /\ phase' = "events"
  /\ active' \in {Events(x) \o Events(Other(x)) : x \in Sides}
  /\ active' # <<>> \/ relay.pending # <<>>
  /\ UNCHANGED <<netVars, backend, relay, batch>>

Event(on) ==
  /\ InIteration("events") /\ active # <<>> /\ active[1].on = on
  /\ active' = Tail(active)
  /\ UNCHANGED <<mode, script, sent, peer, phase, batch>>

\* Whom a message of this side is written to.
Target(side) == IF side = "client" \/ (mode = "socks4a" /\ ~relay.tunnels)
                  THEN "server" ELSE "client"

\* handleRead(): what has arrived, ...
HandleRead ==
  /\ Event("IN")
  /\ LET side == active[1].side
     IN  \E k \in 1..Len(rcv[side]), n \in Room(Target(side)) :
           LET y == [relay EXCEPT !.conn[side].inputBuffer_ =
                                     @ \o SubSeq(rcv[side], 1, k)]
           IN  /\ relay' = OnMessage(y, side, n)
               /\ rcv' = [rcv EXCEPT ![side] = SubSeq(@, k + 1, Len(@))]
  /\ backend' = IF relay'.tunnels /\ ~relay.tunnels THEN "connecting" ELSE backend

\* ... the end of the stream, ...
HandleReadEnd ==
  /\ Event("IN")
  /\ LET side == active[1].side
     IN  /\ rcv[side] = <<>>
         /\ peer[side] = "reset" => active[1].seen = "reset"
         /\ relay' = HandleClose(relay, side)
  /\ UNCHANGED <<rcv, backend>>

\* ... or the error of a reset that poll() had not seen, which is only logged.
HandleError ==
  /\ Event("IN")
  /\ peer[active[1].side] = "reset" /\ active[1].seen # "reset"
  /\ UNCHANGED <<rcv, backend, relay>>

\* handleEvent() of a channel that does not read and was reset.
HandleHup ==
  /\ Event("HUP")
  /\ relay' = HandleClose(relay, active[1].side)
  /\ UNCHANGED <<rcv, backend>>

\* handleWrite(): nothing if the connection went down in this iteration.
HandleWrite ==
  /\ Event("OUT")
  /\ LET side == active[1].side
         c == relay.conn[side]
     IN  \/ /\ IsWriting(c)
            /\ \E k \in {n \in Room(side) : n > 0 /\ n <= Len(c.outputBuffer_)} :
                 LET y == [relay EXCEPT
                             !.conn[side].written = @ \o SubSeq(c.outputBuffer_, 1, k),
                             !.conn[side].outputBuffer_ = SubSeq(@, k + 1, Len(@))]
                     z == IF c.writeCompleteCallback_
                            THEN QueueInLoop(y, "onWriteComplete", side) ELSE y
                 IN  relay' = IF k < Len(c.outputBuffer_) THEN y
                              ELSE IF c.state_ = "kDisconnecting" THEN ShutdownInLoop(z, side)
                              ELSE z
         \/ (~IsWriting(c) \/ peer[side] = "reset") /\ UNCHANGED relay
  /\ UNCHANGED <<rcv, backend>>

\* Connector::handleWrite(), TcpClient::newConnection() and, through
\* connectionEstablished(), onClientConnection().
NewConnection ==
  /\ Event("connect")
  /\ backend' = "done"
  /\ \E n \in Room("client") :
       relay' = OnClientConnection(
                  [relay EXCEPT !.conn["client"] = NewConn("kConnected", TRUE),
                                !.connection_ = TRUE], n)
  /\ UNCHANGED rcv

DoPendingFunctors ==
  /\ InIteration("events") /\ active = <<>>
  /\ phase' = "functors" /\ batch' = relay.pending
  /\ relay' = [relay EXCEPT !.pending = <<>>]
  /\ UNCHANGED <<netVars, backend, active>>

RunFunctor ==
  /\ InIteration("functors") /\ batch # <<>>
  /\ LET f == batch[1]
         called == f.on # "connectionDestroyed" /\ Locked(relay, f.side)
     IN  relay' = CASE f.on = "connectionDestroyed" -> ConnectionDestroyed(relay, f.side)
                    [] f.on # "connectionDestroyed" /\ ~called -> relay
                    [] called /\ f.on = "onHighWaterMark" -> OnHighWaterMark(relay, f.side)
                    [] called /\ f.on = "onWriteComplete" -> OnWriteComplete(relay, f.side)
  /\ batch' = Tail(batch)
  /\ UNCHANGED <<netVars, backend, phase, active>>

\* The functors go, and with them the last owner of clientConn_.
FunctorsDone ==
  /\ InIteration("functors") /\ batch = <<>>
  /\ phase' = "poll"
  /\ relay' = [relay EXCEPT !.freed = @ \/ relay.conn["client"].destroyed]
  /\ UNCHANGED <<netVars, backend, active, batch>>

------------------------------------------------------------------------------
(* The peers.                                                               *)

Alive(side) == side = "server" \/ backend = "done"

PeerSends(side) ==
  /\ Running /\ Alive(side) /\ peer[side] = "open"
  /\ DataSent(side) < MaxData
  /\ LET d == IF side = "server" /\ Len(sent[side]) < Len(script)
                THEN script[Len(sent[side]) + 1] ELSE Data(Len(sent[side]))
     IN  /\ sent' = [sent EXCEPT ![side] = Append(@, d)]
         /\ rcv' = [rcv EXCEPT ![side] = Append(@, d)]
  /\ UNCHANGED <<mode, script, peer, backend, relay, phase, active, batch>>

PeerCloses(side) ==
  /\ Running /\ Alive(side) /\ peer[side] = "open"
  /\ peer' = [peer EXCEPT ![side] = "closed"]
  /\ UNCHANGED <<mode, script, sent, rcv, backend, relay, phase, active, batch>>

\* A reset also drops what was not read.
PeerResets(side) ==
  /\ Running /\ Alive(side) /\ peer[side] # "reset"
  /\ peer' = [peer EXCEPT ![side] = "reset"]
  /\ rcv' = [rcv EXCEPT ![side] = <<>>]
  /\ UNCHANGED <<mode, script, sent, backend, relay, phase, active, batch>>

BackendAccepts ==
  /\ Running /\ backend = "connecting"
  /\ backend' = "accepted"
  /\ UNCHANGED <<netVars, relay, phase, active, batch>>

LoopStep == \/ Poll \/ HandleRead \/ HandleReadEnd \/ HandleError \/ HandleHup
            \/ HandleWrite \/ NewConnection
            \/ DoPendingFunctors \/ RunFunctor \/ FunctorsDone

Next == \/ LoopStep \/ BackendAccepts
        \/ \E side \in Sides : PeerSends(side) \/ PeerCloses(side) \/ PeerResets(side)

Spec == Init /\ [][Next]_vars /\ WF_vars(LoopStep)
------------------------------------------------------------------------------
Conn(side) == relay.conn[side]
Queued == relay.pending \o batch
IsQueued(on, side) == \E i \in DOMAIN Queued : Queued[i] = Functor(on, side)

TypeOK ==
  /\ \A x \in Sides :
       /\ Conn(x).state_ \in {"none", "kConnected", "kDisconnecting", "kDisconnected"}
       /\ IsQueued("connectionDestroyed", x) => Conn(x).state_ = "kDisconnected"
  /\ relay.fault \in {"none", "assert", "null"}
  /\ relay.clientConn_ => relay.connection_ \/ Conn("client").state_ = "kDisconnected"
  /\ backend \in {"none", "connecting", "accepted", "done"}
  /\ phase \in {"poll", "events", "functors"}
  /\ phase = "poll" => active = <<>> /\ batch = <<>>

\* What the peer of serverConn_ has sent after its request.
Request == IF relay.tunnels \/ backend # "none" THEN Len(script) ELSE 0

(* Unless a peer resets, nothing of either stream is lost, repeated or      *)
(* reordered on its way through the tunnel: not what comes with or right    *)
(* after a SOCKS request, before the backend has accepted, not what comes   *)
(* when the other side no longer takes it.  The answer to the request comes *)
(* once and before any data.  A peer is told that the stream has ended only *)
(* when it has been given all of it: teardown() and disconnect() shut down  *)
(* after what is waiting.                                                   *)
StreamsKept ==
  /\ peer["server"] # "reset" =>
       Conn("client").written \o Conn("client").outputBuffer_
         \o Conn("server").inputBuffer_ \o rcv["server"]
       = SubSeq(sent["server"], Request + 1, Len(sent["server"]))
  /\ peer["client"] # "reset" =>
       \E answer \in {<<>>, <<"r">>, <<"x">>} :
         /\ Conn("server").written \o Conn("server").outputBuffer_
              \o Conn("client").inputBuffer_ \o rcv["client"]
            = answer \o sent["client"]
         /\ (answer = <<"r">>) <=> (mode = "socks4a" /\ backend # "none")
  /\ \A x \in Sides :
       Conn(x).fin /\ peer[Other(x)] # "reset" /\ backend = "done" =>
         Conn(x).outputBuffer_ = <<>> /\ Conn(Other(x)).inputBuffer_ = <<>>

(* Back pressure, while both sides are connected.  Reading is never stopped *)
(* for good: a side that does not read waits for a write on the other one   *)
(* to complete, and will be told.  What is buffered is bounded: a side      *)
(* whose buffer has reached the mark is fed no more, from the end of the    *)
(* iteration on.                                                            *)
FlowControl ==
  (\A x \in Sides : Conn(x).state_ = "kConnected") =>
    \A x \in Sides :
      /\ \/ Conn(x).isReading
         \/ /\ Conn(Other(x)).writeCompleteCallback_
            /\ \/ Conn(Other(x)).outputBuffer_ # <<>>
               \/ IsQueued("onWriteComplete", Other(x))
      /\ Len(Conn(x).outputBuffer_) >= kHighWaterMark =>
           ~Conn(Other(x)).isReading \/ IsQueued("onHighWaterMark", x)

(* Where the tunnel can fail.  clientConn_ is used when it is null only     *)
(* after the backend's connection has gone down with a callback still to    *)
(* come; an assert fails only when the accepted connection has gone down    *)
(* and is made to read again, in tcprelay only after a reset.               *)
FaultCauses ==
  /\ relay.fault = "null" => Conn("client").state_ = "kDisconnected"
  /\ relay.fault = "assert" => Conn("server").state_ = "kDisconnected"
  /\ relay.fault = "assert" /\ mode = "tcprelay" => peer["server"] = "reset"

(* Whatever was sent reaches the other side's peer, if both stay and the    *)
(* backend accepts; and when one connection has gone down, the peer of the  *)
(* other one is told that its stream ends.                                  *)
Forwards ==
  /\ []<>(\/ \E x \in Sides : Conn(x).state_ # "kConnected" \/ peer[x] # "open"
          \/ \A x \in Sides : rcv[x] = <<>> /\ Conn(x).inputBuffer_ = <<>>
                                /\ Conn(x).outputBuffer_ = <<>>
          \/ ~Running)
  /\ \A x \in Sides :
       (Conn(x).state_ = "kDisconnected" /\ Conn(Other(x)).state_ = "kConnected")
         ~> (Conn(Other(x)).fin \/ peer[Other(x)] # "open" \/ ~Running)
==============================================================================
