------------------------------ MODULE TcpClient ------------------------------
(***************************************************************************)
(* chaonet::TcpClient (TcpClient.cpp) with its Connector, on one loop, and *)
(* with user code on the loop's thread and on another one.  One iteration  *)
(* of the loop is a poll, the events it reported in any order, and the     *)
(* functors queued so far.  A TcpConnection is known here by the socket it *)
(* owns, whether it is up, and its close callback.  The callbacks of one   *)
(* iteration take less time than the least retry delay, 500 ms.            *)
(***************************************************************************)
EXTENDS Connector

CONSTANTS MaxAttempts,   \* bound on the calls of ::connect()
          MaxConnects    \* bound on the calls of TcpClient::connect()

ASSUME BoundsAssumption == MaxAttempts \in Nat \ {0} /\ MaxConnects \in Nat

VARIABLES
  connector,   \* the record of module Connector
  owners,      \* who keeps the connector: "client", and for ~TcpClient a
               \* "functor" that sets a timer and then the "timer"
  alive,       \* the client has not been destroyed
  connect_, retry_, connection_,
  conns,       \* per socket: its TcpConnection, "none", "up", "down" or "gone"
  closeCallback_,  \* per socket: "client" or "detail"
  kernel,      \* per socket: what has become of it in the kernel
  phase,       \* where the loop's thread is
  active,      \* the events poll() returned that are still to be handled
  batch,       \* the functors that are being run
  due,         \* the timers that have expired; 0 is the one of ~TcpClient
  connects,    \* calls of TcpClient::connect()
  stopped,     \* the last stop(): "no", or by thread "loop" or "other"
  dtor,        \* the thread that destroys the client, or "no"
  leaving,     \* where the destructor is: "no", "read", "timer", "members", "done"
  found,       \* the connection_ that it read, or 0
  idle,        \* the connector had no channel when the loop's thread did
  retrying     \* a retry timer was set when stop() or ~TcpClient came

clientVars == <<alive, connect_, retry_, connection_, conns, closeCallback_>>
userVars == <<connects, stopped, dtor, leaving, found, idle, retrying>>
loopVars == <<phase, active, batch, due>>
vars == <<connector, owners, clientVars, kernel, loopVars, userVars>>

Fds == 1..MaxAttempts

Init == /\ connector = NewConnector
        /\ owners = {"client"}
        /\ alive = TRUE
        /\ connect_ = TRUE
        /\ retry_ \in BOOLEAN        \* enableRetry() was called or not
        /\ connection_ = 0
        /\ conns = [fd \in Fds |-> "none"]
        /\ closeCallback_ = [fd \in Fds |-> "client"]
        /\ kernel = [fd \in Fds |-> "pending"]
        /\ phase = "poll" /\ active = {} /\ batch = <<>> /\ due = {}
        /\ connects = 0 /\ stopped = "no"
        /\ dtor = "no" /\ leaving = "no" /\ found = 0
        /\ idle = FALSE /\ retrying = FALSE

Running == connector.fault = "none"

\* A method of the connector called by the loop: it may be dead.
OnConnector(x) == connector' = IF owners = {}
                                 THEN Fail(connector, "use of a dead connector")
                                 ELSE x

\* The last attempt of the bound meets a server that accepts it.
CanFail(n) == n < MaxAttempts
ResultsOf(n) == IF CanFail(n) THEN Results ELSE {"EINPROGRESS"}

------------------------------------------------------------------------------
(* The kernel.                                                              *)

\* An attempt is settled; an established connection may still be reset.
Settle ==
  /\ Running
  /\ \E fd \in connector.open :
       /\ conns[fd] = "none"
       /\ \E r \in {"established"} \cup IF CanFail(fd) THEN {"failed", "self"} ELSE {} :
            /\ \/ kernel[fd] = "pending"
               \/ kernel[fd] = "established" /\ r = "failed"
            /\ kernel' = [kernel EXCEPT ![fd] = r]
  /\ UNCHANGED <<connector, owners, clientVars, loopVars, userVars>>

\* The peer closes a connection.
PeerClose ==
  /\ Running
  /\ \E fd \in Fds : /\ conns[fd] = "up" /\ CanFail(connector.attempts)
                     /\ kernel[fd] # "closed"
                     /\ kernel' = [kernel EXCEPT ![fd] = "closed"]
  /\ UNCHANGED <<connector, owners, clientVars, loopVars, userVars>>

\* Time passes while the loop waits in epoll_wait.
Elapse ==
  /\ Running /\ phase = "poll"
  /\ \E id \in connector.timers \cup (IF "timer" \in owners THEN {0} ELSE {}) :
       id \notin due /\ due' = due \cup {id}
  /\ UNCHANGED <<connector, owners, clientVars, kernel, phase, active, batch,
                 userVars>>

------------------------------------------------------------------------------
(* The loop.                                                                *)

Event(on, arg) == [on |-> on, arg |-> arg]

\* poll(): a failed attempt is reported as an error and as writable.
Poll ==
  /\ Running /\ phase = "poll"
  /\ phase' = "events"
  /\ active' = {Event("timer", id) : id \in due}
       \cup {Event("ERR", fd) : fd \in {fd \in Fds :
              connector.channel_ = "on" /\ fd = connector.fd /\ kernel[fd] = "failed"}}
       \cup {Event("OUT", fd) : fd \in {fd \in Fds :
              connector.channel_ = "on" /\ fd = connector.fd /\ kernel[fd] \in {"established", "self"}}}
       \cup {Event("close", fd) : fd \in {fd \in Fds :
              conns[fd] = "up" /\ kernel[fd] = "closed"}}
  /\ due' = {}
  /\ UNCHANGED <<connector, owners, clientVars, kernel, batch, userVars>>

\* handleEvent() of the channel, or of the timer, that e is about.
Take(e) ==
  /\ Running /\ phase = "events"
  /\ e \in active /\ active' = active \ {e}
  /\ UNCHANGED <<kernel, batch, due, userVars>>

\* A retry timer calls startInLoop().  One that was cancelled in this iteration
\* runs if it had already been collected by the timer queue.
RetryTimer ==
  /\ \E id \in Fds :
       /\ Take(Event("timer", id))
       /\ \/ \E r \in ResultsOf(connector.attempts + 1) :
               OnConnector(StartInLoop(Expire(connector, id), r))
          \/ id \notin connector.timers /\ UNCHANGED connector
  /\ UNCHANGED <<phase, owners, clientVars>>

\* One of its owners lets go of the connector, on thread t.
LetGo(who, t) ==
  /\ owners' = owners \ {who}
  /\ connector' \in IF owners = {who} THEN Destructor(connector, t) ELSE {connector}

\* The timer of ~TcpClient lets go of the connector: detail::removeConnector().
RemoveConnector ==
  /\ Take(Event("timer", 0))
  /\ LetGo("timer", "loop")
  /\ UNCHANGED <<phase, clientVars>>

\* A plausible mistake: nobody keeps the new connection.
NewConnectionUnkept(fd) ==
  /\ conns' = [conns EXCEPT ![fd] = "up"]
  /\ closeCallback_' = [closeCallback_ EXCEPT ![fd] = "client"]
  /\ UNCHANGED <<alive, connect_, retry_, connection_>>

\* newConnection(), with the user's callback left to UserCode.
NewConnection(fd) ==
  /\ connection_' = fd
  /\ conns' = [conns EXCEPT ![fd] = "up"]
  /\ closeCallback_' = [closeCallback_ EXCEPT ![fd] = "client"]
  /\ UNCHANGED <<alive, connect_, retry_>>

ConnectorWritable ==
  LET fd == connector.fd
      after == HandleWrite(connector, kernel[fd])
  IN  /\ \E id \in Fds : Take(Event("OUT", id))
      /\ IF after.state_ = "kConnected" /\ fd \in after.open
           THEN IF alive THEN OnConnector(after) /\ NewConnection(fd)
                ELSE /\ OnConnector(Fail(after, "use of a dead client"))
                     /\ UNCHANGED clientVars
           ELSE OnConnector(after) /\ UNCHANGED clientVars
      /\ UNCHANGED <<phase, owners>>

\* handleEvent() of a failed attempt calls handleError() and then handleWrite().
ConnectorError ==
  /\ \E id \in Fds : Take(Event("ERR", id))
  /\ LET y == HandleError(connector)
     IN  OnConnector(IF y.fault = "none" THEN HandleWrite(y, "failed") ELSE y)
  /\ UNCHANGED <<phase, owners, clientVars>>

\* handleClose() of the connection calls removeConnection(), of the client or
\* of detail.  It ends with the test of retry_ and connect_.
RemoveConnection ==
  /\ \E fd \in Fds :
       LET mine == closeCallback_[fd] = "client"
       IN  /\ Take(Event("close", fd))
           /\ conns' = [conns EXCEPT ![fd] = "down"]
           /\ connection_' = IF mine THEN 0 ELSE connection_
           /\ connector' = IF mine /\ ~alive THEN Fail(connector, "use of a dead client")
                           ELSE IF mine /\ connection_ # fd THEN Fail(connector, "removeConnection")
                           ELSE QueueInLoop(connector, "connectionDestroyed", fd)
           /\ phase' = IF mine /\ alive /\ retry_ /\ connect_ THEN "restart" ELSE "events"
  /\ UNCHANGED <<owners, alive, connect_, retry_, closeCallback_>>

\* ... and the call of restart() that the test allowed.
RestartConnector ==
  /\ Running /\ phase = "restart"
  /\ phase' = "events"
  /\ IF alive
       THEN \E r \in ResultsOf(connector.attempts + 1) :
              connector' = Restart(connector, r)
       ELSE connector' = Fail(connector, "use of a dead client")
  /\ UNCHANGED <<owners, clientVars, kernel, active, batch, due, userVars>>

\* doPendingFunctors(): the swap.
DoPendingFunctors ==
  /\ Running /\ phase = "events" /\ active = {}
  /\ phase' = "functors"
  /\ batch' = connector.pending
  /\ connector' = [connector EXCEPT !.pending = <<>>]
  /\ UNCHANGED <<owners, clientVars, kernel, active, due, userVars>>

Run(op) ==
  /\ Running /\ phase = "functors"
  /\ batch # <<>> /\ Head(batch).op = op
  /\ batch' = Tail(batch)
  /\ UNCHANGED <<kernel, phase, active, due, userVars>>

RunConnectorFunctor ==
  /\ \/ Run("resetChannel") /\ OnConnector(ResetChannel(connector))
     \/ Run("startInLoop") /\ \E r \in ResultsOf(connector.attempts + 1) :
                                OnConnector(StartInLoop(connector, r))
     \/ Run("cancelInLoop") /\ connector' \in CancelTimer(connector, Head(batch).arg)
  /\ UNCHANGED <<owners, clientVars>>

\* addTimerInLoop() of the timer of ~TcpClient.
RunAddTimer ==
  /\ Run("addTimer")
  /\ owners' = (owners \ {"functor"}) \cup {"timer"}
  /\ UNCHANGED <<connector, clientVars>>

\* The last reference goes with the functor, and with it the socket.
RunConnectionDestroyed ==
  /\ Run("connectionDestroyed")
  /\ conns' = [conns EXCEPT ![Head(batch).arg] = "gone"]
  /\ connector' = [connector EXCEPT !.open = @ \ {Head(batch).arg}]
  /\ UNCHANGED <<owners, alive, connect_, retry_, connection_, closeCallback_>>

RunSetCloseCallback ==
  /\ Run("setCloseCallback")
  /\ closeCallback_' = [closeCallback_ EXCEPT ![Head(batch).arg] = "detail"]
  /\ UNCHANGED <<connector, owners, alive, connect_, retry_, connection_, conns>>

FunctorsDone ==
  /\ Running /\ phase = "functors" /\ batch = <<>>
  /\ phase' = "poll"
  /\ UNCHANGED <<connector, owners, clientVars, kernel, active, batch, due,
                 userVars>>

------------------------------------------------------------------------------
(* User code, on thread t: on the loop's in a callback or a functor.  What  *)
(* another thread calls is a functor of the loop.                           *)

UserCode(t) == /\ Running /\ dtor = "no"
               /\ t = "loop" => phase \in {"events", "functors"}
               /\ UNCHANGED <<kernel, loopVars, retry_, conns>>

Start(x, t) ==
  LET y == [x EXCEPT !.connect_ = TRUE]
  IN  IF t = "loop" THEN {StartInLoop(y, r) : r \in ResultsOf(x.attempts + 1)}
                    ELSE {QueueInLoop(y, "startInLoop", 0)}

UserConnect(t) ==
  /\ UserCode(t)
  /\ connects < MaxConnects /\ connects' = connects + 1
  /\ connect_' = TRUE
  /\ connector' \in Start(connector, t)
  /\ stopped' = "no"
  /\ UNCHANGED <<owners, alive, connection_, closeCallback_, dtor,
                 leaving, found, idle, retrying>>

\* disconnect() also calls shutdown() of the connection, module TcpConnection.
UserDisconnect(t) ==
  /\ UserCode(t)
  /\ connect_ /\ connect_' = FALSE
  /\ UNCHANGED <<connector, owners, alive, connection_, closeCallback_, userVars>>

UserStop(t) ==
  /\ UserCode(t)
  /\ stopped = "no" /\ connects > 0
  /\ stopped' = t
  /\ connect_' = FALSE
  /\ connector' \in Stop(connector, t)
  /\ retrying' = (retrying \/ connector.timers # {})
  /\ UNCHANGED <<owners, alive, connection_, closeCallback_, connects,
                 dtor, leaving, found, idle>>

\* A plausible mistake: the connection keeps the client's close callback.
DestroyKeepsCallback ==
  IF connection_ # 0
    THEN LetGo("client", "loop") /\ UNCHANGED closeCallback_
    ELSE /\ owners' = {"timer"}
         /\ connector' \in Stop(connector, "loop")
         /\ UNCHANGED closeCallback_

\* ~TcpClient() on the loop's thread, where runInLoop() runs its functor.
Destroy ==
  IF connection_ # 0
    THEN /\ closeCallback_' = [closeCallback_ EXCEPT ![connection_] = "detail"]
         /\ LetGo("client", "loop")
    ELSE /\ owners' = {"timer"}
         /\ connector' \in Stop(connector, "loop")
         /\ UNCHANGED closeCallback_

UserDestroy ==
  /\ UserCode("loop")
  /\ Destroy
  /\ alive' = FALSE /\ connection_' = 0
  /\ dtor' = "loop" /\ leaving' = "done" /\ found' = connection_
  /\ idle' = (connector.channel_ = "none")
  /\ retrying' = (retrying \/ connector.timers # {})
  /\ UNCHANGED <<connect_, connects, stopped>>

\* On another thread it reads connection_ under the mutex ...
BeginDestroy ==
  /\ UserCode("other")
  /\ dtor' = "other" /\ leaving' = "read" /\ found' = connection_
  /\ UNCHANGED <<connector, owners, alive, connect_, connection_, closeCallback_,
                 connects, stopped, idle, retrying>>

Leave(from, to) ==
  /\ Running /\ leaving = from /\ leaving' = to
  /\ UNCHANGED <<connect_, retry_, conns, closeCallback_, kernel, loopVars,
                 connects, stopped, dtor, found, idle>>
  /\ retrying' = (retrying \/ connector.timers # {})

\* ... has the loop replace the close callback of the connection, or stops the
\* connector ...
LeaveConnection ==
  /\ \/ /\ found # 0 /\ Leave("read", "members")
        /\ connector' = QueueInLoop(connector, "setCloseCallback", found)
     \/ /\ found = 0 /\ Leave("read", "timer")
        /\ connector' \in Stop(connector, "other")
  /\ UNCHANGED <<owners, alive, connection_>>

\* ... and lets a timer keep it ...
LeaveTimer ==
  /\ Leave("timer", "members")
  /\ owners' = owners \cup {"functor"}
  /\ connector' = QueueInLoop(connector, "addTimer", 0)
  /\ UNCHANGED <<alive, connection_>>

\* ... before the members go, with whatever connection_ is by then.
LeaveMembers ==
  /\ Leave("members", "done")
  /\ alive' = FALSE /\ connection_' = 0
  /\ LetGo("client", "other")

\* The last pointer to a connection goes that neither the client nor a functor
\* holds: the one in ~TcpClient, or one that user code has kept.  The connection
\* is freed while the poller has its channel.
FreeConnection ==
  /\ Running
  /\ \E fd \in Fds :
       /\ conns[fd] = "up" /\ connection_ # fd
       /\ Functor("setCloseCallback", fd) \notin Range(batch) \cup Range(connector.pending)
       /\ leaving = "read" => found # fd
  /\ connector' = Fail(connector, "connection freed")
  /\ UNCHANGED <<owners, clientVars, kernel, loopVars, userVars>>

User == \E t \in {"loop", "other"} :
          UserConnect(t) \/ UserDisconnect(t) \/ UserStop(t)

Destruction == \/ UserDestroy \/ BeginDestroy \/ LeaveConnection \/ LeaveTimer
               \/ LeaveMembers \/ FreeConnection

------------------------------------------------------------------------------
Events == \/ RetryTimer \/ RemoveConnector \/ ConnectorWritable \/ ConnectorError
          \/ RemoveConnection \/ RestartConnector

Functors == \/ DoPendingFunctors \/ RunConnectorFunctor \/ RunConnectionDestroyed
            \/ RunSetCloseCallback \/ RunAddTimer \/ FunctorsDone

Next == Settle \/ PeerClose \/ Elapse \/ Poll \/ Events \/ Functors \/ User
        \/ Destruction

\* The loop runs, an attempt is settled, and time passes whenever the loop
\* waits.  Peers need not close, and users need not call anything.
Fairness == /\ WF_vars(Poll \/ Events \/ Functors)
            /\ WF_vars(Settle)
            /\ SF_vars(Elapse)

Spec == Init /\ [][Next]_vars /\ Fairness
------------------------------------------------------------------------------
TypeOK ==
  /\ connector \in Connectors(Fds)
  /\ owners \subseteq {"client", "functor", "timer"}
  /\ alive \in BOOLEAN /\ connect_ \in BOOLEAN /\ retry_ \in BOOLEAN
  /\ connection_ \in Fds \cup {0}
  /\ conns \in [Fds -> {"none", "up", "down", "gone"}]
  /\ closeCallback_ \in [Fds -> {"client", "detail"}]
  /\ kernel \in [Fds -> {"pending", "established", "failed", "self", "closed"}]
  /\ phase \in {"poll", "events", "restart", "functors"}
  /\ active \subseteq [on : {"timer", "ERR", "OUT", "close"}, arg : Fds \cup {0}]
  /\ batch \in Seq(FunctorSet(Fds))
  /\ due \subseteq Fds \cup {0}
  /\ connects \in 0..MaxConnects
  /\ stopped \in {"no", "loop", "other"} /\ dtor \in {"no", "loop", "other"}
  /\ leaving \in {"no", "read", "timer", "members", "done"}
  /\ found \in Fds \cup {0}
  /\ idle \in BOOLEAN /\ retrying \in BOOLEAN

(* Every open socket has exactly one owner that will close it: the channel  *)
(* of an attempt that goes on, or a TcpConnection.  A failed, stopped or    *)
(* self-connected attempt closes its socket before the next one starts.     *)
SocketsOwned ==
  Running => \A fd \in connector.open :
               (connector.channel_ = "on" /\ connector.fd = fd)
                 # (conns[fd] \in {"up", "down"})

(* The asserts of the connector and of removeConnection() hold as long as   *)
(* connect() is called once, whatever the order of retries, restarts, stops *)
(* and the functor that resets the channel.  A second connect() fails one   *)
(* of them unless the first has ended in a failed or fatal attempt.         *)
OneConnectNoAssert ==
  connects <= 1 => connector.fault \notin {"connecting", "startInLoop",
                     "handleWrite", "handleError", "removeConnection"}

(* After stop() on the loop's thread no connection is made until connect()  *)
(* is called again: a retry timer, a queued start and an attempt that is    *)
(* still going on all find connect_ cleared.  The stop() of another thread  *)
(* can be lost between the test in removeConnection() and restart().        *)
StopIsFinal == [][stopped = "loop" /\ stopped' = "loop" /\ connection_ = 0
                    => connection_' = 0]_vars

(* A client destroyed on its loop's thread is not called any more: its      *)
(* connection has another close callback and its connector is stopped.      *)
NotCalledWhenDead ==
  dtor = "loop" => connector.fault # "use of a dead client"

(* The assert of ~Connector() holds for a client that is destroyed while    *)
(* its connector has no channel: nothing that is queued, set or going on    *)
(* then makes one.  With a channel it may fail: the second for which the    *)
(* timer keeps the connector is over before an attempt, and a client        *)
(* destroyed by its own connection callback is ahead of resetChannel().     *)
IdleDtorAssert == idle => connector.fault # "~Connector"

(* The last assert of cancelInLoop() fails only if a retry timer was set    *)
(* while stop() or ~TcpClient ran: a stop at another time finds no timer,   *)
(* not even when its cancel() is run later, and leaves none for the second  *)
(* cancel() of ~Connector().  After a ~TcpClient of another thread that     *)
(* found no connection a restart() may have set one for that.               *)
CancelAssert ==
  connector.fault = "cancelInLoop" => retrying \/ (dtor = "other" /\ found = 0)

(* A connection is freed while the poller has its channel only after        *)
(* ~TcpClient, and on the loop's thread only after one that found           *)
(* connection_ set: without a destructor the client holds its connection    *)
(* until the functor of connectionDestroyed() does.                         *)
FreedByDtor ==
  connector.fault = "connection freed" => /\ dtor # "no"
                                          /\ dtor = "loop" => found # 0

(* An assert fails, a dead client is called or a connection is freed too    *)
(* early in no other case.                                                  *)
FaultCauses == /\ OneConnectNoAssert /\ NotCalledWhenDead /\ IdleDtorAssert
               /\ CancelAssert /\ FreedByDtor

(* A client that was told to connect, and not to stop, gets its connection  *)
(* however many attempts fail, unless connect() returns an error that the   *)
(* switch in connect() gives up on; and with retry_ it gets another one     *)
(* when it loses it.                                                        *)
Connects ==
  LET Over == ~connector.connect_ \/ connector.gaveUp \/ dtor # "no" \/ ~Running
  IN  /\ (Running /\ dtor = "no" /\ connector.connect_ /\ connector.state_ # "kConnected")
           ~> (connection_ # 0 \/ Over)
      /\ (Running /\ dtor = "no" /\ retry_ /\ connect_ /\ \E fd \in Fds : conns[fd] = "down")
           ~> (connection_ # 0 \/ ~connect_ \/ Over)
==============================================================================
