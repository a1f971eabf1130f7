--------------------------- MODULE TcpClientProofs ---------------------------
(***************************************************************************)
(* Proofs about TcpClient and its Connector: the types, the owner of every *)
(* open socket, when an assert fails, a dead client is called or a         *)
(* connection is freed too early, and that a stop on the loop's thread is  *)
(* final, for any number of attempts and of calls of connect(), and any    *)
(* retry delays.  ClientInv is inductive by itself; CauseInv is inductive  *)
(* beside it and adds why no other cancel() fails and no other connection  *)
(* is freed.                                                               *)
(***************************************************************************)
EXTENDS TcpClient, TLAPS

\* A functor of kind op waits in q, and at most one does.
Waits(q, op) == \E i \in 1..Len(q) : q[i].op = op
Once(q, op) == \A i, j \in 1..Len(q) : q[i].op = op /\ q[j].op = op => i = j

\* The functor that destroys the connection of socket fd waits in q.
Destroys(q, fd) ==
  \E i \in 1..Len(q) : q[i].op = "connectionDestroyed" /\ q[i].arg = fd

\* The functor that cancels timer id waits in q.
Cancels(q, id) == \E i \in 1..Len(q) : q[i].op = "cancelInLoop" /\ q[i].arg = id

Queued(op) == Waits(batch, op) \/ Waits(connector.pending, op)
QueuedOnce(op) == /\ Once(batch, op) /\ Once(connector.pending, op)
                  /\ ~(Waits(batch, op) /\ Waits(connector.pending, op))

------------------------------------------------------------------------------
(* The inductive invariant, in named parts.  Running is its hypothesis:     *)
(* nothing happens after a fault.                                           *)

\* The iteration of the loop.
Iteration ==
  /\ phase \in {"poll", "functors"} => active = {}
  /\ phase # "functors" => batch = <<>>
  /\ phase # "poll" => due = {}

\* The connector's state, its channel and the attempt they belong to.
Attempt ==
  /\ connector.channel_ = "on" <=> connector.state_ = "kConnecting"
  /\ connector.channel_ = "on" => /\ connector.fd = connector.attempts
                                  /\ connector.fd \in connector.open
                                  /\ conns[connector.fd] = "none"
  /\ \A fd \in Fds : fd > connector.attempts => conns[fd] = "none"
  /\ connector.attempts = MaxAttempts => connector.state_ # "kDisconnected"

\* Every open socket is an attempt's or a connection's.
Sockets ==
  \A fd \in connector.open :
    (connector.channel_ = "on" /\ fd = connector.fd) \/ conns[fd] \in {"up", "down"}

\* A connection that is up is the client's, and has ended the attempts.
Connection ==
  /\ \A fd \in Fds : conns[fd] = "up" => /\ connector.state_ = "kConnected"
                                         /\ alive => connection_ = fd
                                         /\ kernel[fd] = "closed" => CanFail(connector.attempts)
  /\ connection_ # 0 => alive
  /\ connection_ # 0 /\ dtor = "no" => conns[connection_] = "up"
  /\ kernel[MaxAttempts] \notin {"failed", "self"}
  /\ \A fd \in Fds : conns[fd] = "none" => kernel[fd] # "closed"
  /\ phase = "restart" => /\ connector.state_ = "kConnected"
                          /\ connector.channel_ = "none"
                          /\ CanFail(connector.attempts)
                          /\ \A fd \in Fds : conns[fd] # "up"

\* What poll() reported still holds when it is handled.
Reported ==
  /\ \A e \in active : e.on \in {"OUT", "ERR"} =>
       /\ connector.channel_ = "on" /\ e.arg = connector.fd
       /\ e.on = "ERR" => CanFail(e.arg)
       /\ \A f \in active : f.on \in {"OUT", "ERR"} => f = e
  /\ \A e \in active : e.on = "close" => /\ e.arg \in Fds /\ conns[e.arg] = "up"
                                         /\ CanFail(connector.attempts)
                                         /\ connector.channel_ = "none"

\* A channel that was removed waits for the one resetChannel() of the
\* iteration, and a connection that is destroyed is down.
Resets ==
  /\ connector.channel_ = "removed" <=> Queued("resetChannel")
  /\ QueuedOnce("resetChannel")
  /\ phase \in {"poll", "functors"} => ~Waits(connector.pending, "resetChannel")
  /\ \A fd \in Fds \cup {0} : Destroys(batch, fd) \/ Destroys(connector.pending, fd)
       => fd # 0 /\ conns[fd] \in {"down", "gone"}

\* The retry timers there are: set, expired, or about to be handled.
RetryTimers ==
  connector.timers \cup due \cup {e.arg : e \in {e \in active : e.on = "timer"}}

\* With one call of connect() there is one reason at a time for the next
\* attempt: the queued start, a retry timer, or the end of a connection.
OneReason ==
  connects <= 1 =>
    /\ connects = 0 => connector.attempts = 0 /\ ~Queued("startInLoop")
    /\ connector.attempts = 0 => /\ connector.state_ = "kDisconnected"
                                 /\ connector.channel_ = "none"
    /\ Queued("startInLoop") => connector.attempts = 0
    /\ QueuedOnce("startInLoop")
    /\ \A id \in RetryTimers \ {0} : /\ id = connector.attempts
                                     /\ connector.state_ = "kDisconnected"
    /\ \A e \in active : e.on = "timer" /\ e.arg # 0 => connector.channel_ = "none"

\* A connector nobody will start again.
Idle == owners = {} \/ ~connector.connect_

\* What the destructor and stop() leave.
Dead ==
  /\ dtor = "no" => alive /\ leaving = "no" /\ owners = {"client"}
  /\ leaving \in {"read", "timer", "members"} => dtor = "other"
  /\ dtor = "loop" => /\ ~alive /\ phase # "restart" /\ Idle
                      /\ \A fd \in Fds : conns[fd] = "up" => closeCallback_[fd] = "detail"
  /\ idle => dtor = "loop" /\ connector.channel_ = "none"

\* Only a destructor replaces the close callback of a connection, and only one
\* on another thread leaves its timer to the loop.
Callbacks ==
  /\ dtor = "no" => /\ ~Queued("setCloseCallback")
                    /\ \A fd \in Fds : closeCallback_[fd] = "client"
  /\ dtor # "other" => ~Queued("addTimer")

Stopped ==
  stopped = "loop" => ~connect_ /\ ~connector.connect_ /\ phase # "restart"

\* FaultCauses but for what a destructor or a stop() may fail at once.
CallsRight == OneConnectNoAssert /\ NotCalledWhenDead /\ IdleDtorAssert

ClientInv ==
  /\ TypeOK
  /\ CallsRight
  /\ connector.fault \notin {"handleWrite", "handleError", "removeConnection"}
  /\ Running => /\ Iteration /\ Attempt /\ Sockets /\ Connection /\ Reported
                /\ Resets /\ OneReason /\ Dead /\ Callbacks /\ Stopped

(* A second invariant, which needs the first: why no other cancel() fails   *)
(* and no other connection is freed.                                        *)

\* Timer id was named before the attempt that goes on.
Old(x, id) == id <= x.attempts /\ (x.channel_ = "on" => id < x.attempts)

\* cancelInLoop() of timer id is queued.
Asked(id) == Cancels(batch, id) \/ Cancels(connector.pending, id)

\* timerId_ is an old timer.  So is one whose cancel() is queued, which was set
\* when it was called or never will be.
Cancelled ==
  /\ Old(connector, connector.timerId_)
  /\ \A id \in Fds : Asked(id) => /\ Old(connector, id)
                                  /\ id \in connector.timers => retrying

\* Who keeps the connector beside the client, and what a destructor leaves.
Owners ==
  /\ leaving = "timer" => found = 0
  /\ "timer" \in owners => found = 0
  /\ Queued("addTimer") => found = 0
  /\ dtor = "loop" => /\ \A fd \in Fds : conns[fd] = "up" => found # 0
                      /\ connector.timers # {} => retrying

CauseInv == CancelAssert /\ FreedByDtor /\ (Running => Owners /\ Cancelled)

------------------------------------------------------------------------------
(* What the operators of Connector and on queues do.                        *)

LEMMA FdsNat == Fds \subseteq Nat /\ 0 \notin Fds /\ MaxAttempts \in Fds
  BY BoundsAssumption DEF Fds

(* The types of the connector's members.                                    *)
LEMMA Fields ==
  ASSUME NEW x \in Connectors(Fds)
  PROVE  /\ x.connect_ \in BOOLEAN /\ x.gaveUp \in BOOLEAN
         /\ x.state_ \in {"kDisconnected", "kConnecting", "kConnected"}
         /\ x.channel_ \in {"none", "on", "removed"}
         /\ x.fd \in Fds \cup {0} /\ x.attempts \in Fds \cup {0}
         /\ x.timerId_ \in Fds \cup {0}
         /\ x.timers \subseteq Fds /\ x.open \subseteq Fds
         /\ x.pending \in Seq(FunctorSet(Fds))
         /\ x.retryDelay_ \in kInitRetryDelay..kMaxRetryDelay
  BY DEF Connectors

LEMMA EmptyWaits ==
  ASSUME NEW op, NEW fd
  PROVE  /\ ~Waits(<<>>, op) /\ Once(<<>>, op) /\ ~Destroys(<<>>, fd)
  BY DEF Waits, Once, Destroys

(* queueInLoop() adds its functor and no other.                             *)
LEMMA AppendWaits ==
  ASSUME NEW q \in Seq(FunctorSet(Fds)), NEW f \in FunctorSet(Fds), NEW op, NEW fd
  PROVE  /\ Append(q, f) \in Seq(FunctorSet(Fds))
         /\ Waits(Append(q, f), op) <=> Waits(q, op) \/ f.op = op
         /\ Destroys(Append(q, f), fd) <=>
              Destroys(q, fd) \/ (f.op = "connectionDestroyed" /\ f.arg = fd)
         /\ Once(q, op) /\ (f.op = op => ~Waits(q, op)) => Once(Append(q, f), op)
<1>1. /\ Append(q, f) \in Seq(FunctorSet(Fds))
      /\ Len(Append(q, f)) = Len(q) + 1 /\ Len(q) \in Nat
      /\ Append(q, f)[Len(q) + 1] = f
      /\ \A i \in 1..Len(q) : Append(q, f)[i] = q[i]
  OBVIOUS
<1>2. Waits(Append(q, f), op) <=> Waits(q, op) \/ f.op = op
  BY <1>1 DEF Waits
<1>3. Destroys(Append(q, f), fd) <=>
        Destroys(q, fd) \/ (f.op = "connectionDestroyed" /\ f.arg = fd)
  BY <1>1 DEF Destroys
<1>4. Once(q, op) /\ (f.op = op => ~Waits(q, op)) => Once(Append(q, f), op)
  BY <1>1 DEF Once, Waits
<1> QED
  BY <1>1, <1>2, <1>3, <1>4

(* Running a functor takes it and no other.                                 *)
LEMMA TailWaits ==
  ASSUME NEW q \in Seq(FunctorSet(Fds)), q # <<>>, NEW op, NEW fd
  PROVE  /\ Head(q) \in FunctorSet(Fds) /\ Tail(q) \in Seq(FunctorSet(Fds))
         /\ Waits(q, op) <=> Head(q).op = op \/ Waits(Tail(q), op)
         /\ Destroys(q, fd) <=> \/ Head(q).op = "connectionDestroyed" /\ Head(q).arg = fd
                                \/ Destroys(Tail(q), fd)
         /\ Once(q, op) => /\ Once(Tail(q), op)
                           /\ Head(q).op = op => ~Waits(Tail(q), op)
<1>1. /\ Head(q) \in FunctorSet(Fds) /\ Tail(q) \in Seq(FunctorSet(Fds))
      /\ Len(q) \in Nat \ {0} /\ Len(Tail(q)) = Len(q) - 1 /\ Head(q) = q[1]
      /\ \A i \in 1..Len(q) - 1 : Tail(q)[i] = q[i + 1]
  OBVIOUS
<1>2. \A i \in 1..Len(q) : i = 1 \/ (i - 1 \in 1..Len(Tail(q)) /\ q[i] = Tail(q)[i - 1])
  BY <1>1
<1>3. Waits(q, op) <=> Head(q).op = op \/ Waits(Tail(q), op)
  BY <1>1, <1>2, SMTT(30) DEF Waits
<1>4. Destroys(q, fd) <=> \/ Head(q).op = "connectionDestroyed" /\ Head(q).arg = fd
                          \/ Destroys(Tail(q), fd)
  BY <1>1, <1>2 DEF Destroys
<1>5. ASSUME Once(q, op) PROVE Once(Tail(q), op)
  BY <1>1, <1>5 DEF Once
<1>6. ASSUME Once(q, op), Head(q).op = op PROVE ~Waits(Tail(q), op)
  BY <1>1, <1>6 DEF Once, Waits
<1> QED
  BY <1>1, <1>3, <1>4, <1>5, <1>6

(* The delay is doubled up to its maximum.                                  *)
LEMMA DelayBound ==
  ASSUME NEW d \in kInitRetryDelay..kMaxRetryDelay
  PROVE  Min({2 * d, kMaxRetryDelay}) \in kInitRetryDelay..kMaxRetryDelay
<1> DEFINE S == {2 * d, kMaxRetryDelay}
<1>1. \E m \in S : \A n \in S : m =< n
  BY DelayAssumption
<1>a. PICK m \in S : \A n \in S : m =< n
  BY <1>1
<1> HIDE DEF S
<1>b. LET c == CHOOSE x \in S : \A y \in S : x =< y
      IN  c \in S /\ \A y \in S : c =< y
  BY <1>a, Zenon
<1>2. Min(S) \in S /\ \A y \in S : Min(S) =< y
  BY <1>b DEF Min
<1> USE DEF S
<1> QED
  BY <1>2, DelayAssumption

\* The members the invariant speaks of beside pending are the same.
SameButPending(x, y) ==
  /\ y.state_ = x.state_ /\ y.channel_ = x.channel_ /\ y.fd = x.fd
  /\ y.attempts = x.attempts /\ y.open = x.open /\ y.timers = x.timers
  /\ y.connect_ = x.connect_ /\ y.fault = x.fault /\ y.timerId_ = x.timerId_

(* A change of the queue alone.                                             *)
LEMMA PendingSet ==
  ASSUME NEW x \in Connectors(Fds), NEW q \in Seq(FunctorSet(Fds))
  PROVE  /\ [x EXCEPT !.pending = q] \in Connectors(Fds)
         /\ [x EXCEPT !.pending = q].pending = q
         /\ SameButPending(x, [x EXCEPT !.pending = q])
<1> DEFINE S == Seq(FunctorSet(Fds))
<1> HIDE DEF S
<1> QED
  BY DEF Connectors, SameButPending, S

(* queueInLoop() of one functor.                                            *)
LEMMA QueueChanges ==
  ASSUME NEW x \in Connectors(Fds), NEW op, NEW arg, Functor(op, arg) \in FunctorSet(Fds)
  PROVE  /\ QueueInLoop(x, op, arg) \in Connectors(Fds)
         /\ SameButPending(x, QueueInLoop(x, op, arg))
         /\ \A g : /\ Waits(QueueInLoop(x, op, arg).pending, g) <=> g = op \/ Waits(x.pending, g)
                   /\ Once(x.pending, g) /\ (g = op => ~Waits(x.pending, g))
                        => Once(QueueInLoop(x, op, arg).pending, g)
         /\ \A fd : Destroys(QueueInLoop(x, op, arg).pending, fd) <=>
              (op = "connectionDestroyed" /\ arg = fd) \/ Destroys(x.pending, fd)
<1> DEFINE f == Functor(op, arg)
           q == Append(x.pending, f)
<1>1. f.op = op /\ f.arg = arg /\ f \in FunctorSet(Fds) /\ x.pending \in Seq(FunctorSet(Fds))
  BY Fields DEF Functor
<1>2. QueueInLoop(x, op, arg) = [x EXCEPT !.pending = q]
  BY DEF QueueInLoop
<1> HIDE DEF f
<1>3. q \in Seq(FunctorSet(Fds))
  BY <1>1
<1>4. /\ \A g : /\ Waits(q, g) <=> g = op \/ Waits(x.pending, g)
                /\ Once(x.pending, g) /\ (g = op => ~Waits(x.pending, g)) => Once(q, g)
      /\ \A fd : Destroys(q, fd) <=>
              (op = "connectionDestroyed" /\ arg = fd) \/ Destroys(x.pending, fd)
  BY <1>1, AppendWaits
<1> HIDE DEF q
<1>5. /\ QueueInLoop(x, op, arg) \in Connectors(Fds)
      /\ SameButPending(x, QueueInLoop(x, op, arg))
      /\ QueueInLoop(x, op, arg).pending = q
  BY <1>2, <1>3, PendingSet
<1> QED
  BY <1>4, <1>5

(* What a retry timer changes.                                              *)
LEMMA TimerSet ==
  ASSUME NEW z \in Connectors(Fds), NEW fd \in Fds,
         NEW d \in kInitRetryDelay..kMaxRetryDelay
  PROVE  [z EXCEPT !.timers = @ \cup {fd}, !.timerId_ = fd, !.retryDelay_ = d]
           \in Connectors(Fds)
<1>1. z.timers \cup {fd} \in SUBSET Fds
  BY Fields
<1> DEFINE S == z.timers \cup {fd}
<1> HIDE DEF S
<1> QED
  BY <1>1 DEF Connectors, S

\* connect() has an attempt under way.
Begun(x, y) ==
  /\ x.channel_ = "none"
  /\ y.state_ = "kConnecting" /\ y.channel_ = "on"
  /\ y.fd = x.attempts + 1 /\ y.open = x.open \cup {x.attempts + 1}
  /\ y.timers = x.timers /\ y.timerId_ = x.timerId_

\* connect() has set a retry timer.
Postponed(x, y) ==
  /\ y.state_ = "kDisconnected" /\ y.channel_ = x.channel_ /\ y.fd = x.fd
  /\ y.open = x.open \ {x.attempts + 1}
  /\ y.timers = x.timers \cup {x.attempts + 1} /\ y.timerId_ = x.attempts + 1
  /\ x.attempts + 1 < MaxAttempts

\* connect() has met an error that it gives up on.
Ended(x, y) ==
  /\ y.state_ = "kDisconnected" /\ y.channel_ = x.channel_ /\ y.fd = x.fd
  /\ y.open = x.open /\ y.timers = x.timers /\ y.timerId_ = x.timerId_
  /\ x.attempts + 1 < MaxAttempts

\* One attempt, made by startInLoop().
Attempted(x, y) ==
  /\ x.state_ = "kDisconnected" /\ x.connect_ /\ y.connect_
  /\ x.attempts < MaxAttempts /\ y.attempts = x.attempts + 1
  /\ y.pending = x.pending /\ y.fault = "none"
  /\ Begun(x, y) \/ Postponed(x, y) \/ Ended(x, y)

(* startInLoop() fails an assert, does nothing, or makes one attempt.       *)
LEMMA StartOutcomes ==
  ASSUME NEW x \in Connectors(Fds), x.fault = "none",
         x.attempts = MaxAttempts => x.state_ # "kDisconnected",
         NEW r \in ResultsOf(x.attempts + 1)
  PROVE  /\ StartInLoop(x, r) \in Connectors(Fds)
         /\ \/ StartInLoop(x, r).fault = "startInLoop" /\ x.state_ # "kDisconnected"
            \/ StartInLoop(x, r).fault = "connecting" /\ x.channel_ # "none"
            \/ StartInLoop(x, r) = x /\ ~x.connect_
            \/ Attempted(x, StartInLoop(x, r))
<1>0. /\ x.attempts \in Nat /\ MaxAttempts \in Nat
      /\ x.retryDelay_ \in kInitRetryDelay..kMaxRetryDelay
  BY Fields, BoundsAssumption DEF Fds
<1>1. CASE x.state_ # "kDisconnected"
  BY <1>1 DEF StartInLoop, Fail, Connectors
<1>2. CASE x.state_ = "kDisconnected" /\ ~x.connect_
  BY <1>2 DEF StartInLoop
<1>3. CASE x.state_ = "kDisconnected" /\ x.connect_
  <2> DEFINE fd == x.attempts + 1
             y == [x EXCEPT !.attempts = fd, !.open = @ \cup {fd}]
  <2>1. StartInLoop(x, r) = Connect(x, r)
    BY <1>3 DEF StartInLoop
  <2>2. fd \in Fds /\ x.attempts < MaxAttempts /\ x.attempts + 1 = fd
    BY <1>0, <1>3, Fields DEF Fds
  <2>3. /\ y \in Connectors(Fds)
        /\ y.attempts = fd /\ y.open = x.open \cup {fd} /\ y.fd = x.fd
        /\ y.state_ = x.state_ /\ y.channel_ = x.channel_ /\ y.connect_ = x.connect_
        /\ y.timers = x.timers /\ y.pending = x.pending /\ y.fault = x.fault
        /\ y.retryDelay_ = x.retryDelay_ /\ y.timerId_ = x.timerId_
    BY <2>2 DEF Connectors
  <2>a. /\ r = "EINPROGRESS" => StartInLoop(x, r) = Connecting(y, fd)
        /\ r = "EAGAIN" => StartInLoop(x, r) = Retry(y, fd)
        /\ r = "EACCES" => StartInLoop(x, r) = [x EXCEPT !.attempts = fd, !.gaveUp = TRUE]
    BY <2>1 DEF Connect
  <2> HIDE DEF y, fd
  <2>4. CASE r = "EINPROGRESS"
    <3>1. StartInLoop(x, r) = Connecting(y, fd)
      BY <2>a, <2>4
    <3>2. CASE x.channel_ # "none"
      BY <3>1, <3>2, <2>3, ZenonT(60) DEF Connecting, Fail, Connectors
    <3>3. CASE x.channel_ = "none"
      <4>1. StartInLoop(x, r) = [y EXCEPT !.state_ = "kConnecting", !.channel_ = "on", !.fd = fd]
        BY <3>1, <3>3, <2>3 DEF Connecting
      <4> QED
        BY <4>1, <2>2, <2>3, <1>3, <3>3, ZenonT(60) DEF Connectors, Attempted, Begun
    <3> QED
      BY <3>2, <3>3
  <2>5. CASE r = "EAGAIN"
    <3>1. StartInLoop(x, r) = Retry(y, fd) /\ fd < MaxAttempts
      BY <2>a, <2>5, <2>2 DEF ResultsOf, CanFail
    <3>2. Min({2 * x.retryDelay_, kMaxRetryDelay}) \in kInitRetryDelay..kMaxRetryDelay
      BY <1>0, DelayBound
    <3> DEFINE d == Min({2 * x.retryDelay_, kMaxRetryDelay})
    <3>a. Retry(y, fd) =
            [[y EXCEPT !.open = @ \ {fd}, !.state_ = "kDisconnected"]
               EXCEPT !.timers = @ \cup {fd}, !.timerId_ = fd,
                      !.retryDelay_ = Min({2 * @, kMaxRetryDelay})]
      BY <1>3, <2>3 DEF Retry
    <3> DEFINE z == [y EXCEPT !.open = @ \ {fd}, !.state_ = "kDisconnected"]
    <3>b. /\ z \in Connectors(Fds) /\ z.retryDelay_ = x.retryDelay_
          /\ z.open = y.open \ {fd} /\ z.state_ = "kDisconnected" /\ z.fd = x.fd
          /\ z.attempts = fd /\ z.channel_ = x.channel_ /\ z.connect_ = x.connect_
          /\ z.timers = x.timers /\ z.pending = x.pending /\ z.fault = x.fault
      BY <2>3 DEF Connectors
    <3> HIDE DEF z
    <3>3. StartInLoop(x, r) =
            [z EXCEPT !.timers = @ \cup {fd}, !.timerId_ = fd, !.retryDelay_ = d]
      BY <3>1, <3>a, <3>b DEF z
    <3> HIDE DEF d
    <3>4. d \in kInitRetryDelay..kMaxRetryDelay
      BY <3>2 DEF d
    <3> DEFINE w == StartInLoop(x, r)
    <3>5. /\ w.open = z.open /\ w.state_ = z.state_ /\ w.fd = z.fd
          /\ w.attempts = z.attempts /\ w.channel_ = z.channel_ /\ w.connect_ = z.connect_
          /\ w.timers = z.timers \cup {fd} /\ w.pending = z.pending /\ w.fault = z.fault
          /\ w.timerId_ = fd
      BY <3>3, <3>b DEF Connectors
    <3>7. w \in Connectors(Fds)
      <4>1. [z EXCEPT !.timers = @ \cup {fd}, !.timerId_ = fd, !.retryDelay_ = d]
              \in Connectors(Fds)
        BY <3>4, <3>b, <2>2, TimerSet
      <4> QED
        BY <4>1, <3>3
    <3> HIDE DEF w
    <3>6. Attempted(x, w)
      BY <3>1, <3>5, <3>b, <2>2, <2>3, <1>3 DEF Attempted, Postponed
    <3> QED
      BY <3>7, <3>6 DEF w
  <2>6. CASE r = "EACCES"
    <3>1. StartInLoop(x, r) = [x EXCEPT !.attempts = fd, !.gaveUp = TRUE] /\ fd < MaxAttempts
      BY <2>a, <2>6, <2>2 DEF ResultsOf, CanFail
    <3> QED
      BY <3>1, <2>2, <1>3, ZenonT(60) DEF Connectors, Attempted, Ended
  <2> QED
    BY <2>4, <2>5, <2>6 DEF ResultsOf, Results
<1> QED
  BY <1>1, <1>2, <1>3

------------------------------------------------------------------------------
(* The steps that leave the connector alone.                                *)

\* The parts of the invariant that hold while the program runs.
Inner == /\ Iteration /\ Attempt /\ Sockets /\ Connection /\ Reported
         /\ Resets /\ OneReason /\ Dead /\ Callbacks /\ Stopped

LEMMA SettleKeeps ==
  ASSUME ClientInv, Settle
  PROVE  ClientInv'
<1>0. Inner /\ Running /\ UNCHANGED <<connector, owners, clientVars, loopVars, userVars>>
  BY DEF ClientInv, Inner, Settle
<1>1. PICK fd \in connector.open, r \in {"established", "failed", "self"} :
        /\ conns[fd] = "none" /\ kernel' = [kernel EXCEPT ![fd] = r]
        /\ r # "established" => CanFail(fd)
  BY DEF Settle
<1>2. fd \in Fds
  BY <1>0, Fields DEF ClientInv, TypeOK
<1>3. TypeOK'
  BY <1>0, <1>1, <1>2 DEF ClientInv, TypeOK, clientVars, loopVars, userVars
<1>4. /\ Iteration' /\ Attempt' /\ Sockets' /\ Reported' /\ Dead' /\ Stopped'
  BY <1>0 DEF Inner, Iteration, Attempt, Sockets, Reported, Dead, Stopped, Idle,
              clientVars, loopVars, userVars
<1>7. Resets'
  BY <1>0 DEF Inner, Resets, Queued, QueuedOnce, clientVars, loopVars
<1>8. OneReason'
  BY <1>0 DEF Inner, OneReason, Queued, QueuedOnce, RetryTimers, loopVars, userVars
<1>9. CallsRight'
  BY <1>0 DEF ClientInv, CallsRight, OneConnectNoAssert, NotCalledWhenDead,
              IdleDtorAssert, userVars
<1>5. /\ kernel'[MaxAttempts] \notin {"failed", "self"}
      /\ \A g \in Fds : conns[g] = "up" => kernel'[g] = kernel[g]
      /\ \A g \in Fds : kernel'[g] = "closed" => kernel[g] = "closed"
  <2>1. fd = MaxAttempts => r = "established"
    BY <1>1, BoundsAssumption DEF CanFail
  <2> QED
    BY <1>0, <1>1, <1>2, <2>1, FdsNat DEF Inner, Connection, ClientInv, TypeOK
<1>6. Connection'
  BY <1>0, <1>5 DEF Inner, Connection, CanFail, clientVars, loopVars, userVars
<1>c. Callbacks'
  BY <1>0 DEF Inner, Callbacks, Queued, clientVars, loopVars, userVars
<1> QED
  BY <1>0, <1>3, <1>4, <1>6, <1>7, <1>8, <1>9, <1>c DEF ClientInv, Inner

(* A step that goes on, and one that ends in a fault the properties allow.  *)
LEMMA GoesOn ==
  ASSUME TypeOK', Running', Inner'
  PROVE  ClientInv'
  BY DEF ClientInv, Inner, Running, CallsRight, OneConnectNoAssert,
         NotCalledWhenDead, IdleDtorAssert

LEMMA Faults ==
  ASSUME TypeOK',
         connector'.fault \notin {"none", "handleWrite", "handleError", "removeConnection"},
         connector'.fault \in {"startInLoop", "connecting"} => ~(connects' <= 1),
         connector'.fault = "use of a dead client" => dtor' # "loop",
         connector'.fault = "~Connector" => ~idle'
  PROVE  ClientInv'
  BY DEF ClientInv, Running, CallsRight, OneConnectNoAssert,
         NotCalledWhenDead, IdleDtorAssert

LEMMA PeerCloseKeeps ==
  ASSUME ClientInv, PeerClose
  PROVE  ClientInv'
<1>0. Inner /\ Running /\ UNCHANGED <<connector, owners, clientVars, loopVars, userVars>>
  BY DEF ClientInv, Inner, PeerClose
<1>1. PICK fd \in Fds : /\ CanFail(connector.attempts) /\ conns[fd] = "up"
                        /\ kernel' = [kernel EXCEPT ![fd] = "closed"]
  BY DEF PeerClose
<1>2. TypeOK'
  BY <1>0, <1>1 DEF ClientInv, TypeOK, clientVars, loopVars, userVars
<1>3. /\ Iteration' /\ Attempt' /\ Sockets' /\ Reported' /\ Dead' /\ Stopped'
  BY <1>0 DEF Inner, Iteration, Attempt, Sockets, Reported, Dead, Stopped, Idle,
              clientVars, loopVars, userVars
<1>4. Resets'
  BY <1>0 DEF Inner, Resets, Queued, QueuedOnce, clientVars, loopVars
<1>5. OneReason'
  BY <1>0 DEF Inner, OneReason, Queued, QueuedOnce, RetryTimers, loopVars, userVars
<1>6. /\ kernel'[MaxAttempts] \notin {"failed", "self"}
      /\ \A g \in Fds : conns[g] = "none" => kernel'[g] = kernel[g]
  BY <1>0, <1>1, FdsNat DEF Inner, Connection, ClientInv, TypeOK
<1>7. Connection'
  BY <1>0, <1>1, <1>6 DEF Inner, Connection, CanFail, clientVars, loopVars, userVars
<1>c. Callbacks'
  BY <1>0 DEF Inner, Callbacks, Queued, clientVars, loopVars, userVars
<1> QED
  BY <1>0, <1>2, <1>3, <1>4, <1>5, <1>7, <1>c, GoesOn DEF Inner, Running

LEMMA ElapseKeeps ==
  ASSUME ClientInv, Elapse
  PROVE  ClientInv'
<1>0. /\ Inner /\ Running /\ phase = "poll"
      /\ UNCHANGED <<connector, owners, clientVars, kernel, phase, active, batch, userVars>>
  BY DEF ClientInv, Inner, Elapse
<1>1. PICK id \in connector.timers \cup {0} : due' = due \cup {id}
  BY DEF Elapse
<1>2. TypeOK'
  <2>1. id \in Fds \cup {0}
    BY <1>1, Fields DEF ClientInv, TypeOK
  <2> QED
    BY <1>0, <1>1, <2>1 DEF ClientInv, TypeOK, clientVars, userVars
<1>3. /\ Attempt' /\ Sockets' /\ Reported' /\ Dead' /\ Stopped' /\ Connection'
  BY <1>0 DEF Inner, Attempt, Sockets, Reported, Dead, Stopped, Idle, Connection,
              CanFail, clientVars, userVars
<1>4. Iteration'
  BY <1>0 DEF Inner, Iteration
<1>5. Resets'
  BY <1>0 DEF Inner, Resets, Queued, QueuedOnce, clientVars
<1>6. OneReason'
  <2>1. RetryTimers' \ {0} = RetryTimers \ {0}
    BY <1>0, <1>1 DEF RetryTimers
  <2> QED
    BY <1>0, <2>1 DEF Inner, OneReason, Queued, QueuedOnce, userVars
<1>c. Callbacks'
  BY <1>0 DEF Inner, Callbacks, Queued, clientVars, userVars
<1> QED
  BY <1>0, <1>2, <1>3, <1>4, <1>5, <1>6, <1>c, GoesOn DEF Inner, Running

LEMMA FunctorsDoneKeeps ==
  ASSUME ClientInv, FunctorsDone
  PROVE  ClientInv'
<1>0. /\ Inner /\ Running /\ phase = "functors" /\ phase' = "poll" /\ batch = <<>>
      /\ UNCHANGED <<connector, owners, clientVars, kernel, active, batch, due, userVars>>
  BY DEF ClientInv, Inner, FunctorsDone
<1>2. TypeOK'
  BY <1>0 DEF ClientInv, TypeOK, clientVars, userVars
<1>3. /\ Attempt' /\ Sockets' /\ Reported' /\ Dead' /\ Stopped' /\ Connection'
  BY <1>0 DEF Inner, Attempt, Sockets, Reported, Dead, Stopped, Idle, Connection,
              CanFail, clientVars, userVars
<1>4. Iteration'
  BY <1>0 DEF Inner, Iteration
<1>5. Resets'
  BY <1>0 DEF Inner, Resets, Queued, QueuedOnce, clientVars
<1>6. OneReason'
  BY <1>0 DEF Inner, OneReason, Queued, QueuedOnce, RetryTimers, userVars
<1>c. Callbacks'
  BY <1>0 DEF Inner, Callbacks, Queued, clientVars, userVars
<1> QED
  BY <1>0, <1>2, <1>3, <1>4, <1>5, <1>6, <1>c, GoesOn DEF Inner, Running

LEMMA UserDisconnectKeeps ==
  ASSUME ClientInv, NEW t \in {"loop", "other"}, UserDisconnect(t)
  PROVE  ClientInv'
<1>0. /\ Inner /\ Running /\ connect_' = FALSE
      /\ UNCHANGED <<connector, owners, kernel, loopVars, retry_, conns, alive,
                     connection_, closeCallback_, userVars>>
  BY DEF ClientInv, Inner, UserDisconnect, UserCode
<1>2. TypeOK'
  BY <1>0, ZenonT(60) DEF ClientInv, TypeOK, loopVars, userVars
<1>3. /\ Attempt' /\ Sockets' /\ Reported' /\ Dead' /\ Stopped' /\ Connection' /\ Iteration'
  BY <1>0 DEF Inner, Attempt, Sockets, Reported, Dead, Stopped, Idle, Connection,
              CanFail, Iteration, loopVars, userVars
<1>5. Resets'
  BY <1>0 DEF Inner, Resets, Queued, QueuedOnce, loopVars
<1>6. OneReason'
  BY <1>0 DEF Inner, OneReason, Queued, QueuedOnce, RetryTimers, loopVars, userVars
<1>c. Callbacks'
  BY <1>0 DEF Inner, Callbacks, Queued, loopVars, userVars
<1> QED
  BY <1>0, <1>2, <1>3, <1>5, <1>6, <1>c, GoesOn DEF Inner, Running

(* poll(): nothing is left to reset, so a timer or a connection that is     *)
(* reported finds no channel.                                               *)
LEMMA PollKeeps ==
  ASSUME ClientInv, Poll
  PROVE  ClientInv'
<1>0. /\ Inner /\ Running /\ phase = "poll" /\ phase' = "events" /\ due' = {} /\ TypeOK
      /\ UNCHANGED <<connector, owners, clientVars, kernel, batch, userVars>>
  BY DEF ClientInv, Inner, Poll
<1>1. connector.channel_ # "removed"
  BY <1>0, EmptyWaits DEF Inner, Iteration, Resets, Queued
<1>2. \A e \in active' :
        \/ e.on = "timer" /\ e.arg \in due
        \/ /\ e.on = "ERR" /\ e.arg \in Fds /\ e.arg = connector.fd
           /\ connector.channel_ = "on" /\ kernel[e.arg] = "failed"
        \/ /\ e.on = "OUT" /\ e.arg \in Fds /\ e.arg = connector.fd
           /\ connector.channel_ = "on" /\ kernel[e.arg] \in {"established", "self"}
        \/ e.on = "close" /\ e.arg \in Fds /\ conns[e.arg] = "up" /\ kernel[e.arg] = "closed"
  BY DEF Poll, Event
<1>3. active' \subseteq [on : {"timer", "ERR", "OUT", "close"}, arg : Fds \cup {0}]
  BY <1>0 DEF Poll, Event, TypeOK
<1>4. TypeOK'
  BY <1>0, <1>3 DEF TypeOK, clientVars, userVars
<1>5. /\ Attempt' /\ Sockets' /\ Dead' /\ Stopped' /\ Connection' /\ Iteration'
  BY <1>0 DEF Inner, Attempt, Sockets, Dead, Stopped, Idle, Connection, CanFail,
              Iteration, clientVars, userVars
<1>6. Resets'
  BY <1>0 DEF Inner, Resets, Queued, QueuedOnce, clientVars
<1>7. Reported'
  <2>1. \A e \in active' : e.on = "ERR" => CanFail(e.arg)
    BY <1>0, <1>2, BoundsAssumption DEF Inner, Connection, CanFail, Fds
  <2>2. \A e, f \in active' : e.on \in {"OUT", "ERR"} /\ f.on \in {"OUT", "ERR"} => f = e
    <3>1. \A e, f \in active' : e.on = f.on /\ e.arg = f.arg => e = f
      BY <1>3
    <3> QED
      BY <3>1, <1>2
  <2>3. \A e \in active' : e.on = "close" => /\ CanFail(connector.attempts)
                                             /\ connector.channel_ = "none"
    BY <1>0, <1>1, <1>2, Fields DEF Inner, Connection, Attempt, TypeOK
  <2> QED
    BY <1>0, <1>2, <2>1, <2>2, <2>3 DEF Reported, CanFail, clientVars
<1>8. OneReason'
  <2>1. RetryTimers' \subseteq RetryTimers
    BY <1>0, <1>2 DEF RetryTimers
  <2>2. ASSUME connects <= 1, NEW e \in active', e.on = "timer", e.arg # 0
        PROVE  connector.channel_ = "none"
    <3>1. e.arg \in RetryTimers \ {0}
      BY <2>2, <1>2 DEF RetryTimers
    <3>2. connector.state_ = "kDisconnected"
      BY <3>1, <2>2, <1>0 DEF Inner, OneReason
    <3> QED
      BY <1>0, <1>1, <3>2, Fields DEF Inner, Attempt, TypeOK
  <2> QED
    BY <1>0, <2>1, <2>2 DEF Inner, OneReason, Queued, QueuedOnce, userVars
<1>c. Callbacks'
  BY <1>0 DEF Inner, Callbacks, Queued, clientVars, userVars
<1> QED
  BY <1>0, <1>4, <1>5, <1>6, <1>7, <1>8, <1>c, GoesOn DEF Inner, Running

(* doPendingFunctors(): the queue becomes the batch.                        *)
LEMMA SwapKeeps ==
  ASSUME ClientInv, DoPendingFunctors
  PROVE  ClientInv'
<1>0. /\ Inner /\ Running /\ phase = "events" /\ phase' = "functors" /\ active = {} /\ TypeOK
      /\ batch' = connector.pending /\ connector' = [connector EXCEPT !.pending = <<>>]
      /\ UNCHANGED <<owners, clientVars, kernel, active, due, userVars>>
  BY DEF ClientInv, Inner, DoPendingFunctors
<1>a. <<>> \in Seq(FunctorSet(Fds))
  OBVIOUS
<1>1. /\ connector' \in Connectors(Fds) /\ connector'.pending = <<>>
      /\ connector'.state_ = connector.state_ /\ connector'.channel_ = connector.channel_
      /\ connector'.fd = connector.fd /\ connector'.attempts = connector.attempts
      /\ connector'.open = connector.open /\ connector'.timers = connector.timers
      /\ connector'.connect_ = connector.connect_ /\ connector'.fault = "none"
  <2>1. connector \in Connectors(Fds) /\ connector.fault = "none"
    BY <1>0 DEF TypeOK, Running
  <2>2. /\ connector' \in Connectors(Fds) /\ connector'.pending = <<>>
        /\ SameButPending(connector, connector')
    BY <1>0, <1>a, <2>1, PendingSet, Zenon
  <2> QED
    BY <2>1, <2>2 DEF SameButPending
<1>2. batch = <<>> /\ due = {}
  BY <1>0 DEF Inner, Iteration
<1>3. TypeOK'
  BY <1>0, <1>1, Fields DEF TypeOK, clientVars, userVars
<1>4. /\ Attempt' /\ Sockets' /\ Dead' /\ Stopped' /\ Connection' /\ Reported'
  BY <1>0, <1>1 DEF Inner, Attempt, Sockets, Dead, Stopped, Idle, Connection, CanFail,
              Reported, clientVars, userVars
<1>5. Iteration'
  BY <1>0, <1>2 DEF Inner, Iteration
<1>6. ASSUME NEW op
      PROVE  /\ ~Waits(batch, op) /\ ~Waits(connector'.pending, op)
             /\ Waits(batch', op) <=> Waits(connector.pending, op)
             /\ Once(batch', op) <=> Once(connector.pending, op)
             /\ Once(connector'.pending, op)
  BY <1>0, <1>1, <1>2, EmptyWaits
<1>7. ASSUME NEW fd
      PROVE  /\ ~Destroys(connector'.pending, fd)
             /\ Destroys(batch', fd) <=> Destroys(connector.pending, fd)
  BY <1>0, <1>1, EmptyWaits
<1>8. \A op : (Queued(op)' <=> Queued(op)) /\ (QueuedOnce(op) => QueuedOnce(op)')
  BY <1>6 DEF Queued, QueuedOnce
<1>9. Resets'
  BY <1>0, <1>1, <1>6, <1>7, <1>8 DEF Inner, Resets, clientVars
<1>10. OneReason'
  BY <1>0, <1>1, <1>8 DEF Inner, OneReason, RetryTimers, userVars
<1>c. Callbacks'
  BY <1>0, <1>8 DEF Inner, Callbacks, clientVars, userVars
<1> QED
  BY <1>1, <1>3, <1>4, <1>5, <1>9, <1>10, <1>c, GoesOn DEF Inner, Running

(* What running one functor does to the batch.                              *)
LEMMA RunTakes ==
  ASSUME ClientInv, NEW op, Run(op)
  PROVE  /\ Inner /\ Running /\ TypeOK /\ phase = "functors" /\ batch # <<>>
         /\ Head(batch) \in FunctorSet(Fds) /\ Head(batch).op = op
         /\ batch' \in Seq(FunctorSet(Fds)) /\ batch' = Tail(batch)
         /\ \A g : /\ Waits(batch, g) <=> g = op \/ Waits(batch', g)
                   /\ Once(batch, g) => /\ Once(batch', g)
                                        /\ g = op => ~Waits(batch', g)
         /\ \A fd : Destroys(batch, fd) <=>
              (op = "connectionDestroyed" /\ Head(batch).arg = fd) \/ Destroys(batch', fd)
         /\ UNCHANGED <<kernel, phase, active, due, userVars>>
<1>1. /\ Inner /\ Running /\ TypeOK /\ phase = "functors" /\ batch # <<>>
      /\ Head(batch).op = op /\ batch' = Tail(batch) /\ batch \in Seq(FunctorSet(Fds))
      /\ UNCHANGED <<kernel, phase, active, due, userVars>>
  BY DEF ClientInv, Inner, Run, TypeOK
<1> QED
  BY <1>1, TailWaits

------------------------------------------------------------------------------
(* Operations of the connector that several steps share.                    *)

(* A failed assert, or the use of something dead, changes nothing else.     *)
LEMMA FailTyped ==
  ASSUME NEW x \in Connectors(Fds),
         NEW w \in {"connecting", "startInLoop", "handleWrite", "handleError",
                    "~Connector", "cancelInLoop", "removeConnection",
                    "use of a dead connector", "use of a dead client",
                    "connection freed"}
  PROVE  Fail(x, w) \in Connectors(Fds) /\ Fail(x, w).fault = w
  BY ZenonT(60) DEF Fail, Connectors

(* A timer that is not set any more.                                        *)
LEMMA ExpireChanges ==
  ASSUME NEW x \in Connectors(Fds), NEW id
  PROVE  /\ Expire(x, id) \in Connectors(Fds)
         /\ Expire(x, id).state_ = x.state_ /\ Expire(x, id).channel_ = x.channel_
         /\ Expire(x, id).fd = x.fd /\ Expire(x, id).attempts = x.attempts
         /\ Expire(x, id).open = x.open /\ Expire(x, id).pending = x.pending
         /\ Expire(x, id).connect_ = x.connect_ /\ Expire(x, id).fault = x.fault
         /\ Expire(x, id).timers = x.timers \ {id} /\ Expire(x, id).timerId_ = x.timerId_
<1>1. x.timers \ {id} \in SUBSET Fds
  BY Fields
<1> DEFINE S == x.timers \ {id}
<1>2. Expire(x, id) = [x EXCEPT !.timers = S]
  BY DEF Expire
<1> HIDE DEF S
<1>3. [x EXCEPT !.timers = S] \in Connectors(Fds)
  BY <1>1 DEF Connectors, S
<1> QED
  <2>1. /\ Expire(x, id) \in Connectors(Fds)
        /\ Expire(x, id).timers = S
    BY <1>2, <1>3 DEF Connectors
  <2>2. /\ Expire(x, id).state_ = x.state_ /\ Expire(x, id).channel_ = x.channel_
        /\ Expire(x, id).fd = x.fd /\ Expire(x, id).attempts = x.attempts
        /\ Expire(x, id).open = x.open /\ Expire(x, id).pending = x.pending
        /\ Expire(x, id).connect_ = x.connect_ /\ Expire(x, id).fault = x.fault
        /\ Expire(x, id).timerId_ = x.timerId_
    BY <1>2 DEF Connectors
  <2> QED
    BY <2>1, <2>2 DEF S

(* cancelInLoop() takes one timer or fails its assert.                      *)
LEMMA CancelChanges ==
  ASSUME NEW x \in Connectors(Fds), NEW id, NEW y \in CancelTimer(x, id)
  PROVE  \/ y = Expire(x, id)
         \/ y \in Connectors(Fds) /\ y.fault = "cancelInLoop" /\ id \in x.timers
<1>1. CASE y = Expire(x, id)
  BY <1>1
<1>2. CASE y = Fail(x, "cancelInLoop") /\ id \in x.timers
  BY <1>2, FailTyped
<1> QED
  BY <1>1, <1>2 DEF CancelTimer

(* The loop's call of a connector that is dead.                             *)
LEMMA DeadCall ==
  ASSUME ClientInv, NEW x, OnConnector(x), owners = {},
         TypeOK /\ connector' \in Connectors(Fds) => TypeOK'
  PROVE  ClientInv'
<1>1. connector' = Fail(connector, "use of a dead connector") /\ connector \in Connectors(Fds)
  BY DEF OnConnector, ClientInv, TypeOK
<1>2. connector' \in Connectors(Fds) /\ connector'.fault = "use of a dead connector"
  BY <1>1, FailTyped
<1> QED
  BY <1>2, Faults DEF ClientInv

(* An attempt that is made while no connection is up, nothing that stops it *)
(* was called, and, if connect() was called once, no other reason is left.  *)
LEMMA AttemptKeeps ==
  ASSUME TypeOK, TypeOK', Attempt, Sockets, Connection, Reported,
         NEW x \in Connectors(Fds), Attempted(x, connector'),
         x.attempts = connector.attempts, x.open = connector.open,
         x.channel_ = connector.channel_, connector.channel_ # "on",
         \A fd \in Fds : conns[fd] # "up",
         \A e \in active : e.on # "close",
         phase' # "restart", active' \subseteq active,
         UNCHANGED <<conns, kernel, connection_, alive, owners, dtor, leaving>>, Dead,
         dtor' # "loop", ~idle', stopped' # "loop",
         connects' <= 1 =>
           /\ connects' = 1 /\ ~Queued("startInLoop")' /\ QueuedOnce("startInLoop")'
           /\ x.timers = {} /\ due' \subseteq {0}
           /\ \A e \in active' : e.on = "timer" => e.arg = 0
  PROVE  /\ Attempt' /\ Sockets' /\ Connection' /\ Reported' /\ OneReason'
         /\ Dead' /\ Stopped' /\ Running'
<1> DEFINE a == x.attempts + 1
<1>0. /\ connector \in Connectors(Fds) /\ connector' \in Connectors(Fds)
      /\ x.attempts \in Nat /\ MaxAttempts \in Nat /\ x.state_ = "kDisconnected"
      /\ connector'.attempts = a /\ a \in Fds /\ connector'.fault = "none"
      /\ conns \in [Fds -> {"none", "up", "down", "gone"}]
      /\ Begun(x, connector') \/ Postponed(x, connector') \/ Ended(x, connector')
  BY Fields, BoundsAssumption, SMTT(30) DEF TypeOK, Attempted, Fds
<1>1. conns[a] = "none"
  BY <1>0 DEF Attempt
<1>2. \/ /\ connector'.state_ = "kConnecting" /\ connector'.channel_ = "on"
         /\ connector'.fd = a /\ connector'.open = connector.open \cup {a}
         /\ connector'.timers = x.timers
      \/ /\ connector'.state_ = "kDisconnected"
         /\ connector'.channel_ = connector.channel_
         /\ connector'.open \subseteq connector.open /\ a < MaxAttempts
         /\ connector'.timers \subseteq x.timers \cup {a}
  BY <1>0 DEF Begun, Postponed, Ended
<1> HIDE DEF a
<1>a. \A fd \in Fds : fd > a => fd > connector.attempts
  BY <1>0 DEF a, Fds
<1>3. Attempt'
  BY <1>0, <1>1, <1>2, <1>a, BoundsAssumption DEF Attempt
<1>4. Sockets'
  BY <1>0, <1>1, <1>2 DEF Sockets
<1>5. Connection'
  BY <1>0 DEF Connection, CanFail, TypeOK
<1>6. Reported'
  <2>1. \A e \in active' : e.on \notin {"OUT", "ERR", "close"}
    BY DEF Reported
  <2> QED
    BY <2>1 DEF Reported
<1>7. OneReason'
  <2> SUFFICES ASSUME connects' <= 1
               PROVE  OneReason'
    BY DEF OneReason
  <2>1. a # 0
    BY <1>0, FdsNat
  <2>2. ASSUME NEW id \in RetryTimers' \ {0}
        PROVE  id = a /\ connector'.state_ = "kDisconnected"
    <3>1. id \in connector'.timers
      BY <2>2 DEF RetryTimers
    <3> QED
      BY <3>1, <1>2
  <2> QED
    BY <1>0, <2>1, <2>2 DEF OneReason
<1>8. Dead' /\ Stopped' /\ Running'
  BY <1>0 DEF Dead, Stopped, Running
<1> QED
  BY <1>3, <1>4, <1>5, <1>6, <1>7, <1>8

------------------------------------------------------------------------------
(* The functors.                                                            *)

LEMMA SetCloseCallbackKeeps ==
  ASSUME ClientInv, RunSetCloseCallback
  PROVE  ClientInv'
<1>0. /\ Run("setCloseCallback")
      /\ closeCallback_' = [closeCallback_ EXCEPT ![Head(batch).arg] = "detail"]
      /\ UNCHANGED <<connector, owners, alive, connect_, retry_, connection_, conns>>
  BY DEF RunSetCloseCallback
<1>1. /\ Inner /\ Running /\ TypeOK /\ phase = "functors"
      /\ batch' \in Seq(FunctorSet(Fds))
      /\ UNCHANGED <<kernel, phase, active, due, userVars>>
      /\ \A g \in {"resetChannel", "startInLoop", "addTimer"} :
           (Waits(batch, g) <=> Waits(batch', g)) /\ (Once(batch, g) => Once(batch', g))
      /\ \A fd : Destroys(batch', fd) => Destroys(batch, fd)
      /\ Waits(batch, "setCloseCallback")
  BY <1>0, RunTakes
<1>2. TypeOK'
  BY <1>0, <1>1, ZenonT(60) DEF TypeOK, userVars
<1>3. /\ Attempt' /\ Sockets' /\ Stopped' /\ Connection' /\ Reported' /\ Iteration'
  BY <1>0, <1>1 DEF Inner, Attempt, Sockets, Stopped, Connection, CanFail, Reported,
                    Iteration, userVars
<1>4. Dead'
  BY <1>0, <1>1 DEF Inner, Dead, Idle, userVars, TypeOK
<1>5. \A g \in {"resetChannel", "startInLoop"} :
        (Queued(g)' <=> Queued(g)) /\ (QueuedOnce(g) => QueuedOnce(g)')
  BY <1>0, <1>1 DEF Queued, QueuedOnce
<1>6. Resets'
  BY <1>0, <1>1, <1>5 DEF Inner, Resets
<1>7. OneReason'
  BY <1>0, <1>1, <1>5 DEF Inner, OneReason, RetryTimers, userVars
<1>c. Callbacks'
  BY <1>0, <1>1 DEF Inner, Callbacks, Queued, userVars
<1> QED
  BY <1>0, <1>1, <1>2, <1>3, <1>4, <1>6, <1>7, <1>c, GoesOn DEF Inner, Running

(* connectionDestroyed() closes the socket of a connection that is down.    *)
LEMMA ConnectionDestroyedKeeps ==
  ASSUME ClientInv, RunConnectionDestroyed
  PROVE  ClientInv'
<1> DEFINE fd == Head(batch).arg
<1>0. /\ Run("connectionDestroyed") /\ conns' = [conns EXCEPT ![fd] = "gone"]
      /\ connector' = [connector EXCEPT !.open = @ \ {fd}]
      /\ UNCHANGED <<owners, alive, connect_, retry_, connection_, closeCallback_>>
  BY DEF RunConnectionDestroyed
<1>1. /\ Inner /\ Running /\ TypeOK /\ phase = "functors"
      /\ batch' \in Seq(FunctorSet(Fds)) /\ Head(batch) \in FunctorSet(Fds)
      /\ UNCHANGED <<kernel, phase, active, due, userVars>>
      /\ \A g \in {"resetChannel", "startInLoop", "setCloseCallback", "addTimer"} :
           (Waits(batch, g) <=> Waits(batch', g)) /\ (Once(batch, g) => Once(batch', g))
      /\ \A k : Destroys(batch', k) => Destroys(batch, k)
      /\ Destroys(batch, fd)
  BY <1>0, RunTakes
<1>2. fd \in Fds \cup {0}
  BY <1>1 DEF FunctorSet
<1> HIDE DEF fd
<1>3. fd \in Fds /\ conns[fd] \in {"down", "gone"}
  BY <1>1, <1>2 DEF Inner, Resets
<1>4. /\ connector' \in Connectors(Fds) /\ connector'.pending = connector.pending
      /\ connector'.state_ = connector.state_ /\ connector'.channel_ = connector.channel_
      /\ connector'.fd = connector.fd /\ connector'.attempts = connector.attempts
      /\ connector'.open = connector.open \ {fd} /\ connector'.timers = connector.timers
      /\ connector'.connect_ = connector.connect_ /\ connector'.fault = "none"
  BY <1>0, <1>1 DEF TypeOK, Connectors, Running
<1>5. TypeOK'
  BY <1>0, <1>1, <1>3, <1>4 DEF TypeOK, userVars
<1>6. \A k \in Fds : /\ conns'[k] = IF k = fd THEN "gone" ELSE conns[k]
                     /\ conns'[k] = "up" <=> conns[k] = "up"
                     /\ conns'[k] = "none" <=> conns[k] = "none"
                     /\ conns[k] \in {"down", "gone"} => conns'[k] \in {"down", "gone"}
  BY <1>0, <1>1, <1>3 DEF TypeOK
<1>7. Attempt'
  BY <1>0, <1>1, <1>3, <1>4, <1>6, Fields DEF Inner, Attempt, TypeOK
<1>8. Sockets'
  BY <1>0, <1>1, <1>3, <1>4, <1>6, Fields DEF Inner, Sockets, TypeOK
<1>9. Connection'
  BY <1>0, <1>1, <1>4, <1>6 DEF Inner, Connection, CanFail, TypeOK, userVars
<1>10. /\ Stopped' /\ Iteration' /\ Dead'
  BY <1>0, <1>1, <1>4, <1>6 DEF Inner, Stopped, Iteration, Dead, Idle, userVars
<1>11. Reported'
  BY <1>0, <1>1 DEF Inner, Reported, Iteration
<1>12. \A g \in {"resetChannel", "startInLoop", "setCloseCallback", "addTimer"} :
        (Queued(g)' <=> Queued(g)) /\ (QueuedOnce(g) => QueuedOnce(g)')
  BY <1>1, <1>4 DEF Queued, QueuedOnce
<1>13. Resets'
  BY <1>1, <1>4, <1>6, <1>12, FdsNat DEF Inner, Resets
<1>14. OneReason'
  BY <1>1, <1>4, <1>12 DEF Inner, OneReason, RetryTimers, userVars
<1>c. Callbacks'
  BY <1>0, <1>1, <1>12 DEF Inner, Callbacks, userVars
<1> QED
  BY <1>4, <1>5, <1>7, <1>8, <1>9, <1>10, <1>11, <1>13, <1>14, <1>c, GoesOn DEF Inner, Running

(* cancelInLoop() of a stop() on another thread.                            *)
LEMMA CancelInLoopKeeps ==
  ASSUME ClientInv, Run("cancelInLoop"), UNCHANGED <<owners, clientVars>>,
         connector' \in CancelTimer(connector, Head(batch).arg)
  PROVE  ClientInv'
<1>1. /\ Inner /\ Running /\ TypeOK /\ phase = "functors"
      /\ batch' \in Seq(FunctorSet(Fds))
      /\ UNCHANGED <<kernel, phase, active, due, userVars>>
      /\ \A g \in {"resetChannel", "startInLoop", "setCloseCallback", "addTimer"} :
           (Waits(batch, g) <=> Waits(batch', g)) /\ (Once(batch, g) => Once(batch', g))
      /\ \A fd : Destroys(batch', fd) => Destroys(batch, fd)
  BY RunTakes
<1>a. CASE connector' \in Connectors(Fds) /\ connector'.fault = "cancelInLoop"
  <2>1. TypeOK'
    BY <1>1, <1>a DEF TypeOK, clientVars, userVars
  <2> QED
    BY <1>a, <2>1, Faults
<1>b. CASE connector' = Expire(connector, Head(batch).arg)
  <2>2. /\ connector' \in Connectors(Fds) /\ connector'.pending = connector.pending
        /\ connector'.state_ = connector.state_ /\ connector'.channel_ = connector.channel_
        /\ connector'.fd = connector.fd /\ connector'.attempts = connector.attempts
        /\ connector'.open = connector.open /\ connector'.timers \subseteq connector.timers
        /\ connector'.connect_ = connector.connect_ /\ connector'.fault = "none"
    BY <1>1, <1>b, ExpireChanges DEF TypeOK, Running
  <2>3. TypeOK'
    BY <1>1, <2>2 DEF TypeOK, clientVars, userVars
  <2>4. /\ Attempt' /\ Sockets' /\ Stopped' /\ Connection' /\ Reported' /\ Iteration' /\ Dead'
    BY <1>1, <2>2 DEF Inner, Attempt, Sockets, Stopped, Connection, CanFail, Reported,
                      Iteration, Dead, Idle, clientVars, userVars
  <2>5. \A g \in {"resetChannel", "startInLoop", "setCloseCallback", "addTimer"} :
          (Queued(g)' <=> Queued(g)) /\ (QueuedOnce(g) => QueuedOnce(g)')
    BY <1>1, <2>2 DEF Queued, QueuedOnce
  <2>6. Resets'
    BY <1>1, <2>2, <2>5 DEF Inner, Resets, clientVars
  <2>7. OneReason'
    <3>1. RetryTimers' \subseteq RetryTimers
      BY <1>1, <2>2 DEF RetryTimers
    <3> QED
      BY <1>1, <2>2, <2>5, <3>1 DEF Inner, OneReason, userVars
  <2>c. Callbacks'
    BY <1>1, <2>5 DEF Inner, Callbacks, clientVars, userVars
  <2> QED
    BY <2>2, <2>3, <2>4, <2>6, <2>7, <2>c, GoesOn DEF Inner, Running
<1> QED
  <2>1. connector \in Connectors(Fds)
    BY <1>1 DEF TypeOK
  <2> QED
    BY <1>a, <1>b, <2>1, CancelChanges

(* resetChannel() finds the channel that was removed, and is the only one.  *)
LEMMA ResetChannelKeeps ==
  ASSUME ClientInv, Run("resetChannel"), UNCHANGED <<owners, clientVars>>,
         OnConnector(ResetChannel(connector))
  PROVE  ClientInv'
<1>1. /\ Inner /\ Running /\ TypeOK /\ phase = "functors"
      /\ batch' \in Seq(FunctorSet(Fds))
      /\ UNCHANGED <<kernel, phase, active, due, userVars>>
      /\ Waits(batch, "resetChannel")
      /\ Once(batch, "resetChannel") => /\ Once(batch', "resetChannel")
                                        /\ ~Waits(batch', "resetChannel")
      /\ Waits(batch, "startInLoop") <=> Waits(batch', "startInLoop")
      /\ Once(batch, "startInLoop") => Once(batch', "startInLoop")
      /\ \A fd : Destroys(batch', fd) => Destroys(batch, fd)
      /\ Waits(batch, "setCloseCallback") <=> Waits(batch', "setCloseCallback")
      /\ Waits(batch, "addTimer") <=> Waits(batch', "addTimer")
  BY RunTakes
<1>2. CASE owners = {}
  BY <1>1, <1>2, DeadCall DEF TypeOK, clientVars, userVars
<1>3. CASE owners # {}
  <2>1. connector' = [connector EXCEPT !.channel_ = "none", !.fd = 0]
    BY <1>3 DEF OnConnector, ResetChannel
  <2>2. /\ connector' \in Connectors(Fds) /\ connector'.pending = connector.pending
        /\ connector'.state_ = connector.state_ /\ connector'.channel_ = "none"
        /\ connector'.attempts = connector.attempts
        /\ connector'.open = connector.open /\ connector'.timers = connector.timers
        /\ connector'.connect_ = connector.connect_ /\ connector'.fault = "none"
    BY <1>1, <2>1 DEF TypeOK, Connectors, Running
  <2>3. TypeOK'
    BY <1>1, <2>2 DEF TypeOK, clientVars, userVars
  <2>4. connector.channel_ = "removed"
    BY <1>1 DEF Inner, Resets, Queued
  <2>5. /\ Attempt' /\ Sockets' /\ Stopped' /\ Connection' /\ Iteration' /\ Dead'
    BY <1>1, <2>2, <2>4 DEF Inner, Attempt, Sockets, Stopped, Connection, CanFail,
                      Iteration, Dead, Idle, clientVars, userVars
  <2>6. Reported'
    BY <1>1 DEF Inner, Reported, Iteration
  <2>7. Resets'
    BY <1>1, <2>2 DEF Inner, Resets, Queued, QueuedOnce, clientVars
  <2>8. OneReason'
    BY <1>1, <2>2 DEF Inner, OneReason, Queued, QueuedOnce, RetryTimers, userVars
  <2>c. Callbacks'
    BY <1>1, <2>2 DEF Inner, Callbacks, Queued, clientVars, userVars
  <2> QED
    BY <2>2, <2>3, <2>5, <2>6, <2>7, <2>8, <2>c, GoesOn DEF Inner, Running
<1> QED
  BY <1>2, <1>3

(* startInLoop() of a connect() on another thread.                          *)
LEMMA StartInLoopKeeps ==
  ASSUME ClientInv, Run("startInLoop"), UNCHANGED <<owners, clientVars>>,
         NEW r \in ResultsOf(connector.attempts + 1),
         OnConnector(StartInLoop(connector, r))
  PROVE  ClientInv'
<1>1. /\ Inner /\ Running /\ TypeOK /\ phase = "functors"
      /\ batch' \in Seq(FunctorSet(Fds))
      /\ UNCHANGED <<kernel, phase, active, due, userVars>>
      /\ Waits(batch, "startInLoop")
      /\ Once(batch, "startInLoop") => /\ Once(batch', "startInLoop")
                                       /\ ~Waits(batch', "startInLoop")
      /\ Waits(batch, "resetChannel") <=> Waits(batch', "resetChannel")
      /\ Once(batch, "resetChannel") => Once(batch', "resetChannel")
      /\ \A fd : Destroys(batch', fd) => Destroys(batch, fd)
      /\ Waits(batch, "setCloseCallback") <=> Waits(batch', "setCloseCallback")
      /\ Waits(batch, "addTimer") <=> Waits(batch', "addTimer")
      /\ Waits(batch', "startInLoop") => Waits(batch, "startInLoop")
  BY RunTakes
<1>2. CASE owners = {}
  BY <1>1, <1>2, DeadCall DEF TypeOK, clientVars, userVars
<1>3. CASE owners # {}
  <2>1. connector' = StartInLoop(connector, r)
    BY <1>3 DEF OnConnector
  <2>2. /\ connector \in Connectors(Fds) /\ connector.fault = "none"
        /\ connector.attempts = MaxAttempts => connector.state_ # "kDisconnected"
    BY <1>1 DEF TypeOK, Running, Inner, Attempt
  <2>3. /\ connector' \in Connectors(Fds)
        /\ \/ connector'.fault = "startInLoop" /\ connector.state_ # "kDisconnected"
           \/ connector'.fault = "connecting" /\ connector.channel_ # "none"
           \/ connector' = connector /\ ~connector.connect_
           \/ Attempted(connector, connector')
    BY <2>1, <2>2, StartOutcomes, Zenon
  <2>4. TypeOK'
    BY <1>1, <2>3 DEF TypeOK, clientVars, userVars
  <2>5. connects <= 1 => /\ connects = 1 /\ connector.attempts = 0
                         /\ connector.state_ = "kDisconnected"
                         /\ connector.channel_ = "none" /\ RetryTimers \subseteq {0}
                         /\ ~Waits(connector.pending, "startInLoop")
                         /\ Once(connector.pending, "startInLoop")
                         /\ Once(batch, "startInLoop")
    <3>1. connects \in Nat
      BY <1>1, BoundsAssumption DEF TypeOK
    <3> SUFFICES ASSUME connects <= 1 PROVE
                         /\ connects = 1 /\ connector.attempts = 0
                         /\ connector.state_ = "kDisconnected"
                         /\ connector.channel_ = "none" /\ RetryTimers \subseteq {0}
                         /\ ~Waits(connector.pending, "startInLoop")
                         /\ Once(connector.pending, "startInLoop")
                         /\ Once(batch, "startInLoop")
      OBVIOUS
    <3>2. /\ connector.attempts = 0 /\ connector.state_ = "kDisconnected"
          /\ connector.channel_ = "none" /\ RetryTimers \subseteq {0} /\ connects # 0
          /\ ~Waits(connector.pending, "startInLoop")
          /\ Once(connector.pending, "startInLoop") /\ Once(batch, "startInLoop")
      BY <1>1 DEF Inner, OneReason, Queued, QueuedOnce
    <3> QED
      BY <3>1, <3>2
  <2>6. CASE connector'.fault = "startInLoop" /\ connector.state_ # "kDisconnected"
    BY <2>4, <2>5, <2>6, <1>1, Faults DEF userVars
  <2>7. CASE connector'.fault = "connecting" /\ connector.channel_ # "none"
    BY <2>4, <2>5, <2>7, <1>1, Faults DEF userVars
  <2>8. CASE connector' = connector
    <3>1. /\ Attempt' /\ Sockets' /\ Stopped' /\ Connection' /\ Iteration' /\ Dead' /\ Reported'
      BY <1>1, <2>8 DEF Inner, Attempt, Sockets, Stopped, Connection, CanFail,
                      Iteration, Dead, Idle, Reported, clientVars, userVars
    <3>2. Resets'
      BY <1>1, <2>8 DEF Inner, Resets, Queued, QueuedOnce, clientVars
    <3>3. OneReason'
      BY <1>1, <2>8 DEF Inner, OneReason, Queued, QueuedOnce, RetryTimers, userVars
    <3>4. Callbacks'
      BY <1>1, <2>8 DEF Inner, Callbacks, Queued, clientVars, userVars
    <3> QED
      BY <1>1, <2>8, <2>4, <3>1, <3>2, <3>3, <3>4, GoesOn DEF Inner, Running
  <2>9. CASE Attempted(connector, connector')
    <3>0. /\ connector.state_ = "kDisconnected" /\ connector.connect_
          /\ connector'.pending = connector.pending
      BY <2>9 DEF Attempted
    <3>1. /\ connector.channel_ # "on" /\ \A fd \in Fds : conns[fd] # "up"
          /\ active = {} /\ due = {}
      BY <1>1, <3>0 DEF Inner, Attempt, Connection, Iteration
    <3>2. dtor' # "loop" /\ ~idle' /\ stopped' # "loop"
      BY <1>1, <1>3, <3>0 DEF Inner, Dead, Stopped, Idle, userVars
    <3>3. connects' <= 1 =>
            /\ connects' = 1 /\ ~Queued("startInLoop")' /\ QueuedOnce("startInLoop")'
            /\ connector.timers = {}
      <4> SUFFICES ASSUME connects <= 1
                   PROVE  /\ connects = 1 /\ connector.timers = {}
                          /\ ~Queued("startInLoop")' /\ QueuedOnce("startInLoop")'
        BY <1>1 DEF userVars
      <4>1. connector.timers = {}
        BY <2>5, Fields, <2>2, FdsNat DEF RetryTimers
      <4> QED
        BY <4>1, <1>1, <2>5, <3>0 DEF Queued, QueuedOnce
    <3>4. /\ Attempt' /\ Sockets' /\ Connection' /\ Reported' /\ OneReason'
          /\ Dead' /\ Stopped' /\ Running'
      BY <1>1, <2>2, <2>4, <2>9, <3>1, <3>2, <3>3, AttemptKeeps
         DEF Inner, clientVars, userVars
    <3>5. Iteration'
      BY <1>1, <3>1 DEF Inner, Iteration
    <3>6. Resets'
      <4>1. connector'.channel_ = connector.channel_
              \/ (connector.channel_ = "none" /\ connector'.channel_ = "on")
        BY <2>9 DEF Attempted, Begun, Postponed, Ended
      <4> QED
        BY <1>1, <3>0, <4>1 DEF Inner, Resets, Queued, QueuedOnce, clientVars
    <3>7. Callbacks'
      BY <1>1, <3>0 DEF Inner, Callbacks, Queued, clientVars, userVars
    <3> QED
      BY <2>4, <3>4, <3>5, <3>6, <3>7, GoesOn DEF Inner
  <2> QED
    BY <2>3, <2>6, <2>7, <2>8, <2>9
<1> QED
  BY <1>2, <1>3

------------------------------------------------------------------------------
(* The events.                                                              *)

LEMMA TakeGives ==
  ASSUME ClientInv, NEW e, Take(e)
  PROVE  /\ Inner /\ Running /\ TypeOK /\ phase = "events"
         /\ e \in active /\ active' = active \ {e}
         /\ batch = <<>> /\ due = {}
         /\ UNCHANGED <<kernel, batch, due, userVars>>
         /\ connector \in Connectors(Fds) /\ connector.fault = "none"
  BY DEF ClientInv, Inner, Take, Iteration, TypeOK, Running

(* A step of the events that at most takes a timer.                         *)
LEMMA QuietEvent ==
  ASSUME ClientInv, Inner, Running, phase = "events", active' \subseteq active,
         UNCHANGED <<clientVars, kernel, phase, batch, due, userVars>>,
         owners' = owners \/ owners' = owners \ {"timer"},
         connector' \in Connectors(Fds), connector'.pending = connector.pending,
         connector'.state_ = connector.state_, connector'.channel_ = connector.channel_,
         connector'.fd = connector.fd, connector'.attempts = connector.attempts,
         connector'.open = connector.open, connector'.timers \subseteq connector.timers,
         connector'.connect_ = connector.connect_, connector'.fault = "none"
  PROVE  ClientInv'
<1>1. TypeOK'
  <2>1. TypeOK
    BY DEF ClientInv
  <2>2. /\ owners' \subseteq {"client", "functor", "timer"}
        /\ active' \subseteq [on : {"timer", "ERR", "OUT", "close"}, arg : Fds \cup {0}]
    BY <2>1 DEF TypeOK
  <2> QED
    BY <2>1, <2>2, ZenonT(60) DEF TypeOK, clientVars, userVars
<1>2. /\ Attempt' /\ Sockets' /\ Stopped' /\ Connection' /\ Iteration' /\ Dead' /\ Reported'
  BY DEF Inner, Attempt, Sockets, Stopped, Connection, CanFail,
         Iteration, Dead, Idle, Reported, clientVars, userVars
<1>3. Resets'
  BY DEF Inner, Resets, Queued, QueuedOnce, clientVars
<1>4. OneReason'
  <2>1. RetryTimers' \subseteq RetryTimers
    BY DEF RetryTimers
  <2> QED
    BY <2>1 DEF Inner, OneReason, Queued, QueuedOnce, userVars
<1>5. Callbacks'
  BY DEF Inner, Callbacks, Queued, clientVars, userVars
<1> QED
  BY <1>1, <1>2, <1>3, <1>4, <1>5, GoesOn DEF Inner, Running

(* A retry timer makes the next attempt: with one connect() it finds the    *)
(* connector disconnected and without a channel.                            *)
LEMMA RetryTimerKeeps ==
  ASSUME ClientInv, RetryTimer
  PROVE  ClientInv'
<1>0. PICK id \in Fds :
        /\ Take(Event("timer", id))
        /\ \/ \E r \in ResultsOf(connector.attempts + 1) :
                OnConnector(StartInLoop(Expire(connector, id), r))
           \/ UNCHANGED connector
  BY DEF RetryTimer
<1> DEFINE ev == Event("timer", id)
<1>1. /\ Inner /\ Running /\ TypeOK /\ phase = "events"
      /\ ev \in active /\ active' = active \ {ev}
      /\ batch = <<>> /\ due = {}
      /\ UNCHANGED <<kernel, batch, due, userVars>>
      /\ connector \in Connectors(Fds) /\ connector.fault = "none"
      /\ UNCHANGED <<phase, owners, clientVars>>
  BY <1>0, TakeGives DEF RetryTimer
<1>e. ev.on = "timer" /\ ev.arg = id
  BY DEF Event
<1>2. CASE UNCHANGED connector
  BY <1>1, <1>2, QuietEvent
<1>3. ASSUME NEW r \in ResultsOf(connector.attempts + 1),
             OnConnector(StartInLoop(Expire(connector, id), r))
      PROVE  ClientInv'
  <2>1. CASE owners = {}
    BY <1>1, <1>3, <2>1, DeadCall DEF TypeOK, clientVars, userVars
  <2>2. CASE owners # {}
    <3>1. PICK x : x = Expire(connector, id)
      OBVIOUS
    <3>2. /\ x \in Connectors(Fds) /\ x.state_ = connector.state_
          /\ x.channel_ = connector.channel_ /\ x.fd = connector.fd
          /\ x.attempts = connector.attempts /\ x.open = connector.open
          /\ x.pending = connector.pending /\ x.connect_ = connector.connect_
          /\ x.fault = "none" /\ x.timers = connector.timers \ {id}
      BY <1>1, <3>1, ExpireChanges
    <3>3. /\ connector' \in Connectors(Fds)
          /\ \/ connector'.fault = "startInLoop" /\ x.state_ # "kDisconnected"
             \/ connector'.fault = "connecting" /\ x.channel_ # "none"
             \/ connector' = x
             \/ Attempted(x, connector')
      <4>1. connector' = StartInLoop(x, r) /\ r \in ResultsOf(x.attempts + 1)
        BY <1>3, <2>2, <3>1, <3>2 DEF OnConnector
      <4>2. x.attempts = MaxAttempts => x.state_ # "kDisconnected"
        BY <1>1, <3>2 DEF Inner, Attempt
      <4> QED
        BY <4>1, <4>2, <3>2, StartOutcomes, Zenon
    <3>4. TypeOK'
      BY <1>1, <3>3 DEF TypeOK, clientVars, userVars
    <3>5. connects <= 1 =>
            /\ connects = 1 /\ id = connector.attempts
            /\ connector.state_ = "kDisconnected" /\ connector.channel_ = "none"
            /\ ~Queued("startInLoop") /\ QueuedOnce("startInLoop")
            /\ x.timers = {}
            /\ \A e \in active' : e.on = "timer" => e.arg = 0
      <4> SUFFICES ASSUME connects <= 1
                   PROVE  /\ connects = 1 /\ id = connector.attempts
                          /\ connector.state_ = "kDisconnected" /\ connector.channel_ = "none"
                          /\ ~Queued("startInLoop") /\ QueuedOnce("startInLoop")
                          /\ x.timers = {}
                          /\ \A e \in active' : e.on = "timer" => e.arg = 0
        OBVIOUS
      <4>0. id # 0 /\ \A k \in RetryTimers \ {0} : /\ k = connector.attempts
                                                   /\ connector.state_ = "kDisconnected"
        BY <1>1, FdsNat DEF Inner, OneReason
      <4>1. id = connector.attempts /\ connector.state_ = "kDisconnected"
        BY <4>0, <1>1, <1>e DEF RetryTimers
      <4>2. connector.channel_ = "none" /\ ~Queued("startInLoop") /\ QueuedOnce("startInLoop")
        BY <4>0, <4>1, <1>1, <1>e DEF Inner, OneReason
      <4>3. connects = 1
        <5>1. connects \in Nat
          BY <1>1, BoundsAssumption DEF TypeOK
        <5>2. connects # 0
          BY <4>0, <4>1, <1>1 DEF Inner, OneReason
        <5> QED
          BY <5>1, <5>2
      <4>4. x.timers = {}
        BY <4>0, <4>1, <3>2, <1>1, Fields, FdsNat DEF RetryTimers
      <4>5. ASSUME NEW e \in active', e.on = "timer" PROVE e.arg = 0
        <5>1. e \in active /\ e # ev /\ e \in [on : {"timer", "ERR", "OUT", "close"}, arg : Fds \cup {0}]
          BY <1>1, <4>5 DEF TypeOK
        <5>a. e = [on |-> e.on, arg |-> e.arg]
          BY <5>1
        <5>2. e.arg # id
          BY <5>1, <5>a, <4>5 DEF Event
        <5>3. e.arg \in RetryTimers
          BY <5>1, <4>5 DEF RetryTimers
        <5> QED
          BY <5>2, <5>3, <4>0, <4>1
      <4> QED
        BY <4>1, <4>2, <4>3, <4>4, <4>5
    <3>6. CASE connector'.fault = "startInLoop" /\ x.state_ # "kDisconnected"
      BY <3>2, <3>4, <3>5, <3>6, <1>1, Faults DEF userVars
    <3>7. CASE connector'.fault = "connecting" /\ x.channel_ # "none"
      BY <3>2, <3>4, <3>5, <3>7, <1>1, Faults DEF userVars
    <3>8. CASE connector' = x
      BY <1>1, <3>2, <3>8, QuietEvent
    <3>9. CASE Attempted(x, connector')
      <4>0. /\ connector.state_ = "kDisconnected" /\ connector.connect_
            /\ connector'.pending = connector.pending
        BY <3>2, <3>9 DEF Attempted
      <4>1. /\ connector.channel_ # "on" /\ \A fd \in Fds : conns[fd] # "up"
        BY <1>1, <4>0 DEF Inner, Attempt, Connection
      <4>a. \A e \in active : e.on # "close"
        <5> SUFFICES ASSUME NEW e \in active, e.on = "close" PROVE FALSE
          OBVIOUS
        <5>1. conns[e.arg] = "up" /\ e.arg \in Fds
          BY <1>1 DEF Inner, Reported, TypeOK
        <5> QED
          BY <5>1, <4>1
      <4>2. dtor' # "loop" /\ ~idle' /\ stopped' # "loop"
        BY <1>1, <2>2, <4>0 DEF Inner, Dead, Stopped, Idle, userVars
      <4>3. /\ Queued("startInLoop")' <=> Queued("startInLoop")
            /\ QueuedOnce("startInLoop")' <=> QueuedOnce("startInLoop")
        BY <1>1, <4>0 DEF Queued, QueuedOnce
      <4>4. /\ Attempt' /\ Sockets' /\ Connection' /\ Reported' /\ OneReason'
            /\ Dead' /\ Stopped' /\ Running'
        BY <1>1, <3>2, <3>4, <3>5, <3>9, <4>1, <4>a, <4>2, <4>3, AttemptKeeps
           DEF Inner, clientVars, userVars
      <4>5. Iteration'
        BY <1>1 DEF Inner, Iteration
      <4>6. Resets'
        <5>1. connector'.channel_ = connector.channel_
                \/ (connector.channel_ = "none" /\ connector'.channel_ = "on")
          BY <3>2, <3>9 DEF Attempted, Begun, Postponed, Ended
        <5> QED
          BY <1>1, <4>0, <5>1 DEF Inner, Resets, Queued, QueuedOnce, clientVars
      <4>7. Callbacks'
        BY <1>1, <4>0 DEF Inner, Callbacks, Queued, clientVars, userVars
      <4> QED
        BY <3>4, <4>4, <4>5, <4>6, <4>7, GoesOn DEF Inner
    <3> QED
      BY <3>3, <3>6, <3>7, <3>8, <3>9
  <2> QED
    BY <2>1, <2>2
<1> QED
  BY <1>0, <1>2, <1>3

(* What retry() does to the connector.                                      *)
LEMMA RetryChanges ==
  ASSUME NEW x \in Connectors(Fds), NEW fd \in Fds
  PROVE  /\ Retry(x, fd) \in Connectors(Fds)
         /\ Retry(x, fd).state_ = "kDisconnected" /\ Retry(x, fd).open = x.open \ {fd}
         /\ Retry(x, fd).timers \subseteq x.timers \cup {fd}
         /\ Retry(x, fd).channel_ = x.channel_ /\ Retry(x, fd).attempts = x.attempts
         /\ Retry(x, fd).pending = x.pending /\ Retry(x, fd).connect_ = x.connect_
         /\ Retry(x, fd).fault = x.fault /\ Retry(x, fd).timerId_ \in {x.timerId_, fd}
         /\ ~x.connect_ => Retry(x, fd).timers = x.timers
<1> DEFINE S == x.open \ {fd}
<1>0. S \in SUBSET Fds
  BY Fields
<1> HIDE DEF S
<1>1. PICK y : y = [x EXCEPT !.open = S, !.state_ = "kDisconnected"]
  OBVIOUS
<1>2. /\ y \in Connectors(Fds) /\ y.state_ = "kDisconnected" /\ y.open = S
      /\ y.timers = x.timers /\ y.channel_ = x.channel_ /\ y.attempts = x.attempts
      /\ y.pending = x.pending /\ y.connect_ = x.connect_ /\ y.fault = x.fault
      /\ y.retryDelay_ = x.retryDelay_ /\ y.timerId_ = x.timerId_
  BY <1>0, <1>1 DEF Connectors
<1>3. CASE ~x.connect_
  <2>1. Retry(x, fd) = y
    BY <1>1, <1>3 DEF Retry, S
  <2> QED
    BY <1>2, <2>1 DEF S
<1>4. CASE x.connect_
  <2>1. PICK d : d = Min({2 * x.retryDelay_, kMaxRetryDelay})
    OBVIOUS
  <2>2. d \in kInitRetryDelay..kMaxRetryDelay
    BY <2>1, Fields, DelayBound
  <2>a. y = [x EXCEPT !.open = @ \ {fd}, !.state_ = "kDisconnected"]
    BY <1>1 DEF S
  <2>3. Retry(x, fd) = [y EXCEPT !.timers = @ \cup {fd}, !.timerId_ = fd, !.retryDelay_ = d]
    <3>1. Retry(x, fd) = [y EXCEPT !.timers = @ \cup {fd}, !.timerId_ = fd,
                                   !.retryDelay_ = Min({2 * @, kMaxRetryDelay})]
      BY <1>4, <2>a DEF Retry
    <3> QED
      BY <3>1, <2>1, <1>2
  <2>4. PICK z : z = [y EXCEPT !.timers = @ \cup {fd}, !.timerId_ = fd, !.retryDelay_ = d]
    OBVIOUS
  <2>5. z \in Connectors(Fds)
    BY <1>2, <2>2, <2>4, TimerSet
  <2>6. /\ z.state_ = y.state_ /\ z.open = y.open /\ z.timers = y.timers \cup {fd}
        /\ z.channel_ = y.channel_ /\ z.attempts = y.attempts
        /\ z.pending = y.pending /\ z.connect_ = y.connect_ /\ z.fault = y.fault
        /\ z.timerId_ = fd
    BY <1>2, <2>4 DEF Connectors
  <2> QED
    BY <2>3, <2>4, <2>5, <2>6, <1>2, <1>4 DEF S
<1> QED
  BY <1>3, <1>4, Fields

(* removeAndResetChannel() queues the reset.                                *)
LEMMA RemoveChanges ==
  ASSUME NEW x \in Connectors(Fds), NEW y, y = RemoveAndResetChannel(x)
  PROVE  /\ y \in Connectors(Fds) /\ y.channel_ = "removed"
         /\ y.state_ = x.state_ /\ y.fd = x.fd
         /\ y.attempts = x.attempts /\ y.open = x.open /\ y.timers = x.timers
         /\ y.connect_ = x.connect_ /\ y.fault = x.fault /\ y.timerId_ = x.timerId_
         /\ \A g : /\ Waits(y.pending, g) <=> g = "resetChannel" \/ Waits(x.pending, g)
                   /\ Once(x.pending, g) /\ (g = "resetChannel" => ~Waits(x.pending, g))
                        => Once(y.pending, g)
         /\ \A fd : Destroys(y.pending, fd) <=> Destroys(x.pending, fd)
<1>1. PICK z : z = [x EXCEPT !.channel_ = "removed"]
  OBVIOUS
<1>2. /\ z \in Connectors(Fds) /\ z.channel_ = "removed" /\ z.state_ = x.state_
      /\ z.fd = x.fd /\ z.attempts = x.attempts /\ z.open = x.open /\ z.timers = x.timers
      /\ z.connect_ = x.connect_ /\ z.fault = x.fault /\ z.pending = x.pending
      /\ z.timerId_ = x.timerId_
  BY <1>1 DEF Connectors
<1>3. y = QueueInLoop(z, "resetChannel", 0)
  BY <1>1 DEF RemoveAndResetChannel
<1>4. Functor("resetChannel", 0) \in FunctorSet(Fds)
  BY DEF Functor, FunctorSet
<1>5. /\ y \in Connectors(Fds) /\ SameButPending(z, y)
      /\ \A g : /\ Waits(y.pending, g) <=> g = "resetChannel" \/ Waits(z.pending, g)
                /\ Once(z.pending, g) /\ (g = "resetChannel" => ~Waits(z.pending, g))
                     => Once(y.pending, g)
      /\ \A fd : Destroys(y.pending, fd) <=> Destroys(z.pending, fd)
  BY <1>2, <1>3, <1>4, QueueChanges
<1> QED
  BY <1>2, <1>5 DEF SameButPending

(* The channel of an attempt is reported: the event is the connector's only *)
(* one, and no other reason for an attempt is left.                         *)
LEMMA AttemptReported ==
  ASSUME ClientInv, NEW id \in Fds, NEW on \in {"OUT", "ERR"}, Take(Event(on, id))
  PROVE  /\ id = connector.fd /\ id = connector.attempts
         /\ connector.channel_ = "on" /\ connector.state_ = "kConnecting"
         /\ id \in connector.open /\ conns[id] = "none"
         /\ \A fd \in Fds : conns[fd] # "up"
         /\ \A e \in active' : e.on = "timer"
         /\ ~Queued("resetChannel") /\ QueuedOnce("resetChannel")
         /\ connects <= 1 => /\ connects # 0 /\ RetryTimers \subseteq {0}
                             /\ ~Queued("startInLoop") /\ QueuedOnce("startInLoop")
         /\ on = "ERR" => CanFail(id)
<1>1. /\ Inner /\ TypeOK /\ Event(on, id) \in active /\ active' = active \ {Event(on, id)}
      /\ Event(on, id).on = on /\ Event(on, id).arg = id
  BY TakeGives DEF Event
<1>2. /\ connector.channel_ = "on" /\ id = connector.fd
      /\ \A f \in active : f.on \in {"OUT", "ERR"} => f = Event(on, id)
      /\ on = "ERR" => CanFail(id)
      /\ \A e \in active : e.on # "close"
  BY <1>1 DEF Inner, Reported
<1>3. /\ connector.state_ = "kConnecting" /\ id = connector.attempts
      /\ id \in connector.open /\ conns[id] = "none"
  BY <1>1, <1>2 DEF Inner, Attempt
<1>4. \A fd \in Fds : conns[fd] # "up"
  BY <1>1, <1>3 DEF Inner, Connection
<1>5. \A e \in active' : e.on = "timer"
  BY <1>1, <1>2 DEF TypeOK
<1>6. ~Queued("resetChannel") /\ QueuedOnce("resetChannel")
  BY <1>1, <1>2 DEF Inner, Resets
<1>7. connects <= 1 => /\ connects # 0 /\ RetryTimers \subseteq {0}
                       /\ ~Queued("startInLoop") /\ QueuedOnce("startInLoop")
  BY <1>1, <1>3, FdsNat DEF Inner, OneReason
<1> QED
  BY <1>2, <1>3, <1>4, <1>5, <1>6, <1>7

(* What the end of an attempt leaves, however it ended.                     *)
LEMMA AttemptEnds ==
  ASSUME ClientInv, NEW id \in Fds, NEW on \in {"OUT", "ERR"}, Take(Event(on, id)),
         NEW y, y = RemoveAndResetChannel(connector),
         connector' \in Connectors(Fds), connector'.pending = y.pending,
         connector'.channel_ = "removed", connector'.attempts = connector.attempts,
         connector'.connect_ = connector.connect_, connector'.fault = "none",
         connector'.state_ = "kDisconnected" \/ connector'.timers = connector.timers,
         connector'.timers \subseteq connector.timers \cup {id},
         UNCHANGED <<phase, owners, alive, connect_>>,
         \A fd \in Fds : conns[fd] \in {"down", "gone"} => conns'[fd] = conns[fd],
         \A fd \in Fds : closeCallback_'[fd] \in {closeCallback_[fd], "client"},
         alive \/ conns' = conns
  PROVE  /\ Iteration' /\ Reported' /\ Resets' /\ OneReason' /\ Dead' /\ Callbacks'
         /\ Stopped' /\ Running'
<1>1. /\ Inner /\ Running /\ TypeOK /\ phase = "events" /\ batch = <<>> /\ due = {}
      /\ active' \subseteq active
      /\ UNCHANGED <<kernel, batch, due, userVars>> /\ connector \in Connectors(Fds)
  BY TakeGives
<1>2. /\ id = connector.attempts /\ connector.channel_ = "on"
      /\ \A fd \in Fds : conns[fd] # "up"
      /\ \A e \in active' : e.on = "timer"
      /\ ~Queued("resetChannel") /\ QueuedOnce("resetChannel")
      /\ connects <= 1 => /\ connects # 0 /\ RetryTimers \subseteq {0}
                          /\ ~Queued("startInLoop") /\ QueuedOnce("startInLoop")
  BY AttemptReported
<1>3. /\ \A g : /\ Waits(connector'.pending, g) <=>
                     g = "resetChannel" \/ Waits(connector.pending, g)
                /\ Once(connector.pending, g)
                     /\ (g = "resetChannel" => ~Waits(connector.pending, g))
                     => Once(connector'.pending, g)
      /\ \A fd : Destroys(connector'.pending, fd) <=> Destroys(connector.pending, fd)
  BY <1>1, RemoveChanges
<1>4. Iteration' /\ Reported' /\ Running'
  BY <1>1, <1>2 DEF Inner, Iteration, Reported, Running
<1>5. Resets'
  <2>1. Queued("resetChannel")' /\ QueuedOnce("resetChannel")'
    BY <1>1, <1>2, <1>3, EmptyWaits DEF Queued, QueuedOnce
  <2>2. \A fd \in Fds \cup {0} : (Destroys(batch', fd) \/ Destroys(connector'.pending, fd))
          => (Destroys(batch, fd) \/ Destroys(connector.pending, fd))
    BY <1>1, <1>3
  <2>3. \A fd \in Fds \cup {0} : (Destroys(batch', fd) \/ Destroys(connector'.pending, fd))
          => fd # 0 /\ conns'[fd] \in {"down", "gone"}
    <3> SUFFICES ASSUME NEW fd \in Fds \cup {0},
                        Destroys(batch', fd) \/ Destroys(connector'.pending, fd)
                 PROVE  fd # 0 /\ conns'[fd] \in {"down", "gone"}
      OBVIOUS
    <3>1. fd # 0 /\ conns[fd] \in {"down", "gone"}
      BY <1>1, <2>2 DEF Inner, Resets
    <3> QED
      BY <3>1
  <2> QED
    BY <1>1, <2>1, <2>3 DEF Resets
<1>6. OneReason'
  <2> SUFFICES ASSUME connects <= 1 PROVE OneReason'
    BY <1>1 DEF OneReason, userVars
  <2>1. ~Queued("startInLoop")' /\ QueuedOnce("startInLoop")'
    BY <1>1, <1>2, <1>3 DEF Queued, QueuedOnce
  <2>2. /\ connector.timers \subseteq {0} /\ \A e \in active' : e.arg = 0
    BY <1>1, <1>2 DEF RetryTimers
  <2>3. ASSUME NEW k \in RetryTimers' \ {0}
        PROVE  k = connector'.attempts /\ connector'.state_ = "kDisconnected"
    <3>1. k \in connector'.timers
      BY <1>1, <2>2, <2>3 DEF RetryTimers
    <3> QED
      BY <1>2, <2>2, <2>3, <3>1
  <2> QED
    BY <1>1, <1>2, <2>1, <2>2, <2>3, FdsNat DEF OneReason, userVars
<1>7. Dead'
  BY <1>1, <1>2 DEF Inner, Dead, Idle, userVars
<1>8. Callbacks'
  BY <1>1, <1>3 DEF Inner, Callbacks, Queued, userVars
<1>9. Stopped'
  BY <1>1 DEF Inner, Stopped, userVars
<1> QED
  BY <1>4, <1>5, <1>6, <1>7, <1>8, <1>9

(* An attempt that failed: its socket is closed and a timer may be set.     *)
LEMMA FailedKeeps ==
  ASSUME ClientInv, NEW id \in Fds, NEW on \in {"OUT", "ERR"}, Take(Event(on, id)),
         connector' = Retry(RemoveAndResetChannel(connector), id), CanFail(id),
         UNCHANGED <<phase, owners, clientVars>>
  PROVE  ClientInv'
<1>1. /\ Inner /\ TypeOK /\ phase = "events" /\ connector \in Connectors(Fds)
      /\ connector.fault = "none" /\ active' \subseteq active
      /\ UNCHANGED <<kernel, batch, due, userVars>>
  BY TakeGives
<1>2. PICK y : y = RemoveAndResetChannel(connector)
  OBVIOUS
<1>3. /\ y \in Connectors(Fds) /\ y.channel_ = "removed"
      /\ y.attempts = connector.attempts /\ y.open = connector.open
      /\ y.timers = connector.timers /\ y.connect_ = connector.connect_ /\ y.fault = "none"
  BY <1>1, <1>2, RemoveChanges
<1>4. /\ connector' \in Connectors(Fds) /\ connector'.state_ = "kDisconnected"
      /\ connector'.open = connector.open \ {id}
      /\ connector'.timers \subseteq connector.timers \cup {id}
      /\ connector'.channel_ = "removed" /\ connector'.attempts = connector.attempts
      /\ connector'.pending = y.pending /\ connector'.connect_ = connector.connect_
      /\ connector'.fault = "none"
  BY <1>2, <1>3, RetryChanges
<1>5. /\ id = connector.fd /\ id = connector.attempts /\ connector.channel_ = "on"
      /\ \A fd \in Fds : conns[fd] # "up"
  BY AttemptReported
<1>6. /\ Iteration' /\ Reported' /\ Resets' /\ OneReason' /\ Dead' /\ Callbacks'
      /\ Stopped' /\ Running'
  BY <1>2, <1>4, AttemptEnds DEF clientVars
<1>7. TypeOK'
  BY <1>1, <1>4 DEF TypeOK, clientVars, userVars
<1>8. Attempt'
  <2>1. connector'.attempts # MaxAttempts
    BY <1>4, <1>5, BoundsAssumption DEF CanFail
  <2> QED
    BY <1>1, <1>4, <2>1 DEF Inner, Attempt, clientVars
<1>9. Sockets'
  BY <1>1, <1>4, <1>5 DEF Inner, Sockets, clientVars
<1>10. Connection'
  BY <1>1, <1>4, <1>5 DEF Inner, Connection, CanFail, clientVars, userVars
<1> QED
  BY <1>6, <1>7, <1>8, <1>9, <1>10, GoesOn DEF Inner

LEMMA ConnectorErrorKeeps ==
  ASSUME ClientInv, ConnectorError
  PROVE  ClientInv'
<1>0. PICK id \in Fds : Take(Event("ERR", id))
  BY DEF ConnectorError
<1>1. /\ Inner /\ TypeOK /\ connector \in Connectors(Fds) /\ connector.fault = "none"
      /\ active' \subseteq active /\ UNCHANGED <<kernel, batch, due, userVars>>
      /\ UNCHANGED <<phase, owners, clientVars>>
  BY <1>0, TakeGives DEF ConnectorError
<1>2. id = connector.fd /\ connector.state_ = "kConnecting" /\ CanFail(id)
  BY <1>0, AttemptReported
<1>3. PICK y : y = HandleError(connector)
  OBVIOUS
<1>4. y = Retry(RemoveAndResetChannel(connector), id)
  BY <1>2, <1>3 DEF HandleError
<1>5. y.fault = "none" /\ y.state_ = "kDisconnected"
  BY <1>1, <1>4, RemoveChanges, RetryChanges
<1>6. HandleWrite(y, "failed") = y
  BY <1>5 DEF HandleWrite
<1>7. OnConnector(y)
  BY <1>3, <1>5, <1>6 DEF ConnectorError
<1>8. CASE owners = {}
  BY <1>1, <1>7, <1>8, DeadCall DEF TypeOK, clientVars, userVars
<1>9. CASE owners # {}
  <2>1. connector' = y
    BY <1>7, <1>9 DEF OnConnector
  <2> QED
    BY <1>0, <1>1, <1>2, <1>4, <2>1, FailedKeeps
<1> QED
  BY <1>8, <1>9

(* An attempt that succeeded: its socket gets a connection or is closed.    *)
LEMMA ConnectorWritableKeeps ==
  ASSUME ClientInv, ConnectorWritable
  PROVE  ClientInv'
<1>0. PICK id \in Fds : Take(Event("OUT", id))
  BY DEF ConnectorWritable
<1>1. /\ Inner /\ TypeOK /\ connector \in Connectors(Fds) /\ connector.fault = "none"
      /\ active' \subseteq active /\ UNCHANGED <<kernel, batch, due, userVars>>
      /\ UNCHANGED <<phase, owners>> /\ phase = "events"
  BY <1>0, TakeGives DEF ConnectorWritable
<1>2. /\ id = connector.fd /\ id = connector.attempts /\ connector.state_ = "kConnecting"
      /\ id \in connector.open /\ conns[id] = "none" /\ \A fd \in Fds : conns[fd] # "up"
  BY <1>0, AttemptReported
<1>3. PICK after : after = HandleWrite(connector, kernel[id])
  OBVIOUS
<1>4. /\ after.state_ = "kConnected" /\ id \in after.open =>
           \/ alive /\ OnConnector(after) /\ NewConnection(id)
           \/ ~alive /\ OnConnector(Fail(after, "use of a dead client")) /\ UNCHANGED clientVars
      /\ ~(after.state_ = "kConnected" /\ id \in after.open) =>
           OnConnector(after) /\ UNCHANGED clientVars
  BY <1>2, <1>3 DEF ConnectorWritable
<1>5. CASE owners = {}
  <2>1. PICK x : OnConnector(x)
    BY <1>4
  <2>2. \/ UNCHANGED clientVars
        \/ NewConnection(id)
    BY <1>4
  <2>3. TypeOK /\ connector' \in Connectors(Fds) => TypeOK'
    BY <1>1, <2>2 DEF TypeOK, NewConnection, clientVars, userVars
  <2> QED
    BY <1>5, <2>1, <2>3, DeadCall
<1>6. CASE owners # {} /\ kernel[id] \in {"failed", "self"}
  <2>1. after = Retry(RemoveAndResetChannel(connector), id)
    BY <1>2, <1>3, <1>6 DEF HandleWrite
  <2>2. after.state_ = "kDisconnected"
    BY <1>1, <2>1, RemoveChanges, RetryChanges
  <2>3. connector' = after /\ UNCHANGED clientVars
    BY <1>4, <1>6, <2>2 DEF OnConnector
  <2>4. CanFail(id)
    BY <1>1, <1>6, BoundsAssumption DEF Inner, Connection, CanFail, Fds
  <2> QED
    BY <1>0, <1>1, <2>1, <2>3, <2>4, FailedKeeps
<1>7. CASE owners # {} /\ kernel[id] \notin {"failed", "self"}
  <2>1. PICK y : y = RemoveAndResetChannel(connector)
    OBVIOUS
  <2>2. /\ y \in Connectors(Fds) /\ y.channel_ = "removed" /\ y.fd = connector.fd
        /\ y.attempts = connector.attempts /\ y.open = connector.open
        /\ y.timers = connector.timers /\ y.connect_ = connector.connect_ /\ y.fault = "none"
    BY <1>1, <2>1, RemoveChanges
  <2>3. PICK S : S = IF connector.connect_ THEN y.open ELSE y.open \ {id}
    OBVIOUS
  <2>4. after = [y EXCEPT !.state_ = "kConnected", !.open = S]
    BY <1>2, <1>3, <1>7, <2>1, <2>3 DEF HandleWrite
  <2>5. S \in SUBSET Fds
    BY <2>2, <2>3, Fields
  <2>6. /\ after \in Connectors(Fds) /\ after.state_ = "kConnected" /\ after.open = S
        /\ after.channel_ = "removed" /\ after.attempts = connector.attempts
        /\ after.timers = connector.timers /\ after.connect_ = connector.connect_
        /\ after.fault = "none" /\ after.pending = y.pending
    BY <2>2, <2>4, <2>5 DEF Connectors
  <2>7. CASE connector.connect_ /\ ~alive
    <3>1. connector' = Fail(after, "use of a dead client") /\ UNCHANGED clientVars
      BY <1>2, <1>4, <1>7, <2>2, <2>3, <2>6, <2>7 DEF OnConnector
    <3>2. connector' \in Connectors(Fds) /\ connector'.fault = "use of a dead client"
      BY <2>6, <3>1, FailTyped
    <3>3. dtor' # "loop"
      BY <1>1, <1>7, <2>7 DEF Inner, Dead, Idle, userVars
    <3>4. TypeOK'
      BY <1>1, <3>1, <3>2, ZenonT(60) DEF TypeOK, clientVars, userVars
    <3> QED
      BY <3>2, <3>3, <3>4, Faults
  <2>8. CASE connector.connect_ /\ alive
    <3>1. connector' = after /\ NewConnection(id) /\ S = connector.open
      BY <1>2, <1>4, <1>7, <2>2, <2>3, <2>6, <2>8 DEF OnConnector
    <3>2. /\ connection_' = id /\ conns' = [conns EXCEPT ![id] = "up"]
          /\ closeCallback_' = [closeCallback_ EXCEPT ![id] = "client"]
          /\ UNCHANGED <<alive, connect_, retry_>>
      BY <3>1 DEF NewConnection
    <3>3. TypeOK'
      BY <1>1, <2>6, <3>1, <3>2 DEF TypeOK, userVars
    <3>4. /\ \A fd \in Fds : conns'[fd] = IF fd = id THEN "up" ELSE conns[fd]
          /\ \A fd \in Fds : closeCallback_'[fd] \in {closeCallback_[fd], "client"}
      BY <1>1, <3>2 DEF TypeOK
    <3>5. \A fd \in Fds : conns[fd] \in {"down", "gone"} => conns'[fd] = conns[fd]
      BY <1>2, <3>4
    <3>6. /\ Iteration' /\ Reported' /\ Resets' /\ OneReason' /\ Dead' /\ Callbacks'
          /\ Stopped' /\ Running'
      BY <1>0, <1>1, <2>1, <2>6, <2>8, <3>1, <3>2, <3>4, <3>5, AttemptEnds
    <3>7. Attempt'
      <4>1. \A fd \in Fds : fd > connector.attempts => fd # id
        BY <1>2 DEF Fds
      <4> QED
        BY <1>1, <1>2, <2>6, <3>1, <3>4, <4>1 DEF Inner, Attempt
    <3>8. Sockets'
      BY <1>1, <1>2, <2>6, <3>1, <3>4, Fields DEF Inner, Sockets
    <3>9. Connection'
      <4>1. kernel[id] # "closed"
        BY <1>1, <1>2 DEF Inner, Connection
      <4>2. \A fd \in Fds : conns'[fd] = "up" => fd = id
        BY <1>2, <3>4
      <4>3. \A fd \in Fds : conns'[fd] = "none" => conns[fd] = "none"
        BY <1>2, <3>4
      <4> QED
        BY <1>1, <2>6, <2>8, <3>1, <3>2, <3>4, <4>1, <4>2, <4>3 DEF Inner, Connection, CanFail
    <3> QED
      BY <3>3, <3>6, <3>7, <3>8, <3>9, GoesOn DEF Inner
  <2>9. CASE ~connector.connect_
    <3>1. connector' = after /\ UNCHANGED clientVars /\ S = connector.open \ {id}
      BY <1>2, <1>4, <1>7, <2>2, <2>3, <2>6, <2>9 DEF OnConnector
    <3>2. /\ Iteration' /\ Reported' /\ Resets' /\ OneReason' /\ Dead' /\ Callbacks'
          /\ Stopped' /\ Running'
      BY <1>0, <1>1, <2>1, <2>6, <3>1, AttemptEnds DEF clientVars
    <3>3. TypeOK'
      BY <1>1, <2>6, <3>1 DEF TypeOK, clientVars, userVars
    <3>4. Attempt' /\ Sockets'
      BY <1>1, <1>2, <2>6, <3>1 DEF Inner, Attempt, Sockets, clientVars
    <3>5. Connection'
      BY <1>1, <1>2, <2>6, <3>1 DEF Inner, Connection, CanFail, clientVars, userVars
    <3> QED
      BY <3>2, <3>3, <3>4, <3>5, GoesOn DEF Inner
  <2> QED
    BY <2>7, <2>8, <2>9
<1> QED
  BY <1>5, <1>6, <1>7

(* The close of a connection: with the client's callback it is the client's *)
(* own connection, and a client destroyed by the loop has none.             *)
LEMMA RemoveConnectionKeeps ==
  ASSUME ClientInv, RemoveConnection
  PROVE  ClientInv'
<1>0. PICK fd \in Fds :
        LET mine == closeCallback_[fd] = "client"
        IN  /\ Take(Event("close", fd))
            /\ conns' = [conns EXCEPT ![fd] = "down"]
            /\ connection_' = IF mine THEN 0 ELSE connection_
            /\ connector' = IF mine /\ ~alive THEN Fail(connector, "use of a dead client")
                            ELSE IF mine /\ connection_ # fd THEN Fail(connector, "removeConnection")
                            ELSE QueueInLoop(connector, "connectionDestroyed", fd)
            /\ phase' = IF mine /\ alive /\ retry_ /\ connect_ THEN "restart" ELSE "events"
  BY DEF RemoveConnection
<1> DEFINE ev == Event("close", fd)
           mine == closeCallback_[fd] = "client"
<1>1. /\ Inner /\ Running /\ TypeOK /\ phase = "events"
      /\ ev \in active /\ active' = active \ {ev} /\ batch = <<>> /\ due = {}
      /\ UNCHANGED <<kernel, batch, due, userVars>>
      /\ connector \in Connectors(Fds) /\ connector.fault = "none"
      /\ UNCHANGED <<owners, alive, connect_, retry_, closeCallback_>>
  BY <1>0, TakeGives DEF RemoveConnection
<1>2. /\ conns[fd] = "up" /\ CanFail(connector.attempts) /\ connector.channel_ = "none"
  <2>1. ev.on = "close" /\ ev.arg = fd
    BY DEF Event
  <2> QED
    BY <1>1, <2>1 DEF Inner, Reported
<1>3. /\ connector.state_ = "kConnected" /\ (alive => connection_ = fd)
      /\ dtor = "no" => mine
  BY <1>1, <1>2 DEF Inner, Connection, Callbacks
<1>t. /\ conns' \in [Fds -> {"none", "up", "down", "gone"}]
      /\ connection_' \in Fds \cup {0} /\ phase' \in {"poll", "events", "restart", "functors"}
      /\ active' \subseteq [on : {"timer", "ERR", "OUT", "close"}, arg : Fds \cup {0}]
  <2>1. phase' \in {"events", "restart"} /\ connection_' \in {0, connection_}
    BY <1>0
  <2>2. /\ conns \in [Fds -> {"none", "up", "down", "gone"}] /\ connection_ \in Fds \cup {0}
        /\ active \subseteq [on : {"timer", "ERR", "OUT", "close"}, arg : Fds \cup {0}]
    BY <1>1 DEF TypeOK
  <2>3. conns' \in [Fds -> {"none", "up", "down", "gone"}]
    BY <1>0, <2>2
  <2>4. active' \subseteq active
    BY <1>1
  <2> QED
    BY <2>1, <2>2, <2>3, <2>4, Zenon
<1>4. CASE mine /\ ~alive
  <2>1. connector' = Fail(connector, "use of a dead client") /\ phase' = "events"
    BY <1>0, <1>4
  <2>2. connector' \in Connectors(Fds) /\ connector'.fault = "use of a dead client"
    BY <1>1, <2>1, FailTyped
  <2>3. dtor' # "loop"
    BY <1>1, <1>2, <1>4 DEF Inner, Dead, userVars
  <2>4. TypeOK'
    BY <1>1, <1>t, <2>2, ZenonT(60) DEF TypeOK, userVars
  <2> QED
    BY <2>2, <2>3, <2>4, Faults
<1>5. CASE ~(mine /\ ~alive)
  <2>1. connector' = QueueInLoop(connector, "connectionDestroyed", fd)
    BY <1>0, <1>3, <1>5
  <2>2. Functor("connectionDestroyed", fd) \in FunctorSet(Fds)
    BY DEF Functor, FunctorSet
  <2>3. /\ connector' \in Connectors(Fds) /\ SameButPending(connector, connector')
        /\ \A g : /\ Waits(connector'.pending, g) <=>
                       g = "connectionDestroyed" \/ Waits(connector.pending, g)
                  /\ Once(connector.pending, g)
                       /\ (g = "connectionDestroyed" => ~Waits(connector.pending, g))
                       => Once(connector'.pending, g)
        /\ \A k : Destroys(connector'.pending, k) <=> k = fd \/ Destroys(connector.pending, k)
    BY <1>1, <2>1, <2>2, QueueChanges
  <2>4. /\ connector'.state_ = connector.state_ /\ connector'.channel_ = connector.channel_
        /\ connector'.fd = connector.fd /\ connector'.attempts = connector.attempts
        /\ connector'.open = connector.open /\ connector'.timers = connector.timers
        /\ connector'.connect_ = connector.connect_ /\ connector'.fault = "none"
    BY <1>1, <2>3 DEF SameButPending
  <2>5. \A k \in Fds : conns'[k] = IF k = fd THEN "down" ELSE conns[k]
    BY <1>0, <1>1 DEF TypeOK
  <2>6. TypeOK'
    BY <1>1, <1>t, <2>3, ZenonT(60) DEF TypeOK, userVars
  <2>7. Attempt' /\ Sockets'
    BY <1>1, <1>2, <2>4, <2>5, Fields DEF Inner, Attempt, Sockets
  <2>8. Iteration'
    BY <1>0, <1>1 DEF Inner, Iteration
  <2>9. Connection'
    <3>1. \A k \in Fds : conns'[k] = "up" => conns[k] = "up" /\ k # fd
      BY <2>5
    <3>2. \A k \in Fds : conns'[k] = "none" => conns[k] = "none"
      BY <2>5
    <3>3. connection_' # 0 => dtor # "no" /\ connection_' = connection_
      BY <1>0, <1>3
    <3>4. phase' = "restart" => alive
      BY <1>0
    <3> QED
      BY <1>1, <1>2, <1>3, <2>4, <3>1, <3>2, <3>3, <3>4
         DEF Inner, Connection, CanFail, userVars
  <2>10. Reported'
    <3>1. ASSUME NEW e \in active', e.on = "close" PROVE e.arg # fd
      <4>1. e # ev /\ e \in [on : {"timer", "ERR", "OUT", "close"}, arg : Fds \cup {0}]
        BY <1>1, <3>1 DEF TypeOK
      <4>2. e = [on |-> e.on, arg |-> e.arg]
        BY <4>1
      <4> QED
        BY <3>1, <4>1, <4>2 DEF Event
    <3> QED
      BY <1>1, <2>4, <2>5, <3>1 DEF Inner, Reported, CanFail
  <2>11. \A g \in {"resetChannel", "startInLoop", "setCloseCallback", "addTimer"} :
           (Queued(g)' <=> Queued(g)) /\ (QueuedOnce(g) => QueuedOnce(g)')
    BY <1>1, <2>3 DEF Queued, QueuedOnce
  <2>12. Resets'
    <3>1. \A k \in Fds \cup {0} : (Destroys(batch', k) \/ Destroys(connector'.pending, k))
            => k # 0 /\ conns'[k] \in {"down", "gone"}
      <4> SUFFICES ASSUME NEW k \in Fds \cup {0},
                          Destroys(batch, k) \/ Destroys(connector.pending, k) \/ k = fd
                   PROVE  k # 0 /\ conns'[k] \in {"down", "gone"}
        BY <1>1, <2>3
      <4>1. k # 0 /\ (k = fd \/ conns[k] \in {"down", "gone"})
        BY <1>1, FdsNat DEF Inner, Resets
      <4> QED
        BY <4>1, <2>5
    <3> QED
      BY <1>0, <1>1, <2>4, <2>11, <3>1 DEF Inner, Resets
  <2>13. OneReason'
    <3>1. RetryTimers' \subseteq RetryTimers
      BY <1>1, <2>4 DEF RetryTimers
    <3> QED
      BY <1>1, <2>4, <2>11, <3>1 DEF Inner, OneReason, userVars
  <2>14. Dead'
    <3>1. \A k \in Fds : conns'[k] = "up" => conns[k] = "up"
      BY <2>5
    <3>2. phase' = "restart" => alive
      BY <1>0
    <3>3. /\ dtor' = dtor /\ idle' = idle /\ alive' = alive /\ owners' = owners
          /\ leaving' = leaving /\ closeCallback_' = closeCallback_
      BY <1>1 DEF userVars
    <3>4. Dead
      BY <1>1 DEF Inner
    <3> QED
      BY <2>4, <3>1, <3>2, <3>3, <3>4 DEF Dead, Idle
  <2>15. Callbacks' /\ Stopped'
    BY <1>0, <1>1, <2>4, <2>11 DEF Inner, Callbacks, Stopped, userVars
  <2> QED
    BY <2>4, <2>6, <2>7, <2>8, <2>9, <2>10, <2>12, <2>13, <2>14, <2>15, GoesOn
       DEF Inner, Running
<1> QED
  BY <1>4, <1>5

(* restart() finds no connection, no channel and no other reason.           *)
LEMMA RestartKeeps ==
  ASSUME ClientInv, RestartConnector
  PROVE  ClientInv'
<1>1. /\ Inner /\ Running /\ TypeOK /\ phase = "restart" /\ phase' = "events"
      /\ UNCHANGED <<owners, clientVars, kernel, active, batch, due, userVars>>
      /\ connector \in Connectors(Fds) /\ connector.fault = "none"
      /\ connects \in Nat /\ batch = <<>> /\ due = {}
  <2>1. /\ Inner /\ Running /\ TypeOK /\ phase = "restart" /\ phase' = "events"
        /\ UNCHANGED <<owners, clientVars, kernel, active, batch, due, userVars>>
    BY DEF RestartConnector, ClientInv, Inner
  <2>2. connector \in Connectors(Fds) /\ connector.fault = "none"
    BY <2>1 DEF TypeOK, Running
  <2>3. connects \in Nat
    BY <2>1, BoundsAssumption DEF TypeOK
  <2>4. batch = <<>> /\ due = {}
    BY <2>1 DEF Inner, Iteration
  <2> QED
    BY <2>1, <2>2, <2>3, <2>4
<1>2. /\ connector.state_ = "kConnected" /\ connector.channel_ = "none"
      /\ CanFail(connector.attempts) /\ \A fd \in Fds : conns[fd] # "up"
      /\ dtor # "loop" /\ stopped # "loop"
  BY <1>1 DEF Inner, Connection, Dead, Stopped
<1>3. CASE ~alive
  <2>1. connector' = Fail(connector, "use of a dead client")
    BY <1>3 DEF RestartConnector
  <2>2. connector' \in Connectors(Fds) /\ connector'.fault = "use of a dead client"
    BY <1>1, <2>1, FailTyped
  <2>4. TypeOK'
    BY <1>1, <2>2, ZenonT(60) DEF TypeOK, clientVars, userVars
  <2> QED
    BY <1>1, <1>2, <2>2, <2>4, Faults DEF userVars
<1>4. CASE alive
  <2>1. PICK r \in ResultsOf(connector.attempts + 1) : connector' = Restart(connector, r)
    BY <1>4 DEF RestartConnector
  <2>2. PICK x : x = [connector EXCEPT !.state_ = "kDisconnected", !.connect_ = TRUE,
                                       !.retryDelay_ = kInitRetryDelay]
    OBVIOUS
  <2>3. /\ x \in Connectors(Fds) /\ x.state_ = "kDisconnected" /\ x.connect_
        /\ x.channel_ = connector.channel_ /\ x.attempts = connector.attempts
        /\ x.open = connector.open /\ x.timers = connector.timers
        /\ x.pending = connector.pending /\ x.fault = "none"
    <3>1. kInitRetryDelay \in kInitRetryDelay..kMaxRetryDelay
      BY DelayAssumption
    <3> QED
      BY <1>1, <2>2, <3>1 DEF Connectors
  <2>4. connector' = StartInLoop(x, r) /\ r \in ResultsOf(x.attempts + 1)
    BY <2>1, <2>2, <2>3 DEF Restart
  <2>5. connector' \in Connectors(Fds) /\ Attempted(x, connector')
    <3>1. x.attempts # MaxAttempts
      BY <1>2, <2>3, BoundsAssumption DEF CanFail
    <3> QED
      BY <1>2, <2>3, <2>4, <3>1, StartOutcomes, Zenon
  <2>6. TypeOK'
    BY <1>1, <2>5 DEF TypeOK, clientVars, userVars
  <2>7. connector'.pending = connector.pending
    BY <2>3, <2>5 DEF Attempted
  <2>8. \A e \in active : e.on # "close"
    BY <1>1, <1>2 DEF Inner, Reported
  <2>9. ~idle'
    BY <1>1, <1>4 DEF Inner, Dead, userVars
  <2>10. /\ \A g : Queued(g)' <=> Queued(g)
         /\ \A g : QueuedOnce(g)' <=> QueuedOnce(g)
    BY <1>1, <2>7 DEF Queued, QueuedOnce
  <2>11. connects <= 1 =>
           /\ connects = 1 /\ ~Queued("startInLoop") /\ QueuedOnce("startInLoop")
           /\ x.timers = {} /\ \A e \in active : e.on = "timer" => e.arg = 0
    <3> SUFFICES ASSUME connects <= 1
                 PROVE  /\ connects = 1 /\ ~Queued("startInLoop") /\ QueuedOnce("startInLoop")
                        /\ x.timers = {} /\ \A e \in active : e.on = "timer" => e.arg = 0
      OBVIOUS
    <3>1. /\ connector.attempts # 0 /\ RetryTimers \subseteq {0}
          /\ connects # 0 /\ ~Queued("startInLoop") /\ QueuedOnce("startInLoop")
      BY <1>1, <1>2 DEF Inner, OneReason
    <3>2. connects = 1
      BY <1>1, <3>1
    <3>3. x.timers = {}
      BY <1>1, <2>3, <3>1, Fields, FdsNat DEF RetryTimers
    <3>4. \A e \in active : e.on = "timer" => e.arg = 0
      BY <3>1 DEF RetryTimers
    <3> QED
      BY <3>1, <3>2, <3>3, <3>4
  <2>12. /\ Attempt' /\ Sockets' /\ Connection' /\ Reported' /\ OneReason'
         /\ Dead' /\ Stopped' /\ Running'
    <3>1. /\ phase' # "restart" /\ active' \subseteq active
          /\ UNCHANGED <<conns, kernel, connection_, alive, owners, dtor, leaving>>
          /\ dtor' # "loop" /\ ~idle' /\ stopped' # "loop"
          /\ connector.channel_ # "on"
      BY <1>1, <1>2, <2>9 DEF clientVars, userVars
    <3>2. connects' <= 1 =>
            /\ connects' = 1 /\ ~Queued("startInLoop")' /\ QueuedOnce("startInLoop")'
            /\ x.timers = {} /\ due' \subseteq {0}
            /\ \A e \in active' : e.on = "timer" => e.arg = 0
      BY <1>1, <2>10, <2>11 DEF userVars
    <3>3. TypeOK /\ Attempt /\ Sockets /\ Connection /\ Reported /\ Dead
      BY <1>1 DEF Inner
    <3> QED
      BY <1>2, <2>3, <2>5, <2>6, <2>8, <3>1, <3>2, <3>3, AttemptKeeps
  <2>13. Iteration'
    BY <1>1 DEF Iteration
  <2>14. Resets'
    <3>1. connector'.channel_ \in {"none", "on"}
      BY <1>2, <2>3, <2>5 DEF Attempted, Begun, Postponed, Ended
    <3> QED
      BY <1>1, <1>2, <2>7, <2>10, <3>1 DEF Inner, Resets, clientVars
  <2>15. Callbacks'
    BY <1>1, <2>10 DEF Inner, Callbacks, clientVars, userVars
  <2> QED
    BY <2>6, <2>12, <2>13, <2>14, <2>15, GoesOn DEF Inner
<1> QED
  BY <1>3, <1>4

------------------------------------------------------------------------------
(* User code.                                                               *)

LEMMA UserCodeGives ==
  ASSUME ClientInv, NEW t \in {"loop", "other"}, UserCode(t)
  PROVE  /\ Inner /\ Running /\ TypeOK /\ alive /\ dtor = "no" /\ owners = {"client"}
         /\ t = "loop" => phase # "restart" /\ due = {}
         /\ UNCHANGED <<kernel, phase, active, batch, due, retry_, conns>>
         /\ connector \in Connectors(Fds) /\ connector.fault = "none"
         /\ ~idle
<1>1. /\ Inner /\ Running /\ TypeOK /\ dtor = "no"
      /\ t = "loop" => phase \in {"events", "functors"}
      /\ UNCHANGED <<kernel, phase, active, batch, due, retry_, conns>>
  BY DEF UserCode, ClientInv, Inner, loopVars
<1>2. t = "loop" => phase # "restart" /\ due = {}
  BY <1>1 DEF Inner, Iteration
<1>3. connector \in Connectors(Fds) /\ connector.fault = "none"
  BY <1>1 DEF TypeOK, Running
<1>4. ~idle /\ alive /\ owners = {"client"}
  BY <1>1 DEF Inner, Dead
<1> QED
  BY <1>1, <1>2, <1>3, <1>4

(* The first connect() finds the connector as it was made; a later one may  *)
(* fail an assert.                                                          *)
LEMMA UserConnectKeeps ==
  ASSUME ClientInv, NEW t \in {"loop", "other"}, UserConnect(t)
  PROVE  ClientInv'
<1>1. /\ Inner /\ Running /\ TypeOK /\ alive /\ dtor = "no"
      /\ t = "loop" => phase # "restart" /\ due = {}
      /\ UNCHANGED <<kernel, phase, active, batch, due, retry_, conns>>
      /\ connector \in Connectors(Fds) /\ connector.fault = "none"
      /\ ~idle
  BY UserCodeGives DEF UserConnect
<1>2. /\ connects < MaxConnects /\ connects' = connects + 1 /\ connect_' = TRUE
      /\ connector' \in Start(connector, t) /\ stopped' = "no"
      /\ UNCHANGED <<owners, alive, connection_, closeCallback_, dtor, leaving, found,
                     idle, retrying>>
  BY DEF UserConnect
<1>n. connects' \in 0..MaxConnects /\ connects \in Nat /\ (connects' <= 1 => connects = 0 /\ connects' = 1)
  BY <1>1, <1>2, BoundsAssumption DEF TypeOK
<1>3. PICK x : x = [connector EXCEPT !.connect_ = TRUE]
  OBVIOUS
<1>4. /\ x \in Connectors(Fds) /\ x.connect_ = TRUE /\ x.state_ = connector.state_
      /\ x.channel_ = connector.channel_ /\ x.fd = connector.fd
      /\ x.attempts = connector.attempts /\ x.open = connector.open
      /\ x.timers = connector.timers /\ x.pending = connector.pending /\ x.fault = "none"
  BY <1>1, <1>3 DEF Connectors
<1>5. connects' <= 1 =>
        /\ connector.attempts = 0 /\ ~Queued("startInLoop") /\ QueuedOnce("startInLoop")
        /\ connector.state_ = "kDisconnected" /\ connector.channel_ = "none"
        /\ RetryTimers \subseteq {0}
  <2> SUFFICES ASSUME connects = 0
               PROVE  /\ connector.attempts = 0 /\ ~Queued("startInLoop")
                      /\ QueuedOnce("startInLoop")
                      /\ connector.state_ = "kDisconnected" /\ connector.channel_ = "none"
                      /\ RetryTimers \subseteq {0}
    BY <1>n
  <2>1. connects <= 1
    OBVIOUS
  <2> QED
    BY <1>1, <2>1 DEF Inner, OneReason
<1>6. CASE t = "other"
  <2>1. connector' = QueueInLoop(x, "startInLoop", 0)
    BY <1>2, <1>3, <1>6 DEF Start
  <2>2. Functor("startInLoop", 0) \in FunctorSet(Fds)
    BY DEF Functor, FunctorSet
  <2>3. /\ connector' \in Connectors(Fds) /\ SameButPending(x, connector')
        /\ \A g : /\ Waits(connector'.pending, g) <=>
                       g = "startInLoop" \/ Waits(connector.pending, g)
                  /\ Once(connector.pending, g)
                       /\ (g = "startInLoop" => ~Waits(connector.pending, g))
                       => Once(connector'.pending, g)
        /\ \A k : Destroys(connector'.pending, k) <=> Destroys(connector.pending, k)
    BY <1>4, <2>1, <2>2, QueueChanges
  <2>4. /\ connector'.state_ = connector.state_ /\ connector'.channel_ = connector.channel_
        /\ connector'.fd = connector.fd /\ connector'.attempts = connector.attempts
        /\ connector'.open = connector.open /\ connector'.timers = connector.timers
        /\ connector'.fault = "none"
    BY <1>4, <2>3 DEF SameButPending
  <2>5. TypeOK'
    BY <1>1, <1>2, <1>n, <2>3 DEF TypeOK
  <2>6. Attempt' /\ Sockets' /\ Connection' /\ Reported' /\ Iteration'
    BY <1>1, <1>2, <2>4 DEF Inner, Attempt, Sockets, Connection, Reported, Iteration, CanFail
  <2>7. Dead' /\ Stopped'
    BY <1>1, <1>2 DEF Inner, Dead, Stopped
  <2>8. \A g \in {"resetChannel", "setCloseCallback", "addTimer"} :
          (Queued(g)' <=> Queued(g)) /\ (QueuedOnce(g) => QueuedOnce(g)')
    BY <1>1, <2>3 DEF Queued, QueuedOnce
  <2>9. Resets'
    BY <1>1, <2>3, <2>4, <2>8 DEF Inner, Resets
  <2>10. Callbacks'
    BY <1>1, <1>2, <2>8 DEF Inner, Callbacks
  <2>11. OneReason'
    <3> SUFFICES ASSUME connects' <= 1 PROVE OneReason'
      BY DEF OneReason
    <3>1. QueuedOnce("startInLoop")'
      BY <1>1, <1>5, <2>3 DEF Queued, QueuedOnce
    <3>2. RetryTimers' = RetryTimers
      BY <1>1, <2>4 DEF RetryTimers
    <3>3. \A e \in active : e.on = "timer" => e.arg = 0
      BY <1>5 DEF RetryTimers
    <3> QED
      BY <1>1, <1>n, <1>5, <2>4, <3>1, <3>2, <3>3 DEF OneReason
  <2> QED
    BY <2>4, <2>5, <2>6, <2>7, <2>9, <2>10, <2>11, GoesOn DEF Inner, Running
<1>7. CASE t = "loop"
  <2>1. PICK r \in ResultsOf(connector.attempts + 1) : connector' = StartInLoop(x, r)
    BY <1>2, <1>3, <1>7 DEF Start
  <2>2. /\ connector' \in Connectors(Fds)
        /\ \/ connector'.fault = "startInLoop" /\ x.state_ # "kDisconnected"
           \/ connector'.fault = "connecting" /\ x.channel_ # "none"
           \/ Attempted(x, connector')
    <3>1. x.attempts = MaxAttempts => x.state_ # "kDisconnected"
      BY <1>1, <1>4 DEF Inner, Attempt
    <3>2. r \in ResultsOf(x.attempts + 1)
      BY <1>4
    <3> QED
      BY <1>4, <2>1, <3>1, <3>2, StartOutcomes, Zenon
  <2>3. TypeOK'
    BY <1>1, <1>2, <1>n, <2>2 DEF TypeOK
  <2>4. CASE connector'.fault = "startInLoop" /\ x.state_ # "kDisconnected"
    BY <1>4, <1>5, <2>3, <2>4, Faults
  <2>5. CASE connector'.fault = "connecting" /\ x.channel_ # "none"
    BY <1>4, <1>5, <2>3, <2>5, Faults
  <2>6. CASE Attempted(x, connector')
    <3>0. /\ connector.state_ = "kDisconnected" /\ connector'.pending = connector.pending
      BY <1>4, <2>6 DEF Attempted
    <3>1. /\ connector.channel_ # "on" /\ \A fd \in Fds : conns[fd] # "up"
      BY <1>1, <3>0 DEF Inner, Attempt, Connection
    <3>2. \A e \in active : e.on # "close"
      BY <1>1, <3>1 DEF Inner, Reported
    <3>3. /\ \A g : Queued(g)' <=> Queued(g)
          /\ \A g : QueuedOnce(g)' <=> QueuedOnce(g)
      BY <1>1, <3>0 DEF Queued, QueuedOnce
    <3>4. connects' <= 1 =>
            /\ connects' = 1 /\ ~Queued("startInLoop")' /\ QueuedOnce("startInLoop")'
            /\ x.timers = {} /\ due' \subseteq {0}
            /\ \A e \in active' : e.on = "timer" => e.arg = 0
      <4> SUFFICES ASSUME connects' <= 1
                   PROVE  /\ x.timers = {} /\ due' \subseteq {0}
                          /\ \A e \in active' : e.on = "timer" => e.arg = 0
        BY <1>n, <1>5, <3>3
      <4>1. RetryTimers \subseteq {0}
        BY <1>5
      <4>2. x.timers = {}
        BY <1>4, <4>1, Fields, FdsNat DEF RetryTimers
      <4> QED
        BY <1>1, <4>1, <4>2 DEF RetryTimers
    <3>5. /\ phase' # "restart" /\ active' \subseteq active
          /\ UNCHANGED <<conns, kernel, connection_, alive, owners, dtor, leaving>>
          /\ dtor' # "loop" /\ ~idle' /\ stopped' # "loop"
      BY <1>1, <1>2, <1>7
    <3>6. TypeOK /\ Attempt /\ Sockets /\ Connection /\ Reported /\ Dead
      BY <1>1 DEF Inner
    <3>7. /\ Attempt' /\ Sockets' /\ Connection' /\ Reported' /\ OneReason'
          /\ Dead' /\ Stopped' /\ Running'
      BY <1>4, <2>3, <2>6, <3>1, <3>2, <3>4, <3>5, <3>6, AttemptKeeps
    <3>8. Iteration'
      BY <1>1 DEF Inner, Iteration
    <3>9. Resets'
      <4>1. connector'.channel_ = connector.channel_
              \/ (connector.channel_ = "none" /\ connector'.channel_ = "on")
        BY <1>4, <2>6 DEF Attempted, Begun, Postponed, Ended
      <4> QED
        BY <1>1, <3>0, <3>3, <4>1 DEF Inner, Resets
    <3>10. Callbacks'
      BY <1>1, <1>2, <3>3 DEF Inner, Callbacks
    <3> QED
      BY <2>3, <3>7, <3>8, <3>9, <3>10, GoesOn DEF Inner
  <2> QED
    BY <2>2, <2>4, <2>5, <2>6
<1> QED
  BY <1>6, <1>7

\* From x to y the attempt, the sockets and the queued starts and resets are the
\* same, at most retry timers are taken away, and nothing is started.
Quieter(x, y) ==
  /\ y \in Connectors(Fds)
  /\ y.state_ = x.state_ /\ y.channel_ = x.channel_ /\ y.fd = x.fd
  /\ y.attempts = x.attempts /\ y.open = x.open /\ y.timers \subseteq x.timers
  /\ y.fault = x.fault /\ (y.connect_ => x.connect_)
  /\ \A g \in {"resetChannel", "startInLoop"} :
       /\ Waits(y.pending, g) <=> Waits(x.pending, g)
       /\ Once(x.pending, g) => Once(y.pending, g)
  /\ \A k : Destroys(y.pending, k) <=> Destroys(x.pending, k)

(* loop_->cancel(timerId_), on the loop's thread or through its queue.       *)
LEMMA CancelCall ==
  ASSUME NEW x \in Connectors(Fds), NEW t \in {"loop", "other"}, NEW y \in Cancel(x, t)
  PROVE  \/ y \in Connectors(Fds) /\ y.fault = "cancelInLoop" /\ x.timers # {}
         \/ /\ Quieter(x, y) /\ y.connect_ = x.connect_
            /\ t = "loop" => y = Expire(x, x.timerId_)
            /\ \A g \in {"setCloseCallback", "addTimer"} :
                 Waits(y.pending, g) <=> Waits(x.pending, g)
<1>1. CASE t = "loop"
  <2>1. y \in CancelTimer(x, x.timerId_)
    BY <1>1 DEF Cancel
  <2>2. CASE y \in Connectors(Fds) /\ y.fault = "cancelInLoop" /\ x.timerId_ \in x.timers
    BY <2>2
  <2>3. CASE y = Expire(x, x.timerId_)
    BY <2>3, ExpireChanges DEF Quieter
  <2> QED
    BY <2>1, <2>2, <2>3, CancelChanges
<1>2. CASE t = "other"
  <2>1. y = QueueInLoop(x, "cancelInLoop", x.timerId_)
    BY <1>2 DEF Cancel
  <2>2. Functor("cancelInLoop", x.timerId_) \in FunctorSet(Fds)
    <3>1. x.timerId_ \in Fds \cup {0}
      BY Fields
    <3> QED
      BY <3>1 DEF Functor, FunctorSet
  <2>3. /\ y \in Connectors(Fds) /\ SameButPending(x, y)
        /\ \A g : /\ Waits(y.pending, g) <=> g = "cancelInLoop" \/ Waits(x.pending, g)
                  /\ Once(x.pending, g) /\ (g = "cancelInLoop" => ~Waits(x.pending, g))
                       => Once(y.pending, g)
        /\ \A k : Destroys(y.pending, k) <=> Destroys(x.pending, k)
    BY <2>1, <2>2, QueueChanges
  <2> QED
    BY <1>2, <2>3 DEF SameButPending, Quieter
<1> QED
  BY <1>1, <1>2

(* stop() of the connector.                                                 *)
LEMMA StopChanges ==
  ASSUME NEW x \in Connectors(Fds), NEW t \in {"loop", "other"}, NEW y \in Stop(x, t)
  PROVE  \/ y \in Connectors(Fds) /\ y.fault = "cancelInLoop" /\ x.timers # {}
         \/ /\ Quieter(x, y) /\ y.connect_ = FALSE
            /\ \A g \in {"setCloseCallback", "addTimer"} :
                 Waits(y.pending, g) <=> Waits(x.pending, g)
<1>1. PICK z : z = [x EXCEPT !.connect_ = FALSE]
  OBVIOUS
<1>2. /\ z \in Connectors(Fds) /\ z.connect_ = FALSE /\ z.state_ = x.state_
      /\ z.channel_ = x.channel_ /\ z.fd = x.fd /\ z.attempts = x.attempts
      /\ z.open = x.open /\ z.timers = x.timers /\ z.pending = x.pending /\ z.fault = x.fault
  BY <1>1 DEF Connectors
<1>3. y \in Cancel(z, t)
  BY <1>1 DEF Stop
<1>4. CASE y \in Connectors(Fds) /\ y.fault = "cancelInLoop" /\ z.timers # {}
  BY <1>2, <1>4
<1>5. CASE /\ Quieter(z, y) /\ y.connect_ = z.connect_
           /\ \A g \in {"setCloseCallback", "addTimer"} :
                Waits(y.pending, g) <=> Waits(z.pending, g)
  BY <1>2, <1>5 DEF Quieter
<1> QED
  BY <1>2, <1>3, <1>4, <1>5, CancelCall

(* ~Connector(): either assert may fail, or at most a timer is taken away.  *)
LEMMA DestructorChanges ==
  ASSUME NEW x \in Connectors(Fds), NEW t \in {"loop", "other"},
         NEW y \in Destructor(x, t), x.fault = "none"
  PROVE  \/ y \in Connectors(Fds) /\ y.fault = "cancelInLoop" /\ x.timers # {}
         \/ y \in Connectors(Fds) /\ y.fault = "~Connector" /\ x.channel_ # "none"
         \/ Quieter(x, y) /\ (t = "loop" => y = Expire(x, x.timerId_))
<1>1. PICK z \in Cancel(x, t) : y = IF z.fault = "none" /\ z.channel_ # "none"
                                     THEN Fail(z, "~Connector") ELSE z
  BY DEF Destructor
<1>2. CASE z \in Connectors(Fds) /\ z.fault = "cancelInLoop" /\ x.timers # {}
  BY <1>1, <1>2
<1>3. CASE Quieter(x, z) /\ (t = "loop" => z = Expire(x, x.timerId_))
  <2>1. z \in Connectors(Fds) /\ z.fault = "none" /\ z.channel_ = x.channel_
    BY <1>3 DEF Quieter
  <2>2. CASE x.channel_ = "none"
    BY <1>1, <1>3, <2>1, <2>2
  <2>3. CASE x.channel_ # "none"
    BY <1>1, <2>1, <2>3, FailTyped
  <2> QED
    BY <2>2, <2>3
<1> QED
  BY <1>2, <1>3, CancelCall

(* One of its owners lets go of the connector.                              *)
LEMMA LetGoChanges ==
  ASSUME TypeOK, Running, NEW who, NEW t \in {"loop", "other"}, LetGo(who, t)
  PROVE  /\ owners' = owners \ {who}
         /\ \/ /\ connector' \in Connectors(Fds) /\ connector'.fault = "cancelInLoop"
               /\ connector.timers # {} /\ owners = {who}
            \/ /\ connector' \in Connectors(Fds) /\ connector'.fault = "~Connector"
               /\ connector.channel_ # "none"
            \/ /\ Quieter(connector, connector')
               /\ t = "loop" => \/ connector' = connector
                                \/ connector' = Expire(connector, connector.timerId_)
<1>1. connector \in Connectors(Fds) /\ connector.fault = "none"
  BY DEF TypeOK, Running
<1>2. CASE connector' = connector
  BY <1>1, <1>2 DEF LetGo, Quieter
<1>3. CASE owners = {who} /\ connector' \in Destructor(connector, t)
  BY <1>1, <1>3, DestructorChanges DEF LetGo
<1> QED
  BY <1>2, <1>3 DEF LetGo

(* What such a call keeps.                                                  *)
LEMMA QuietCall ==
  ASSUME Inner, connector.fault = "none", Quieter(connector, connector'),
         UNCHANGED <<kernel, phase, active, batch, due, conns, connects>>
  PROVE  /\ Iteration' /\ Attempt' /\ Sockets' /\ Reported' /\ Resets' /\ OneReason'
         /\ Running'
<1>1. Iteration' /\ Attempt' /\ Sockets' /\ Reported' /\ Running'
  BY DEF Inner, Iteration, Attempt, Sockets, Reported, CanFail, Running, Quieter
<1>2. \A g \in {"resetChannel", "startInLoop"} :
        (Queued(g)' <=> Queued(g)) /\ (QueuedOnce(g) => QueuedOnce(g)')
  BY DEF Queued, QueuedOnce, Quieter
<1>3. Resets'
  BY <1>2 DEF Inner, Resets, Quieter
<1>4. OneReason'
  <2>1. RetryTimers' \subseteq RetryTimers
    BY DEF RetryTimers, Quieter
  <2> QED
    BY <1>2, <2>1 DEF Inner, OneReason, Quieter
<1> QED
  BY <1>1, <1>3, <1>4

(* stop(): the connector does not connect any more.                         *)
LEMMA UserStopKeeps ==
  ASSUME ClientInv, NEW t \in {"loop", "other"}, UserStop(t)
  PROVE  ClientInv'
<1>1. /\ Inner /\ Running /\ TypeOK /\ alive /\ dtor = "no"
      /\ t = "loop" => phase # "restart" /\ due = {}
      /\ UNCHANGED <<kernel, phase, active, batch, due, retry_, conns>>
      /\ connector \in Connectors(Fds) /\ connector.fault = "none"
      /\ ~idle
  BY UserCodeGives DEF UserStop
<1>2. /\ stopped' = t /\ connect_' = FALSE /\ connector' \in Stop(connector, t)
      /\ retrying' \in BOOLEAN
      /\ UNCHANGED <<owners, alive, connection_, closeCallback_, connects, dtor,
                     leaving, found, idle>>
  BY <1>1 DEF UserStop, TypeOK
<1>3. CASE connector' \in Connectors(Fds) /\ connector'.fault = "cancelInLoop"
  <2>1. TypeOK'
    BY <1>1, <1>2, <1>3 DEF TypeOK
  <2> QED
    BY <1>3, <2>1, Faults
<1>4. CASE /\ Quieter(connector, connector') /\ connector'.connect_ = FALSE
           /\ \A g \in {"setCloseCallback", "addTimer"} :
                Waits(connector'.pending, g) <=> Waits(connector.pending, g)
  <2>1. /\ connector' \in Connectors(Fds) /\ connector'.state_ = connector.state_
        /\ connector'.channel_ = connector.channel_
        /\ connector'.attempts = connector.attempts
    BY <1>4 DEF Quieter
  <2>2. TypeOK'
    BY <1>1, <1>2, <2>1 DEF TypeOK
  <2>3. Iteration' /\ Attempt' /\ Sockets' /\ Reported' /\ Resets' /\ OneReason' /\ Running'
    BY <1>1, <1>2, <1>4, QuietCall
  <2>4. Connection'
    BY <1>1, <1>2, <2>1 DEF Inner, Connection, CanFail
  <2>5. Dead'
    BY <1>1, <1>2 DEF Inner, Dead
  <2>6. Callbacks'
    BY <1>1, <1>2, <1>4 DEF Inner, Callbacks, Queued
  <2>7. Stopped'
    BY <1>1, <1>2, <1>4 DEF Stopped
  <2> QED
    BY <2>2, <2>3, <2>4, <2>5, <2>6, <2>7, GoesOn DEF Inner
<1> QED
  BY <1>1, <1>2, <1>3, <1>4, StopChanges

------------------------------------------------------------------------------
(* The destructors.                                                         *)

(* ~TcpClient() on the loop's thread: the connection, if there is one, gets *)
(* the other close callback at once, and the connector is stopped or ends.  *)
LEMMA UserDestroyKeeps ==
  ASSUME ClientInv, UserDestroy
  PROVE  ClientInv'
<1>1. /\ Inner /\ Running /\ TypeOK /\ alive /\ dtor = "no" /\ owners = {"client"}
      /\ phase # "restart" /\ due = {}
      /\ UNCHANGED <<kernel, phase, active, batch, due, retry_, conns>>
      /\ connector \in Connectors(Fds) /\ connector.fault = "none"
  BY UserCodeGives DEF UserDestroy
<1>2. /\ alive' = FALSE /\ connection_' = 0 /\ dtor' = "loop" /\ leaving' = "done"
      /\ found' = connection_ /\ idle' = (connector.channel_ = "none") /\ Destroy
      /\ retrying' \in BOOLEAN /\ UNCHANGED <<connect_, connects, stopped>>
  BY <1>1 DEF UserDestroy, TypeOK
<1>3. connection_ \in Fds \cup {0} /\ closeCallback_ \in [Fds -> {"client", "detail"}]
  BY <1>1 DEF TypeOK
<1>4. /\ owners' \in {{}, {"timer"}}
      /\ closeCallback_' \in [Fds -> {"client", "detail"}]
      /\ \A fd \in Fds : conns[fd] = "up" => closeCallback_'[fd] = "detail"
  <2>1. CASE connection_ # 0
    <3>1. \A fd \in Fds : conns[fd] = "up" => connection_ = fd
      BY <1>1 DEF Inner, Connection
    <3> QED
      BY <1>1, <1>2, <1>3, <2>1, <3>1 DEF Destroy, LetGo
  <2>2. CASE connection_ = 0
    <3>1. \A fd \in Fds : conns[fd] # "up"
      BY <1>1, <2>2, FdsNat DEF Inner, Connection
    <3> QED
      BY <1>2, <1>3, <2>2, <3>1 DEF Destroy
  <2> QED
    BY <2>1, <2>2
<1>5. \/ connector' \in Connectors(Fds) /\ connector'.fault = "cancelInLoop"
      \/ /\ connector' \in Connectors(Fds) /\ connector'.fault = "~Connector"
         /\ connector.channel_ # "none"
      \/ /\ Quieter(connector, connector')
         /\ owners' = {} \/ connector'.connect_ = FALSE
         /\ Waits(connector'.pending, "addTimer") => Waits(connector.pending, "addTimer")
  <2>1. CASE connection_ = 0
    <3>1. connector' \in Stop(connector, "loop")
      BY <1>2, <2>1 DEF Destroy
    <3> QED
      BY <1>1, <3>1, StopChanges
  <2>2. CASE connection_ # 0
    <3>1. LetGo("client", "loop") /\ owners' = {}
      BY <1>1, <1>2, <2>2 DEF Destroy, LetGo
    <3>2. CASE connector' \in {connector, Expire(connector, connector.timerId_)}
      <4>1. connector'.pending = connector.pending
        BY <1>1, <3>2, ExpireChanges
      <4>2. Quieter(connector, connector')
        BY <1>1, <3>2, ExpireChanges DEF Quieter
      <4> QED
        BY <3>1, <4>1, <4>2
    <3> QED
      BY <1>1, <3>1, <3>2, LetGoChanges
  <2> QED
    BY <2>1, <2>2
<1>6. TypeOK'
  <2>1. connector' \in Connectors(Fds)
    BY <1>5 DEF Quieter
  <2>2. idle' \in BOOLEAN
    BY <1>2
  <2> QED
    BY <1>1, <1>2, <1>3, <1>4, <2>1, <2>2 DEF TypeOK
<1>7. CASE connector'.fault = "cancelInLoop"
  BY <1>6, <1>7, Faults
<1>8. CASE connector'.fault = "~Connector" /\ connector.channel_ # "none"
  BY <1>2, <1>6, <1>8, Faults
<1>9. CASE /\ Quieter(connector, connector')
           /\ owners' = {} \/ connector'.connect_ = FALSE
           /\ Waits(connector'.pending, "addTimer") => Waits(connector.pending, "addTimer")
  <2>1. Iteration' /\ Attempt' /\ Sockets' /\ Reported' /\ Resets' /\ OneReason' /\ Running'
    BY <1>1, <1>2, <1>9, QuietCall
  <2>2. /\ connector'.state_ = connector.state_ /\ connector'.channel_ = connector.channel_
        /\ connector'.attempts = connector.attempts
        /\ connector'.connect_ => connector.connect_
    BY <1>9 DEF Quieter
  <2>3. Connection'
    BY <1>1, <1>2, <2>2 DEF Inner, Connection, CanFail
  <2>4. Dead'
    <3>1. /\ phase' # "restart"
          /\ \A fd \in Fds : conns'[fd] = "up" => closeCallback_'[fd] = "detail"
      BY <1>1, <1>2, <1>4
    <3>2. idle' => connector'.channel_ = "none"
      BY <1>2, <2>2
    <3>3. ~alive' /\ Idle'
      BY <1>2, <1>9 DEF Idle
    <3> QED
      BY <1>2, <3>1, <3>2, <3>3 DEF Dead
  <2>5. Callbacks'
    BY <1>1, <1>2, <1>9 DEF Inner, Callbacks, Queued
  <2>6. Stopped'
    BY <1>1, <1>2, <2>2 DEF Inner, Stopped
  <2> QED
    BY <1>6, <2>1, <2>3, <2>4, <2>5, <2>6, GoesOn DEF Inner
<1> QED
  BY <1>5, <1>7, <1>8, <1>9

(* A step of a destructor on another thread.                                *)
LEMMA LeavingStep ==
  ASSUME ClientInv, Running, dtor' = "other", ~idle', TypeOK',
         Quieter(connector, connector'),
         UNCHANGED <<connect_, retry_, conns, closeCallback_, kernel, phase, active,
                     batch, due, connects, stopped>>,
         \/ UNCHANGED <<alive, connection_>>
         \/ alive' = FALSE /\ connection_' = 0
  PROVE  ClientInv'
<1>1. Inner /\ connector.fault = "none"
  BY DEF ClientInv, Inner, Running
<1>2. Iteration' /\ Attempt' /\ Sockets' /\ Reported' /\ Resets' /\ OneReason' /\ Running'
  BY <1>1, QuietCall
<1>3. /\ connector'.state_ = connector.state_ /\ connector'.channel_ = connector.channel_
      /\ connector'.attempts = connector.attempts
      /\ connector'.connect_ => connector.connect_
  BY DEF Quieter
<1>4. Connection'
  BY <1>1, <1>3 DEF Inner, Connection, CanFail
<1>5. Dead' /\ Callbacks'
  BY DEF Dead, Callbacks
<1>6. Stopped'
  BY <1>1, <1>3 DEF Inner, Stopped
<1> QED
  BY <1>2, <1>4, <1>5, <1>6, GoesOn DEF Inner

LEMMA BeginDestroyKeeps ==
  ASSUME ClientInv, BeginDestroy
  PROVE  ClientInv'
<1>1. /\ Running /\ TypeOK /\ ~idle
      /\ UNCHANGED <<kernel, phase, active, batch, due, retry_, conns>>
      /\ connector \in Connectors(Fds)
  BY UserCodeGives DEF BeginDestroy
<1>2. /\ dtor' = "other" /\ leaving' = "read" /\ found' = connection_
      /\ UNCHANGED <<connector, owners, alive, connect_, connection_, closeCallback_,
                     connects, stopped, idle, retrying>>
  BY DEF BeginDestroy
<1>3. TypeOK'
  BY <1>1, <1>2 DEF TypeOK
<1>4. Quieter(connector, connector')
  BY <1>1, <1>2 DEF Quieter
<1> QED
  BY <1>1, <1>2, <1>3, <1>4, LeavingStep

(* Where a destructor on another thread goes on.                            *)
LEMMA LeaveGives ==
  ASSUME ClientInv, NEW from \in {"read", "timer", "members"}, NEW to, Leave(from, to)
  PROVE  /\ Inner /\ Running /\ TypeOK /\ dtor' = "other" /\ ~idle' /\ leaving' = to
         /\ UNCHANGED <<connect_, retry_, conns, closeCallback_, kernel, phase, active,
                        batch, due, connects, stopped, dtor, found, idle>>
         /\ retrying' \in BOOLEAN
         /\ connector \in Connectors(Fds) /\ connector.fault = "none"
<1>1. /\ Inner /\ Running /\ TypeOK /\ leaving = from /\ leaving' = to
      /\ UNCHANGED <<connect_, retry_, conns, closeCallback_, kernel, phase, active,
                     batch, due, connects, stopped, dtor, found, idle>>
      /\ retrying' = (retrying \/ connector.timers # {})
  BY DEF Leave, ClientInv, Inner, loopVars
<1>2. dtor = "other" /\ ~idle
  BY <1>1 DEF Inner, Dead
<1> QED
  BY <1>1, <1>2 DEF TypeOK, Running

(* queueInLoop() of a functor of the destructor.                            *)
LEMMA DtorQueues ==
  ASSUME NEW x \in Connectors(Fds), NEW op \in {"setCloseCallback", "addTimer"},
         NEW arg \in Fds \cup {0}
  PROVE  Quieter(x, QueueInLoop(x, op, arg))
<1>1. Functor(op, arg) \in FunctorSet(Fds)
  BY DEF Functor, FunctorSet
<1>2. PICK z : z = QueueInLoop(x, op, arg)
  OBVIOUS
<1>3. /\ z \in Connectors(Fds) /\ SameButPending(x, z)
      /\ \A g : /\ Waits(z.pending, g) <=> g = op \/ Waits(x.pending, g)
                /\ Once(x.pending, g) /\ (g = op => ~Waits(x.pending, g))
                     => Once(z.pending, g)
      /\ \A k : Destroys(z.pending, k) <=> Destroys(x.pending, k)
  BY <1>1, <1>2, QueueChanges
<1>4. Quieter(x, z)
  BY <1>3 DEF SameButPending, Quieter
<1> QED
  BY <1>2, <1>4

LEMMA LeaveConnectionKeeps ==
  ASSUME ClientInv, LeaveConnection
  PROVE  ClientInv'
<1>1. PICK to \in {"members", "timer"} :
        /\ Leave("read", to)
        /\ \/ connector' = QueueInLoop(connector, "setCloseCallback", found)
           \/ connector' \in Stop(connector, "other")
        /\ UNCHANGED <<owners, alive, connection_>>
  BY DEF LeaveConnection
<1>2. /\ Running /\ TypeOK /\ dtor' = "other" /\ ~idle' /\ leaving' = to
      /\ UNCHANGED <<connect_, retry_, conns, closeCallback_, kernel, phase, active,
                     batch, due, connects, stopped, dtor, found, idle>>
      /\ retrying' \in BOOLEAN
      /\ connector \in Connectors(Fds) /\ connector.fault = "none"
  BY <1>1, LeaveGives
<1>3. \/ connector' \in Connectors(Fds) /\ connector'.fault = "cancelInLoop"
      \/ Quieter(connector, connector')
  BY <1>1, <1>2, StopChanges, DtorQueues DEF TypeOK
<1>4. TypeOK'
  <2>1. connector' \in Connectors(Fds)
    BY <1>3 DEF Quieter
  <2> QED
    BY <1>1, <1>2, <2>1 DEF TypeOK
<1>5. CASE connector'.fault = "cancelInLoop"
  BY <1>4, <1>5, Faults
<1>6. CASE Quieter(connector, connector')
  BY <1>1, <1>2, <1>4, <1>6, LeavingStep
<1> QED
  BY <1>3, <1>5, <1>6

LEMMA LeaveTimerKeeps ==
  ASSUME ClientInv, LeaveTimer
  PROVE  ClientInv'
<1>1. /\ Leave("timer", "members") /\ owners' = owners \cup {"functor"}
      /\ connector' = QueueInLoop(connector, "addTimer", 0)
      /\ UNCHANGED <<alive, connection_>>
  BY DEF LeaveTimer
<1>2. /\ Running /\ TypeOK /\ dtor' = "other" /\ ~idle' /\ leaving' = "members"
      /\ UNCHANGED <<connect_, retry_, conns, closeCallback_, kernel, phase, active,
                     batch, due, connects, stopped, dtor, found, idle>>
      /\ retrying' \in BOOLEAN
      /\ connector \in Connectors(Fds) /\ connector.fault = "none"
  BY <1>1, LeaveGives
<1>3. Quieter(connector, connector')
  BY <1>1, <1>2, DtorQueues
<1>4. TypeOK'
  <2>1. connector' \in Connectors(Fds)
    BY <1>3 DEF Quieter
  <2> QED
    BY <1>1, <1>2, <2>1 DEF TypeOK
<1> QED
  BY <1>1, <1>2, <1>3, <1>4, LeavingStep

LEMMA LeaveMembersKeeps ==
  ASSUME ClientInv, LeaveMembers
  PROVE  ClientInv'
<1>1. /\ Leave("members", "done") /\ alive' = FALSE /\ connection_' = 0
      /\ LetGo("client", "other")
  BY DEF LeaveMembers
<1>2. /\ Running /\ TypeOK /\ dtor' = "other" /\ ~idle' /\ leaving' = "done"
      /\ UNCHANGED <<connect_, retry_, conns, closeCallback_, kernel, phase, active,
                     batch, due, connects, stopped, dtor, found, idle>>
      /\ retrying' \in BOOLEAN
      /\ connector \in Connectors(Fds) /\ connector.fault = "none"
  BY <1>1, LeaveGives
<1>3. /\ owners' = owners \ {"client"}
      /\ \/ /\ connector' \in Connectors(Fds)
            /\ connector'.fault \in {"cancelInLoop", "~Connector"}
         \/ Quieter(connector, connector')
  BY <1>1, <1>2, LetGoChanges
<1>4. TypeOK'
  <2>1. connector' \in Connectors(Fds)
    BY <1>3 DEF Quieter
  <2> QED
    BY <1>1, <1>2, <1>3, <2>1 DEF TypeOK
<1>5. CASE connector'.fault \in {"cancelInLoop", "~Connector"}
  BY <1>2, <1>4, <1>5, Faults
<1>6. CASE Quieter(connector, connector')
  BY <1>1, <1>2, <1>4, <1>6, LeavingStep
<1> QED
  BY <1>3, <1>5, <1>6

LEMMA FreeConnectionKeeps ==
  ASSUME ClientInv, FreeConnection
  PROVE  ClientInv'
<1>1. /\ connector' = Fail(connector, "connection freed") /\ TypeOK
      /\ UNCHANGED <<owners, clientVars, kernel, loopVars, userVars>>
  BY DEF FreeConnection, ClientInv
<1>2. connector' \in Connectors(Fds) /\ connector'.fault = "connection freed"
  BY <1>1, FailTyped DEF TypeOK
<1>a. /\ owners' = owners /\ alive' = alive
      /\ connect_' = connect_ /\ retry_' = retry_ /\ connection_' = connection_
      /\ conns' = conns /\ closeCallback_' = closeCallback_ /\ kernel' = kernel
      /\ phase' = phase /\ active' = active /\ batch' = batch /\ due' = due
      /\ connects' = connects /\ stopped' = stopped /\ dtor' = dtor /\ idle' = idle
      /\ leaving' = leaving /\ found' = found /\ retrying' = retrying
  BY <1>1 DEF clientVars, loopVars, userVars
<1>b. TypeOK
  BY <1>1
<1>3. TypeOK'
  <2>1. connector' \in Connectors(Fds)
    BY <1>2
  <2> QED
    BY <2>1, <1>a, <1>b DEF TypeOK
<1> QED
  BY <1>2, <1>3, Faults

(* The timer of a destructor on another thread is set.                      *)
LEMMA RunAddTimerKeeps ==
  ASSUME ClientInv, RunAddTimer
  PROVE  ClientInv'
<1>0. /\ Run("addTimer") /\ owners' = (owners \ {"functor"}) \cup {"timer"}
      /\ UNCHANGED <<connector, clientVars>>
  BY DEF RunAddTimer
<1>1. /\ Inner /\ Running /\ TypeOK /\ phase = "functors"
      /\ batch' \in Seq(FunctorSet(Fds))
      /\ UNCHANGED <<kernel, phase, active, due, userVars>>
      /\ \A g \in {"resetChannel", "startInLoop", "setCloseCallback"} :
           (Waits(batch, g) <=> Waits(batch', g)) /\ (Once(batch, g) => Once(batch', g))
      /\ \A fd : Destroys(batch', fd) => Destroys(batch, fd)
      /\ Waits(batch, "addTimer")
  BY <1>0, RunTakes
<1>2. TypeOK'
  BY <1>0, <1>1 DEF TypeOK, clientVars, userVars
<1>3. /\ Attempt' /\ Sockets' /\ Stopped' /\ Connection' /\ Reported' /\ Iteration'
  BY <1>0, <1>1 DEF Inner, Attempt, Sockets, Stopped, Connection, CanFail, Reported,
                    Iteration, clientVars, userVars
<1>4. dtor = "other"
  BY <1>1 DEF Inner, Callbacks, Queued
<1>5. Dead' /\ Callbacks'
  BY <1>1, <1>4 DEF Inner, Dead, Callbacks, userVars
<1>6. \A g \in {"resetChannel", "startInLoop", "setCloseCallback"} :
        (Queued(g)' <=> Queued(g)) /\ (QueuedOnce(g) => QueuedOnce(g)')
  BY <1>0, <1>1 DEF Queued, QueuedOnce
<1>7. Resets'
  BY <1>0, <1>1, <1>6 DEF Inner, Resets, clientVars
<1>8. OneReason'
  BY <1>0, <1>1, <1>6 DEF Inner, OneReason, RetryTimers, userVars
<1> QED
  BY <1>0, <1>1, <1>2, <1>3, <1>5, <1>7, <1>8, GoesOn DEF Inner, Running

(* The end of the connector, when the timer of the destructor lets it go.   *)
LEMMA RemoveConnectorKeeps ==
  ASSUME ClientInv, RemoveConnector
  PROVE  ClientInv'
<1>1. /\ Inner /\ Running /\ TypeOK /\ phase = "events"
      /\ active' \subseteq active /\ LetGo("timer", "loop")
      /\ UNCHANGED <<kernel, batch, due, userVars, phase, clientVars>>
      /\ connector \in Connectors(Fds) /\ connector.fault = "none"
  BY TakeGives DEF RemoveConnector
<1>2. owners' = owners \ {"timer"}
  BY <1>1, LetGoChanges
<1>3. CASE /\ connector' \in Connectors(Fds)
           /\ \/ connector'.fault = "cancelInLoop"
              \/ connector'.fault = "~Connector" /\ connector.channel_ # "none"
  <2>1. TypeOK'
    BY <1>1, <1>2, <1>3 DEF TypeOK, clientVars, userVars
  <2>2. connector'.fault = "~Connector" => ~idle'
    BY <1>1, <1>3 DEF Inner, Dead, userVars
  <2> QED
    BY <1>3, <2>1, <2>2, Faults
<1>4. CASE connector' \in {connector, Expire(connector, connector.timerId_)}
  <2>1. /\ connector' \in Connectors(Fds) /\ connector'.pending = connector.pending
        /\ connector'.state_ = connector.state_ /\ connector'.channel_ = connector.channel_
        /\ connector'.fd = connector.fd /\ connector'.attempts = connector.attempts
        /\ connector'.open = connector.open /\ connector'.timers \subseteq connector.timers
        /\ connector'.connect_ = connector.connect_ /\ connector'.fault = "none"
    BY <1>1, <1>4, ExpireChanges
  <2> QED
    BY <1>1, <1>2, <2>1, QuietEvent
<1> QED
  BY <1>1, <1>3, <1>4, LetGoChanges

------------------------------------------------------------------------------
(* The invariant.                                                           *)

LEMMA InitInv == Init => ClientInv
<1> SUFFICES ASSUME Init PROVE ClientInv
  OBVIOUS
<1>1. /\ connector.connect_ = FALSE /\ connector.state_ = "kDisconnected"
      /\ connector.channel_ = "none" /\ connector.fd = 0 /\ connector.timers = {}
      /\ connector.pending = <<>> /\ connector.open = {} /\ connector.attempts = 0
      /\ connector.fault = "none"
  BY DEF Init, NewConnector
<1>2. connector \in Connectors(Fds)
  <2>1. kInitRetryDelay \in kInitRetryDelay..kMaxRetryDelay
    BY DelayAssumption
  <2>2. <<>> \in Seq(FunctorSet(Fds))
    OBVIOUS
  <2> DEFINE S == Seq(FunctorSet(Fds))
  <2> HIDE DEF S
  <2> QED
    BY <2>1, <2>2 DEF Init, NewConnector, Connectors, S
<1>3. TypeOK
  <2>1. batch \in Seq(FunctorSet(Fds))
    BY DEF Init
  <2>2. connects \in 0..MaxConnects
    BY BoundsAssumption DEF Init
  <2>3. /\ conns \in [Fds -> {"none", "up", "down", "gone"}]
        /\ closeCallback_ \in [Fds -> {"client", "detail"}]
        /\ kernel \in [Fds -> {"pending", "established", "failed", "self", "closed"}]
    BY DEF Init
  <2> QED
    BY <1>2, <2>1, <2>2, <2>3 DEF Init, TypeOK
<1>4. \A g : ~Queued(g) /\ QueuedOnce(g)
  BY <1>1, EmptyWaits DEF Init, Queued, QueuedOnce
<1>5. /\ Iteration /\ Attempt /\ Sockets /\ Reported /\ Dead /\ Stopped
  BY <1>1, BoundsAssumption DEF Init, Iteration, Attempt, Sockets, Reported, Dead, Stopped
<1>6. Connection
  BY <1>1, FdsNat DEF Init, Connection
<1>7. Resets
  BY <1>1, <1>4, EmptyWaits DEF Init, Resets
<1>8. OneReason
  <2>1. RetryTimers = {}
    BY <1>1 DEF Init, RetryTimers
  <2> QED
    BY <1>1, <1>4, <2>1 DEF Init, OneReason
<1>9. Callbacks
  BY <1>4 DEF Init, Callbacks
<1>10. CallsRight
  BY <1>1 DEF CallsRight, OneConnectNoAssert, NotCalledWhenDead, IdleDtorAssert
<1> QED
  BY <1>1, <1>3, <1>5, <1>6, <1>7, <1>8, <1>9, <1>10 DEF ClientInv

LEMMA StutterKeeps == ClientInv /\ UNCHANGED vars => ClientInv'
<1> SUFFICES ASSUME ClientInv, UNCHANGED vars PROVE ClientInv'
  OBVIOUS
<1>0. /\ connector' = connector /\ owners' = owners /\ alive' = alive
      /\ connect_' = connect_ /\ retry_' = retry_ /\ connection_' = connection_
      /\ conns' = conns /\ closeCallback_' = closeCallback_ /\ kernel' = kernel
      /\ phase' = phase /\ active' = active /\ batch' = batch /\ due' = due
      /\ connects' = connects /\ stopped' = stopped /\ dtor' = dtor /\ idle' = idle
      /\ leaving' = leaving /\ found' = found /\ retrying' = retrying
  BY DEF vars, clientVars, loopVars, userVars
<1>1. TypeOK'
  BY <1>0 DEF ClientInv, TypeOK
<1>2. CallsRight' /\ connector'.fault \notin {"handleWrite", "handleError", "removeConnection"}
  BY <1>0 DEF ClientInv, CallsRight, OneConnectNoAssert, NotCalledWhenDead, IdleDtorAssert
<1>3. ASSUME Running' PROVE Inner'
  <2>1. Inner
    BY <1>0, <1>3 DEF ClientInv, Inner, Running
  <2>2. /\ Iteration' /\ Attempt' /\ Sockets' /\ Connection' /\ Reported' /\ Dead' /\ Stopped'
    BY <1>0, <2>1 DEF Inner, Iteration, Attempt, Sockets, Connection, Reported, Dead,
                      Stopped, Idle, CanFail
  <2>3. Resets' /\ Callbacks'
    BY <1>0, <2>1 DEF Inner, Resets, Callbacks, Queued, QueuedOnce
  <2>4. OneReason'
    BY <1>0, <2>1 DEF Inner, OneReason, Queued, QueuedOnce, RetryTimers
  <2> QED
    BY <2>2, <2>3, <2>4 DEF Inner
<1> QED
  BY <1>1, <1>2, <1>3 DEF ClientInv, Inner

LEMMA NextKeeps == ClientInv /\ [Next]_vars => ClientInv'
<1> SUFFICES ASSUME ClientInv, [Next]_vars PROVE ClientInv'
  OBVIOUS
<1>1. CASE Settle
  BY <1>1, SettleKeeps
<1>2. CASE PeerClose
  BY <1>2, PeerCloseKeeps
<1>3. CASE Elapse
  BY <1>3, ElapseKeeps
<1>4. CASE Poll
  BY <1>4, PollKeeps
<1>5. CASE Events
  BY <1>5, RetryTimerKeeps, RemoveConnectorKeeps, ConnectorWritableKeeps,
     ConnectorErrorKeeps, RemoveConnectionKeeps, RestartKeeps DEF Events
<1>6. CASE RunConnectorFunctor
  <2>1. UNCHANGED <<owners, clientVars>>
    BY <1>6 DEF RunConnectorFunctor
  <2>2. CASE Run("resetChannel") /\ OnConnector(ResetChannel(connector))
    BY <2>1, <2>2, ResetChannelKeeps
  <2>3. CASE Run("startInLoop") /\ \E r \in ResultsOf(connector.attempts + 1) :
                                     OnConnector(StartInLoop(connector, r))
    BY <2>1, <2>3, StartInLoopKeeps
  <2>4. CASE Run("cancelInLoop") /\ connector' \in CancelTimer(connector, Head(batch).arg)
    BY <2>1, <2>4, CancelInLoopKeeps
  <2> QED
    BY <1>6, <2>2, <2>3, <2>4 DEF RunConnectorFunctor
<1>7. CASE Functors
  BY <1>6, <1>7, SwapKeeps, ConnectionDestroyedKeeps, SetCloseCallbackKeeps,
     RunAddTimerKeeps, FunctorsDoneKeeps DEF Functors
<1>8. CASE User
  BY <1>8, UserConnectKeeps, UserDisconnectKeeps, UserStopKeeps DEF User
<1>d. CASE Destruction
  BY <1>d, UserDestroyKeeps, BeginDestroyKeeps, LeaveConnectionKeeps, LeaveTimerKeeps,
     LeaveMembersKeeps, FreeConnectionKeeps DEF Destruction
<1>9. CASE UNCHANGED vars
  BY <1>9, StutterKeeps
<1> QED
  BY <1>1, <1>2, <1>3, <1>4, <1>5, <1>7, <1>8, <1>9, <1>d DEF Next

LEMMA AlwaysClientInv == Spec => []ClientInv
  BY InitInv, NextKeeps, PTL DEF Spec

------------------------------------------------------------------------------
(* The second invariant.                                                    *)

(* What the queues hold to cancel, after queueInLoop() and after a functor. *)
LEMMA AppendCancels ==
  ASSUME NEW q \in Seq(FunctorSet(Fds)), NEW f \in FunctorSet(Fds), NEW id
  PROVE  Cancels(Append(q, f), id) <=>
           Cancels(q, id) \/ (f.op = "cancelInLoop" /\ f.arg = id)
<1>1. /\ Len(Append(q, f)) = Len(q) + 1 /\ Len(q) \in Nat
      /\ Append(q, f)[Len(q) + 1] = f
      /\ \A i \in 1..Len(q) : Append(q, f)[i] = q[i]
  OBVIOUS
<1> QED
  BY <1>1 DEF Cancels

LEMMA TailCancels ==
  ASSUME NEW q \in Seq(FunctorSet(Fds)), q # <<>>, NEW id
  PROVE  Cancels(q, id) <=> \/ Head(q).op = "cancelInLoop" /\ Head(q).arg = id
                            \/ Cancels(Tail(q), id)
<1>1. /\ Len(q) \in Nat \ {0} /\ Len(Tail(q)) = Len(q) - 1 /\ Head(q) = q[1]
      /\ \A i \in 1..Len(q) - 1 : Tail(q)[i] = q[i + 1]
  OBVIOUS
<1>2. \A i \in 1..Len(q) : i = 1 \/ (i - 1 \in 1..Len(Tail(q)) /\ q[i] = Tail(q)[i - 1])
  BY <1>1
<1> QED
  BY <1>1, <1>2 DEF Cancels

LEMMA QueueCancels ==
  ASSUME NEW x \in Connectors(Fds), NEW op, NEW arg, Functor(op, arg) \in FunctorSet(Fds)
  PROVE  \A id : Cancels(QueueInLoop(x, op, arg).pending, id) <=>
           (op = "cancelInLoop" /\ arg = id) \/ Cancels(x.pending, id)
<1> DEFINE f == Functor(op, arg)
           q == Append(x.pending, f)
<1>1. f.op = op /\ f.arg = arg /\ f \in FunctorSet(Fds) /\ x.pending \in Seq(FunctorSet(Fds))
  BY Fields DEF Functor
<1>2. QueueInLoop(x, op, arg) = [x EXCEPT !.pending = q]
  BY DEF QueueInLoop
<1> HIDE DEF f
<1>3. q \in Seq(FunctorSet(Fds))
  BY <1>1
<1>4. \A id : Cancels(q, id) <=> (op = "cancelInLoop" /\ arg = id) \/ Cancels(x.pending, id)
  BY <1>1, AppendCancels
<1> HIDE DEF q
<1>5. QueueInLoop(x, op, arg).pending = q
  BY <1>2, <1>3, PendingSet
<1> QED
  BY <1>4, <1>5

LEMMA RemoveCancels ==
  ASSUME NEW x \in Connectors(Fds)
  PROVE  \A id : Cancels(RemoveAndResetChannel(x).pending, id) => Cancels(x.pending, id)
<1>1. PICK z : z = [x EXCEPT !.channel_ = "removed"]
  OBVIOUS
<1>2. z \in Connectors(Fds) /\ z.pending = x.pending
  BY <1>1 DEF Connectors
<1>3. RemoveAndResetChannel(x) = QueueInLoop(z, "resetChannel", 0)
  BY <1>1 DEF RemoveAndResetChannel
<1>4. Functor("resetChannel", 0) \in FunctorSet(Fds)
  BY DEF Functor, FunctorSet
<1> QED
  BY <1>2, <1>3, <1>4, QueueCancels

\* From x to y old timers stay old and are not set again, and a new timerId_ is
\* one of them.
Moved(x, y) ==
  /\ \A id \in Fds \cup {0} : Old(x, id) => /\ Old(y, id)
                                            /\ id \in y.timers => id \in x.timers
  /\ y.timerId_ = x.timerId_ \/ Old(y, y.timerId_)

\* No attempt is made or ends.
Kept(x, y) ==
  /\ y.timerId_ = x.timerId_ /\ y.attempts = x.attempts /\ y.timers \subseteq x.timers
  /\ y.channel_ = "on" => x.channel_ = "on"

LEMMA KeptMoved ==
  ASSUME NEW x, NEW y, Kept(x, y)
  PROVE  Moved(x, y)
  BY DEF Kept, Moved, Old

LEMMA AttemptMoves ==
  ASSUME NEW c \in Connectors(Fds), NEW x \in Connectors(Fds), NEW y \in Connectors(Fds),
         Kept(c, x), Attempted(x, y), x.channel_ # "on"
  PROVE  Moved(c, y)
<1> DEFINE a == x.attempts + 1
<1>0. x.attempts \in Fds \cup {0} /\ \A id \in Fds \cup {0} : id \in Nat
  BY Fields, FdsNat
<1>1. /\ x.attempts \in Nat /\ y.attempts = a /\ a \in Nat
      /\ c.attempts = x.attempts /\ x.timers \subseteq c.timers
      /\ c.timerId_ = x.timerId_
      /\ Begun(x, y) \/ Postponed(x, y) \/ Ended(x, y)
  BY <1>0 DEF Attempted, Kept
<1>2. /\ y.timers \subseteq x.timers \cup {a}
      /\ y.timerId_ = x.timerId_ \/ (y.timerId_ = a /\ y.channel_ # "on")
  BY <1>1 DEF Begun, Postponed, Ended
<1> HIDE DEF a
<1>3. ASSUME NEW id \in Fds \cup {0}, Old(c, id) PROVE id < a
  BY <1>0, <1>1, <1>3 DEF a, Old
<1>4. a <= a
  BY <1>1
<1>5. ASSUME NEW id \in Fds \cup {0}, Old(c, id)
      PROVE  Old(y, id) /\ (id \in y.timers => id \in c.timers)
  <2>1. id < a /\ id \in Nat /\ a \in Nat
    BY <1>0, <1>1, <1>3, <1>5
  <2>2. id <= a /\ id # a
    BY <2>1
  <2> QED
    BY <1>1, <1>2, <2>1, <2>2 DEF Old
<1> QED
  BY <1>1, <1>2, <1>4, <1>5 DEF Moved, Old

(* The end of an attempt: its timer is the first with its name.             *)
LEMMA EndMoves ==
  ASSUME NEW x \in Connectors(Fds), NEW y, x.channel_ = "on", y.channel_ = "removed",
         y.attempts = x.attempts, y.timers \subseteq x.timers \cup {x.attempts},
         y.timerId_ \in {x.timerId_, x.attempts}
  PROVE  Moved(x, y)
<1>0. x.attempts \in Fds \cup {0} /\ \A id \in Fds \cup {0} : id \in Nat
  BY Fields, FdsNat
<1>1. x.attempts \in Nat /\ \A id \in Fds \cup {0} : id \in Nat
  BY <1>0
<1>2. ASSUME NEW id \in Fds \cup {0}, Old(x, id)
      PROVE  Old(y, id) /\ (id \in y.timers => id \in x.timers)
  <2>1. id <= x.attempts /\ id # x.attempts
    BY <1>1, <1>2 DEF Old
  <2> QED
    BY <2>1 DEF Old
<1>3. x.attempts <= x.attempts
  BY <1>1
<1> QED
  BY <1>2, <1>3 DEF Moved, Old

\* From x to y no cancel() is asked for, no timer is set after the destructor,
\* and no fault of this invariant is made.
Outcome(x, y) ==
  /\ y.fault \notin {"cancelInLoop", "connection freed"}
  /\ y.fault = "none" =>
       /\ Moved(x, y)
       /\ dtor = "loop" => y.timers \subseteq x.timers
       /\ \A id : Cancels(y.pending, id) => Cancels(x.pending, id)
       /\ Waits(y.pending, "addTimer") => Waits(x.pending, "addTimer")

LEMMA KeptOutcome ==
  ASSUME NEW x, NEW y, Kept(x, y), y.fault \notin {"cancelInLoop", "connection freed"},
         \A id : Cancels(y.pending, id) => Cancels(x.pending, id),
         Waits(y.pending, "addTimer") => Waits(x.pending, "addTimer")
  PROVE  Outcome(x, y)
  BY KeptMoved DEF Outcome, Kept

LEMMA FailOutcome ==
  ASSUME NEW x, NEW z \in Connectors(Fds),
         NEW w \in {"removeConnection", "use of a dead connector", "use of a dead client"}
  PROVE  Outcome(x, Fail(z, w))
<1>1. w \in {"connecting", "startInLoop", "handleWrite", "handleError",
             "~Connector", "cancelInLoop", "removeConnection",
             "use of a dead connector", "use of a dead client",
             "connection freed"}
  OBVIOUS
<1>2. Fail(z, w).fault = w
  BY <1>1, FailTyped
<1>3. Fail(z, w).fault \notin {"none", "cancelInLoop", "connection freed"}
  BY <1>2
<1> QED
  BY <1>3 DEF Outcome

LEMMA DeadOutcome ==
  ASSUME NEW x, OnConnector(x), connector \in Connectors(Fds),
         owners # {} => Outcome(connector, x)
  PROVE  Outcome(connector, connector')
<1>1. CASE owners = {}
  BY <1>1, FailOutcome DEF OnConnector
<1>2. CASE owners # {}
  BY <1>2 DEF OnConnector
<1> QED
  BY <1>1, <1>2

(* startInLoop(), of the connector with at most a timer taken away.         *)
LEMMA StartOutcome ==
  ASSUME Attempt, NEW c \in Connectors(Fds), NEW x \in Connectors(Fds), Kept(c, x),
         x.fault = "none", x.pending = c.pending, x.channel_ = connector.channel_,
         x.state_ = "kDisconnected" => x.channel_ # "on" /\ x.attempts # MaxAttempts,
         dtor = "loop" => ~x.connect_,
         NEW r \in ResultsOf(x.attempts + 1)
  PROVE  Outcome(c, StartInLoop(x, r))
<1>1. PICK y : y = StartInLoop(x, r)
  OBVIOUS
<1> SUFFICES Outcome(c, y)
  BY <1>1
<1>a. x.attempts = MaxAttempts => x.state_ # "kDisconnected"
  OBVIOUS
<1>2. /\ y \in Connectors(Fds)
      /\ \/ y.fault = "startInLoop"
         \/ y.fault = "connecting"
         \/ y = x
         \/ Attempted(x, y)
  BY <1>1, <1>a, StartOutcomes, Zenon
<1>3. CASE y.fault = "startInLoop" \/ y.fault = "connecting"
  <2>1. y.fault \notin {"none", "cancelInLoop", "connection freed"}
    BY <1>3
  <2> QED
    BY <2>1 DEF Outcome
<1>4. CASE y = x
  <2>1. y.fault \notin {"cancelInLoop", "connection freed"}
    BY <1>4
  <2> QED
    BY <1>4, <2>1, KeptOutcome
<1>5. CASE Attempted(x, y)
  <2>1. /\ x.state_ = "kDisconnected" /\ x.connect_ /\ y.pending = x.pending
        /\ y.fault = "none"
    BY <1>5 DEF Attempted
  <2>2. Moved(c, y)
    BY <1>2, <1>5, <2>1, AttemptMoves
  <2>3. dtor # "loop" /\ y.pending = c.pending
    BY <2>1
  <2>4. y.fault \notin {"cancelInLoop", "connection freed"}
    BY <2>1
  <2> QED
    BY <2>2, <2>3, <2>4, Zenon DEF Outcome
<1> QED
  BY <1>2, <1>3, <1>4, <1>5

(* How the timers whose cancel() is queued stay old.                        *)
LEMMA CancelledKeeps ==
  ASSUME Cancelled, TypeOK, Moved(connector, connector'), retrying => retrying',
         \A id : Asked(id)' => \/ Asked(id)
                               \/ /\ id = connector.timerId_
                                  /\ connector.timers # {} => retrying'
  PROVE  Cancelled'
<1>1. connector.timerId_ \in Fds \cup {0}
  BY Fields DEF TypeOK
<1>2. Old(connector, connector.timerId_)'
  BY <1>1 DEF Cancelled, Moved
<1>3. ASSUME NEW id \in Fds, Asked(id)'
      PROVE  /\ Old(connector, id)'
             /\ id \in connector'.timers => retrying'
  <2>1. /\ Old(connector, id)
        /\ id \in connector.timers => retrying'
    BY <1>3 DEF Cancelled
  <2> QED
    BY <2>1 DEF Moved
<1> QED
  BY <1>2, <1>3 DEF Cancelled

(* A step that is neither a stop() nor a destructor's.                      *)
LEMMA CauseCall ==
  ASSUME ClientInv, CauseInv, Running, UNCHANGED <<dtor, leaving, found, retrying>>,
         owners' \subseteq owners,
         batch' = batch \/ (batch # <<>> /\ batch' = Tail(batch)),
         Outcome(connector, connector'),
         \A fd \in Fds : conns'[fd] = "up" => conns[fd] = "up" \/ dtor # "loop"
  PROVE  CauseInv'
<1>1. CancelAssert' /\ FreedByDtor'
  BY DEF Outcome, CancelAssert, FreedByDtor
<1>2. ASSUME Running' PROVE Owners' /\ Cancelled'
  <2>1. /\ TypeOK /\ Owners /\ Cancelled
    BY DEF ClientInv, CauseInv
  <2>2. /\ Moved(connector, connector')
        /\ dtor = "loop" => connector'.timers \subseteq connector.timers
        /\ \A id : Cancels(connector'.pending, id) => Cancels(connector.pending, id)
        /\ Waits(connector'.pending, "addTimer") => Waits(connector.pending, "addTimer")
    BY <1>2 DEF Outcome, Running
  <2>3. /\ \A id : Cancels(batch', id) => Cancels(batch, id)
        /\ Waits(batch', "addTimer") => Waits(batch, "addTimer")
    BY <2>1, TailCancels, TailWaits DEF TypeOK
  <2>4. Cancelled'
    <3>1. \A id : Asked(id)' => Asked(id)
      BY <2>2, <2>3 DEF Asked
    <3> QED
      BY <2>1, <2>2, <3>1, CancelledKeeps
  <2>5. Owners'
    <3>1. Queued("addTimer")' => Queued("addTimer")
      BY <2>2, <2>3 DEF Queued
    <3>2. connector'.timers # {} /\ dtor = "loop" => connector.timers # {}
      BY <2>2
    <3> QED
      BY <2>1, <3>1, <3>2 DEF Owners
  <2> QED
    BY <2>4, <2>5
<1> QED
  BY <1>1, <1>2 DEF CauseInv

LEMMA CauseStep ==
  ASSUME ClientInv, CauseInv, Running, UNCHANGED userVars, owners' \subseteq owners,
         batch' = batch \/ (batch # <<>> /\ batch' = Tail(batch)),
         Outcome(connector, connector'),
         \A fd \in Fds : conns'[fd] = "up" => conns[fd] = "up" \/ dtor # "loop"
  PROVE  CauseInv'
<1>1. UNCHANGED <<dtor, leaving, found, retrying>>
  BY DEF userVars
<1> QED
  BY <1>1, CauseCall

(* A step that leaves the connector alone.                                  *)
LEMMA SameOutcome ==
  ASSUME NEW x, x.fault = "none"
  PROVE  Outcome(x, x)
<1>1. Kept(x, x)
  BY DEF Kept
<1>2. x.fault \notin {"cancelInLoop", "connection freed"}
  OBVIOUS
<1> QED
  BY <1>1, <1>2, KeptOutcome

LEMMA QuietCause ==
  ASSUME ClientInv, CauseInv,
         Settle \/ PeerClose \/ Elapse \/ Poll \/ FunctorsDone \/ RunSetCloseCallback
  PROVE  CauseInv'
<1>1. Outcome(connector, connector)
  <2>1. connector.fault = "none"
    BY DEF Settle, PeerClose, Elapse, Poll, FunctorsDone, RunSetCloseCallback, Run, Running
  <2> QED
    BY <2>1, SameOutcome
<1>2. CASE Settle \/ PeerClose \/ Elapse \/ Poll \/ FunctorsDone
  <2>1. /\ Running /\ connector' = connector /\ owners' = owners
        /\ conns' = conns /\ batch' = batch /\ UNCHANGED userVars
    BY <1>2 DEF Settle, PeerClose, Elapse, Poll, FunctorsDone, clientVars, loopVars
  <2> QED
    BY <1>1, <2>1, CauseStep
<1>3. CASE RunSetCloseCallback
  <2>1. /\ Running /\ connector' = connector /\ owners' = owners
        /\ conns' = conns /\ batch # <<>> /\ batch' = Tail(batch) /\ UNCHANGED userVars
    BY <1>3 DEF RunSetCloseCallback, Run
  <2> QED
    BY <1>1, <2>1, CauseStep
<1> QED
  BY <1>2, <1>3

LEMMA SwapCause ==
  ASSUME ClientInv, CauseInv, DoPendingFunctors
  PROVE  CauseInv'
<1>0. /\ Running /\ TypeOK /\ Owners /\ Cancelled /\ phase = "events"
      /\ batch' = connector.pending /\ connector' = [connector EXCEPT !.pending = <<>>]
      /\ UNCHANGED <<owners, clientVars, userVars>>
  BY DEF ClientInv, CauseInv, DoPendingFunctors
<1>1. connector \in Connectors(Fds) /\ connector.fault = "none"
  BY <1>0 DEF TypeOK, Running
<1>2. connector'.pending = <<>> /\ SameButPending(connector, connector')
  <2>1. <<>> \in Seq(FunctorSet(Fds))
    OBVIOUS
  <2> QED
    BY <1>0, <1>1, <2>1, PendingSet, Zenon
<1>3. /\ connector'.fault = "none" /\ Moved(connector, connector')
      /\ connector'.timers = connector.timers
  BY <1>1, <1>2, KeptMoved DEF SameButPending, Kept
<1>4. \A id : ~Cancels(<<>>, id)
  BY DEF Cancels
<1>5. \A id : Asked(id)' => Asked(id)
  BY <1>0, <1>2, <1>4 DEF Asked
<1>6. Cancelled'
  <2>1. retrying' = retrying
    BY <1>0 DEF userVars
  <2> QED
    BY <1>0, <1>3, <1>5, <2>1, CancelledKeeps
<1>7. Owners'
  <2>1. Queued("addTimer")' => Queued("addTimer")
    BY <1>0, <1>2, EmptyWaits DEF Queued
  <2> QED
    BY <1>0, <1>3, <2>1 DEF Owners, clientVars, userVars
<1> QED
  BY <1>3, <1>6, <1>7 DEF CauseInv, CancelAssert, FreedByDtor

LEMMA DestroyedCause ==
  ASSUME ClientInv, CauseInv, RunConnectionDestroyed
  PROVE  CauseInv'
<1> DEFINE fd == Head(batch).arg
<1>1. /\ Running /\ TypeOK /\ owners' = owners /\ UNCHANGED userVars
      /\ batch # <<>> /\ batch' = Tail(batch)
      /\ conns' = [conns EXCEPT ![fd] = "gone"]
      /\ connector' = [connector EXCEPT !.open = @ \ {fd}]
      /\ connector \in Connectors(Fds) /\ connector.fault = "none"
  BY DEF ClientInv, RunConnectionDestroyed, Run, TypeOK, Running
<1> HIDE DEF fd
<1>2. /\ Kept(connector, connector') /\ connector'.fault = "none"
      /\ connector'.pending = connector.pending
  BY <1>1 DEF Connectors, Kept
<1>3. Outcome(connector, connector')
  BY <1>2, KeptOutcome
<1>4. \A k \in Fds : conns'[k] = "up" => conns[k] = "up"
  BY <1>1 DEF TypeOK
<1> QED
  BY <1>1, <1>3, <1>4, CauseStep

(* A destructor on the loop's thread leaves nobody who starts the connector.*)
LEMMA NotStarted ==
  ASSUME ClientInv, Running, dtor = "loop", owners # {}
  PROVE  ~connector.connect_
  BY DEF ClientInv, Dead, Idle

LEMMA ConnectorFunctorCause ==
  ASSUME ClientInv, CauseInv, RunConnectorFunctor
  PROVE  CauseInv'
<1>1. PICK op \in {"resetChannel", "startInLoop", "cancelInLoop"} :
        /\ Run(op)
        /\ op = "resetChannel" => OnConnector(ResetChannel(connector))
        /\ op = "startInLoop" => \E r \in ResultsOf(connector.attempts + 1) :
                                   OnConnector(StartInLoop(connector, r))
        /\ op = "cancelInLoop" => connector' \in CancelTimer(connector, Head(batch).arg)
  BY Zenon DEF RunConnectorFunctor
<1>2. /\ Running /\ TypeOK /\ Attempt /\ owners' = owners /\ conns' = conns
      /\ UNCHANGED userVars /\ batch # <<>> /\ batch' = Tail(batch)
      /\ batch \in Seq(FunctorSet(Fds)) /\ Head(batch).op = op
      /\ connector \in Connectors(Fds) /\ connector.fault = "none"
  BY <1>1 DEF ClientInv, RunConnectorFunctor, Run, TypeOK, Running, clientVars
<1>3. CASE op = "resetChannel"
  <2>1. PICK y : y = ResetChannel(connector)
    OBVIOUS
  <2>2. Kept(connector, y) /\ y.fault = "none" /\ y.pending = connector.pending
    BY <1>2, <2>1 DEF ResetChannel, Connectors, Kept
  <2>3. Outcome(connector, y)
    BY <2>2, KeptOutcome
  <2>4. Outcome(connector, connector')
    BY <1>1, <1>2, <1>3, <2>1, <2>3, DeadOutcome
  <2> QED
    BY <1>2, <2>4, CauseStep
<1>4. CASE op = "startInLoop"
  <2>1. PICK r \in ResultsOf(connector.attempts + 1) : OnConnector(StartInLoop(connector, r))
    BY <1>1, <1>4
  <2>2. owners # {} => Outcome(connector, StartInLoop(connector, r))
    <3>1. Kept(connector, connector)
      BY DEF Kept
    <3>2. connector.state_ = "kDisconnected"
            => connector.channel_ # "on" /\ connector.attempts # MaxAttempts
      BY <1>2 DEF Attempt
    <3>3. owners # {} => (dtor = "loop" => ~connector.connect_)
      BY <1>2, NotStarted
    <3> QED
      BY <1>2, <3>1, <3>2, <3>3, StartOutcome
  <2>3. Outcome(connector, connector')
    BY <1>2, <2>1, <2>2, DeadOutcome
  <2> QED
    BY <1>2, <2>3, CauseStep
<1>5. CASE op = "cancelInLoop"
  <2>1. PICK id : id = Head(batch).arg
    OBVIOUS
  <2>2. connector' \in CancelTimer(connector, id)
    BY <1>1, <1>5, <2>1
  <2>3. CASE connector' = Expire(connector, id)
    <3>1. /\ Kept(connector, connector') /\ connector'.fault = "none"
          /\ connector'.pending = connector.pending
      BY <1>2, <2>3, ExpireChanges DEF Kept
    <3>2. Outcome(connector, connector')
      BY <3>1, KeptOutcome
    <3> QED
      BY <1>2, <3>2, CauseStep
  <2>4. CASE connector'.fault = "cancelInLoop" /\ id \in connector.timers
    <3>1. id \in Fds /\ Asked(id)
      BY <1>2, <1>5, <2>1, <2>4, Fields, TailCancels DEF Asked
    <3>2. retrying'
      BY <1>2, <2>4, <3>1 DEF CauseInv, Cancelled, userVars
    <3> QED
      BY <2>4, <3>2 DEF CauseInv, CancelAssert, FreedByDtor, Running
  <2> QED
    BY <1>2, <2>2, <2>3, <2>4, CancelChanges
<1> QED
  BY <1>3, <1>4, <1>5

LEMMA RetryTimerCause ==
  ASSUME ClientInv, CauseInv, RetryTimer
  PROVE  CauseInv'
<1>1. PICK id \in Fds :
        /\ Take(Event("timer", id))
        /\ \/ \E r \in ResultsOf(connector.attempts + 1) :
                OnConnector(StartInLoop(Expire(connector, id), r))
           \/ UNCHANGED connector
  BY DEF RetryTimer
<1>2. /\ Running /\ TypeOK /\ Attempt /\ batch' = batch /\ UNCHANGED userVars
      /\ owners' = owners /\ conns' = conns
      /\ connector \in Connectors(Fds) /\ connector.fault = "none"
  BY <1>1 DEF RetryTimer, ClientInv, Take, TypeOK, Running, clientVars
<1>3. CASE UNCHANGED connector
  BY <1>2, <1>3, SameOutcome, CauseStep
<1>4. ASSUME NEW r \in ResultsOf(connector.attempts + 1),
             OnConnector(StartInLoop(Expire(connector, id), r))
      PROVE  CauseInv'
  <2>1. PICK x : x = Expire(connector, id)
    OBVIOUS
  <2>2. /\ x \in Connectors(Fds) /\ x.state_ = connector.state_
        /\ x.channel_ = connector.channel_ /\ x.attempts = connector.attempts
        /\ x.pending = connector.pending /\ x.connect_ = connector.connect_
        /\ x.fault = "none" /\ Kept(connector, x)
    BY <1>2, <2>1, ExpireChanges DEF Kept
  <2>3. owners # {} => Outcome(connector, StartInLoop(x, r))
    <3>1. x.state_ = "kDisconnected" => x.channel_ # "on" /\ x.attempts # MaxAttempts
      BY <1>2, <2>2 DEF Attempt
    <3>2. owners # {} => (dtor = "loop" => ~x.connect_)
      BY <1>2, <2>2, NotStarted
    <3>3. r \in ResultsOf(x.attempts + 1)
      BY <2>2
    <3> QED
      BY <1>2, <2>2, <3>1, <3>2, <3>3, StartOutcome
  <2>4. OnConnector(StartInLoop(x, r))
    BY <1>4, <2>1
  <2>5. Outcome(connector, connector')
    BY <1>2, <2>3, <2>4, DeadOutcome
  <2> QED
    BY <1>2, <2>5, CauseStep
<1> QED
  BY <1>1, <1>3, <1>4

(* The end of an attempt, failed or not.                                    *)
LEMMA FailedOutcome ==
  ASSUME NEW x \in Connectors(Fds), x.channel_ = "on", x.fault = "none",
         x.attempts \in Fds, dtor = "loop" => ~x.connect_
  PROVE  Outcome(x, Retry(RemoveAndResetChannel(x), x.attempts))
<1>1. PICK y : y = RemoveAndResetChannel(x)
  OBVIOUS
<1>2. /\ y \in Connectors(Fds) /\ y.channel_ = "removed" /\ y.attempts = x.attempts
      /\ y.timers = x.timers /\ y.connect_ = x.connect_ /\ y.fault = "none"
      /\ y.timerId_ = x.timerId_
      /\ Waits(y.pending, "addTimer") <=> Waits(x.pending, "addTimer")
  BY <1>1, RemoveChanges
<1>3. \A id : Cancels(y.pending, id) => Cancels(x.pending, id)
  BY <1>1, RemoveCancels
<1>4. PICK z : z = Retry(y, x.attempts)
  OBVIOUS
<1>5. /\ z.channel_ = "removed" /\ z.attempts = x.attempts
      /\ z.timers \subseteq x.timers \cup {x.attempts}
      /\ z.timerId_ \in {x.timerId_, x.attempts}
      /\ z.pending = y.pending /\ z.fault = "none"
      /\ ~x.connect_ => z.timers = x.timers
  BY <1>2, <1>4, RetryChanges
<1>6. Moved(x, z)
  BY <1>5, EndMoves
<1>7. dtor = "loop" => z.timers \subseteq x.timers
  BY <1>5
<1>8. Outcome(x, z)
  BY <1>2, <1>3, <1>5, <1>6, <1>7 DEF Outcome
<1> QED
  BY <1>1, <1>4, <1>8

LEMMA ConnectorErrorCause ==
  ASSUME ClientInv, CauseInv, ConnectorError
  PROVE  CauseInv'
<1>0. PICK id \in Fds : Take(Event("ERR", id))
  BY DEF ConnectorError
<1>1. /\ Running /\ TypeOK /\ connector \in Connectors(Fds) /\ connector.fault = "none"
      /\ batch' = batch /\ UNCHANGED userVars /\ owners' = owners /\ conns' = conns
  BY <1>0 DEF ConnectorError, ClientInv, Take, TypeOK, Running, clientVars
<1>2. /\ id = connector.fd /\ id = connector.attempts /\ connector.channel_ = "on"
      /\ connector.state_ = "kConnecting"
  BY <1>0, AttemptReported
<1>3. PICK y : y = HandleError(connector)
  OBVIOUS
<1>4. y = Retry(RemoveAndResetChannel(connector), id)
  BY <1>2, <1>3 DEF HandleError
<1>5. y.fault = "none" /\ y.state_ = "kDisconnected"
  BY <1>1, <1>4, RemoveChanges, RetryChanges
<1>6. HandleWrite(y, "failed") = y
  BY <1>5 DEF HandleWrite
<1>7. OnConnector(y)
  BY <1>3, <1>5, <1>6 DEF ConnectorError
<1>8. owners # {} => Outcome(connector, y)
  <2>1. owners # {} => (dtor = "loop" => ~connector.connect_)
    BY <1>1, NotStarted
  <2> QED
    BY <1>1, <1>2, <1>4, <2>1, FailedOutcome
<1>9. Outcome(connector, connector')
  BY <1>1, <1>7, <1>8, DeadOutcome
<1> QED
  BY <1>1, <1>9, CauseStep

LEMMA ConnectorWritableCause ==
  ASSUME ClientInv, CauseInv, ConnectorWritable
  PROVE  CauseInv'
<1>0. PICK id \in Fds : Take(Event("OUT", id))
  BY DEF ConnectorWritable
<1>1. /\ Running /\ TypeOK /\ connector \in Connectors(Fds) /\ connector.fault = "none"
      /\ batch' = batch /\ UNCHANGED userVars /\ owners' = owners
  BY <1>0 DEF ConnectorWritable, ClientInv, Take, TypeOK, Running
<1>2. /\ id = connector.fd /\ id = connector.attempts /\ connector.channel_ = "on"
      /\ connector.state_ = "kConnecting"
  BY <1>0, AttemptReported
<1>3. PICK after : after = HandleWrite(connector, kernel[id])
  OBVIOUS
<1>4. \/ alive /\ OnConnector(after) /\ NewConnection(id)
      \/ OnConnector(Fail(after, "use of a dead client")) /\ UNCHANGED clientVars
      \/ OnConnector(after) /\ UNCHANGED clientVars
  BY <1>2, <1>3 DEF ConnectorWritable
<1>5. \A fd \in Fds : conns'[fd] = "up" => conns[fd] = "up" \/ dtor # "loop"
  <2>1. CASE UNCHANGED clientVars
    BY <2>1 DEF clientVars
  <2>2. CASE alive
    BY <1>1, <2>2 DEF ClientInv, Dead
  <2> QED
    BY <1>4, <2>1, <2>2
<1>6. after \in Connectors(Fds) /\ (owners # {} => Outcome(connector, after))
  <2>1. CASE kernel[id] \in {"failed", "self"}
    <3>1. after = Retry(RemoveAndResetChannel(connector), id)
      BY <1>2, <1>3, <2>1 DEF HandleWrite
    <3>2. owners # {} => (dtor = "loop" => ~connector.connect_)
      BY <1>1, NotStarted
    <3>3. after \in Connectors(Fds)
      BY <1>1, <3>1, RemoveChanges, RetryChanges
    <3> QED
      BY <1>1, <1>2, <3>1, <3>2, <3>3, FailedOutcome
  <2>2. CASE kernel[id] \notin {"failed", "self"}
    <3>1. PICK y : y = RemoveAndResetChannel(connector)
      OBVIOUS
    <3>2. /\ y \in Connectors(Fds) /\ y.channel_ = "removed"
          /\ y.attempts = connector.attempts /\ y.open = connector.open
          /\ y.timers = connector.timers /\ y.fault = "none"
          /\ y.timerId_ = connector.timerId_
          /\ Waits(y.pending, "addTimer") <=> Waits(connector.pending, "addTimer")
      BY <1>1, <3>1, RemoveChanges
    <3>3. PICK S : S = IF connector.connect_ THEN y.open ELSE y.open \ {id}
      OBVIOUS
    <3>4. after = [y EXCEPT !.state_ = "kConnected", !.open = S]
      BY <1>2, <1>3, <2>2, <3>1, <3>3 DEF HandleWrite
    <3>5. S \in SUBSET Fds
      BY <3>2, <3>3, Fields
    <3>6. /\ after \in Connectors(Fds) /\ after.channel_ = "removed"
          /\ after.attempts = y.attempts /\ after.timers = y.timers
          /\ after.timerId_ = y.timerId_
          /\ after.fault = "none" /\ after.pending = y.pending
      BY <3>2, <3>4, <3>5 DEF Connectors
    <3>7. Kept(connector, after)
      BY <3>2, <3>6 DEF Kept
    <3>8. \A k : Cancels(after.pending, k) => Cancels(connector.pending, k)
      BY <1>1, <3>1, <3>6, RemoveCancels
    <3> QED
      BY <3>2, <3>6, <3>7, <3>8, KeptOutcome
  <2> QED
    BY <2>1, <2>2
<1>7. Outcome(connector, connector')
  <2>1. Outcome(connector, Fail(after, "use of a dead client"))
    BY <1>6, FailOutcome
  <2> QED
    BY <1>1, <1>4, <1>6, <2>1, DeadOutcome
<1> QED
  BY <1>1, <1>5, <1>7, CauseStep

LEMMA RemoveConnectionCause ==
  ASSUME ClientInv, CauseInv, RemoveConnection
  PROVE  CauseInv'
<1>1. PICK fd \in Fds :
        /\ Take(Event("close", fd))
        /\ conns' = [conns EXCEPT ![fd] = "down"]
        /\ \/ connector' = Fail(connector, "use of a dead client")
           \/ connector' = Fail(connector, "removeConnection")
           \/ connector' = QueueInLoop(connector, "connectionDestroyed", fd)
  BY Zenon DEF RemoveConnection
<1>2. /\ Running /\ TypeOK /\ connector \in Connectors(Fds) /\ connector.fault = "none"
      /\ batch' = batch /\ UNCHANGED userVars /\ owners' = owners
  BY <1>1 DEF RemoveConnection, ClientInv, Take, TypeOK, Running
<1>3. \A k \in Fds : conns'[k] = "up" => conns[k] = "up"
  BY <1>1, <1>2 DEF TypeOK
<1>4. Outcome(connector, connector')
  <2>1. CASE connector' = QueueInLoop(connector, "connectionDestroyed", fd)
    <3>1. Functor("connectionDestroyed", fd) \in FunctorSet(Fds)
      BY DEF Functor, FunctorSet
    <3>2. /\ SameButPending(connector, connector')
          /\ Waits(connector'.pending, "addTimer") => Waits(connector.pending, "addTimer")
      BY <1>2, <2>1, <3>1, QueueChanges
    <3>3. \A id : Cancels(connector'.pending, id) => Cancels(connector.pending, id)
      BY <1>2, <2>1, <3>1, QueueCancels
    <3>4. Kept(connector, connector') /\ connector'.fault = "none"
      BY <1>2, <3>2 DEF SameButPending, Kept
    <3> QED
      BY <3>2, <3>3, <3>4, KeptOutcome
  <2>2. CASE connector' = Fail(connector, "use of a dead client")
    BY <1>2, <2>2, FailOutcome
  <2>3. CASE connector' = Fail(connector, "removeConnection")
    BY <1>2, <2>3, FailOutcome
  <2> QED
    BY <1>1, <2>1, <2>2, <2>3
<1> QED
  BY <1>2, <1>3, <1>4, CauseStep

LEMMA RestartCause ==
  ASSUME ClientInv, CauseInv, RestartConnector
  PROVE  CauseInv'
<1>1. /\ Running /\ TypeOK /\ batch' = batch /\ UNCHANGED userVars
      /\ owners' = owners /\ conns' = conns /\ phase = "restart"
      /\ connector \in Connectors(Fds) /\ connector.fault = "none"
      /\ connector.channel_ = "none" /\ connector.attempts # MaxAttempts
      /\ dtor # "loop"
  <2>1. /\ Running /\ TypeOK /\ batch' = batch /\ UNCHANGED userVars
        /\ owners' = owners /\ conns' = conns /\ phase = "restart"
        /\ connector \in Connectors(Fds) /\ connector.fault = "none"
    BY DEF RestartConnector, ClientInv, TypeOK, Running, clientVars
  <2>2. connector.channel_ = "none" /\ CanFail(connector.attempts) /\ dtor # "loop"
    BY <2>1 DEF ClientInv, Connection, Dead
  <2> QED
    BY <2>1, <2>2, BoundsAssumption DEF CanFail
<1>2. CASE connector' = Fail(connector, "use of a dead client")
  BY <1>1, <1>2, FailOutcome, CauseStep
<1>3. ASSUME NEW r \in ResultsOf(connector.attempts + 1), connector' = Restart(connector, r)
      PROVE  CauseInv'
  <2>1. PICK x : x = [connector EXCEPT !.state_ = "kDisconnected", !.connect_ = TRUE,
                                       !.retryDelay_ = kInitRetryDelay]
    OBVIOUS
  <2>2. /\ x \in Connectors(Fds) /\ x.channel_ = connector.channel_
        /\ x.attempts = connector.attempts /\ x.pending = connector.pending
        /\ x.fault = "none" /\ x.timers = connector.timers
        /\ x.timerId_ = connector.timerId_
    <3>1. kInitRetryDelay \in kInitRetryDelay..kMaxRetryDelay
      BY DelayAssumption
    <3> QED
      BY <1>1, <2>1, <3>1 DEF Connectors
  <2>3. Kept(connector, x)
    BY <2>2 DEF Kept
  <2>4. connector' = StartInLoop(x, r) /\ r \in ResultsOf(x.attempts + 1)
    BY <1>3, <2>1, <2>2 DEF Restart
  <2>5. Outcome(connector, StartInLoop(x, r))
    <3>1. Attempt
      BY <1>1 DEF ClientInv
    <3> QED
      BY <1>1, <2>2, <2>3, <2>4, <3>1, StartOutcome
  <2> QED
    BY <1>1, <2>4, <2>5, CauseStep
<1> QED
  BY <1>2, <1>3 DEF RestartConnector

\* From x to y a cancel() of timerId_ may be queued or done.
Called(x, y) ==
  /\ y.fault \notin {"cancelInLoop", "connection freed"}
  /\ y.fault = "none" =>
       /\ Kept(x, y)
       /\ \A id : Cancels(y.pending, id) => Cancels(x.pending, id) \/ id = x.timerId_
       /\ Waits(y.pending, "addTimer") => Waits(x.pending, "addTimer")

LEMMA CancelCalled ==
  ASSUME NEW x \in Connectors(Fds), x.fault = "none", NEW t \in {"loop", "other"},
         NEW y \in Cancel(x, t)
  PROVE  \/ y.fault = "cancelInLoop" /\ x.timers # {}
         \/ y \in Connectors(Fds) /\ y.fault = "none" /\ Called(x, y)
<1>1. CASE t = "loop"
  <2>1. y \in CancelTimer(x, x.timerId_)
    BY <1>1 DEF Cancel
  <2>2. CASE y.fault = "cancelInLoop" /\ x.timerId_ \in x.timers
    BY <2>2
  <2>3. CASE y = Expire(x, x.timerId_)
    BY <2>3, ExpireChanges DEF Called, Kept
  <2> QED
    BY <2>1, <2>2, <2>3, CancelChanges
<1>2. CASE t = "other"
  <2>1. y = QueueInLoop(x, "cancelInLoop", x.timerId_)
    BY <1>2 DEF Cancel
  <2>2. Functor("cancelInLoop", x.timerId_) \in FunctorSet(Fds)
    <3>1. x.timerId_ \in Fds \cup {0}
      BY Fields
    <3> QED
      BY <3>1 DEF Functor, FunctorSet
  <2>3. /\ y \in Connectors(Fds) /\ SameButPending(x, y)
        /\ Waits(y.pending, "addTimer") => Waits(x.pending, "addTimer")
    BY <2>1, <2>2, QueueChanges
  <2>4. \A id : Cancels(y.pending, id) => Cancels(x.pending, id) \/ id = x.timerId_
    BY <2>1, <2>2, QueueCancels
  <2>5. Kept(x, y) /\ y.fault = "none"
    BY <2>3 DEF SameButPending, Kept
  <2> QED
    BY <2>3, <2>4, <2>5 DEF Called
<1> QED
  BY <1>1, <1>2

LEMMA StopCalled ==
  ASSUME NEW x \in Connectors(Fds), x.fault = "none", NEW t \in {"loop", "other"},
         NEW y \in Stop(x, t)
  PROVE  \/ y.fault = "cancelInLoop" /\ x.timers # {}
         \/ Called(x, y)
<1>1. PICK z : z = [x EXCEPT !.connect_ = FALSE]
  OBVIOUS
<1>2. /\ z \in Connectors(Fds) /\ z.channel_ = x.channel_ /\ z.attempts = x.attempts
      /\ z.timers = x.timers /\ z.pending = x.pending /\ z.fault = "none"
      /\ z.timerId_ = x.timerId_
  BY <1>1 DEF Connectors
<1>3. y \in Cancel(z, t)
  BY <1>1 DEF Stop
<1>4. CASE y.fault = "cancelInLoop" /\ z.timers # {}
  BY <1>2, <1>4
<1>5. CASE Called(z, y)
  BY <1>2, <1>5 DEF Called, Kept
<1> QED
  BY <1>2, <1>3, <1>4, <1>5, CancelCalled

LEMMA LetGoCalled ==
  ASSUME TypeOK, Running, NEW who, NEW t \in {"loop", "other"}, LetGo(who, t)
  PROVE  \/ connector'.fault = "cancelInLoop" /\ connector.timers # {} /\ owners = {who}
         \/ Called(connector, connector')
<1>1. connector \in Connectors(Fds) /\ connector.fault = "none"
  BY DEF TypeOK, Running
<1>2. CASE connector' = connector
  BY <1>1, <1>2 DEF Called, Kept
<1>3. CASE owners = {who} /\ connector' \in Destructor(connector, t)
  <2>1. PICK z \in Cancel(connector, t) :
          connector' = IF z.fault = "none" /\ z.channel_ # "none"
                         THEN Fail(z, "~Connector") ELSE z
    BY <1>3 DEF Destructor
  <2>2. CASE z.fault = "cancelInLoop" /\ connector.timers # {}
    BY <1>3, <2>1, <2>2
  <2>3. CASE z \in Connectors(Fds) /\ z.fault = "none" /\ Called(connector, z)
    <3>1. CASE z.channel_ # "none"
      <4>1. connector' = Fail(z, "~Connector")
        BY <2>1, <2>3, <3>1
      <4>2. connector'.fault = "~Connector"
        BY <2>3, <4>1, FailTyped
      <4> QED
        BY <4>2 DEF Called
    <3>2. CASE z.channel_ = "none"
      BY <2>1, <2>3, <3>2
    <3> QED
      BY <3>1, <3>2
  <2> QED
    BY <1>1, <2>2, <2>3, CancelCalled
<1> QED
  BY <1>2, <1>3 DEF LetGo

(* What such a call keeps, when it notes that a retry timer is set.         *)
LEMMA CalledKeeps ==
  ASSUME ClientInv, CauseInv, Running, batch' = batch,
         retrying \/ connector.timers # {} => retrying',
         Called(connector, connector'), Running'
  PROVE  /\ Cancelled' /\ (Queued("addTimer")' => Queued("addTimer"))
         /\ connector'.timers \subseteq connector.timers
<1>1. /\ Cancelled /\ TypeOK
  BY DEF ClientInv, CauseInv
<1>2. /\ Kept(connector, connector')
      /\ \A id : Cancels(connector'.pending, id)
                   => Cancels(connector.pending, id) \/ id = connector.timerId_
      /\ Waits(connector'.pending, "addTimer") => Waits(connector.pending, "addTimer")
  BY DEF Called, Running
<1>3. Moved(connector, connector')
  BY <1>2, KeptMoved
<1>4. \A id : Asked(id)' => Asked(id) \/ id = connector.timerId_
  BY <1>2 DEF Asked
<1>5. Cancelled'
  BY <1>1, <1>3, <1>4, CancelledKeeps
<1>6. Queued("addTimer")' => Queued("addTimer")
  BY <1>2 DEF Queued
<1> QED
  BY <1>2, <1>5, <1>6 DEF Kept

(* A cancel() that fails, with the timer it has found.                      *)
LEMMA CancelFails ==
  ASSUME connector'.fault = "cancelInLoop",
         retrying' \/ (dtor' = "other" /\ found' = 0)
  PROVE  CauseInv'
  BY DEF CauseInv, CancelAssert, FreedByDtor, Running

(* Another fault.                                                           *)
LEMMA CallFails ==
  ASSUME Called(connector, connector'), connector'.fault # "none"
  PROVE  CauseInv'
  BY DEF Called, CauseInv, CancelAssert, FreedByDtor, Running

LEMMA UserConnectCause ==
  ASSUME ClientInv, CauseInv, NEW t \in {"loop", "other"}, UserConnect(t)
  PROVE  CauseInv'
<1>1. /\ Running /\ TypeOK /\ dtor = "no" /\ batch' = batch /\ conns' = conns
      /\ connector \in Connectors(Fds) /\ connector.fault = "none" /\ Attempt
  BY UserCodeGives DEF UserConnect, Inner
<1>2. /\ connector' \in Start(connector, t)
      /\ UNCHANGED <<owners, dtor, leaving, found, retrying>>
  BY DEF UserConnect
<1>3. PICK x : x = [connector EXCEPT !.connect_ = TRUE]
  OBVIOUS
<1>4. /\ x \in Connectors(Fds) /\ x.state_ = connector.state_
      /\ x.channel_ = connector.channel_ /\ x.attempts = connector.attempts
      /\ x.timers = connector.timers /\ x.timerId_ = connector.timerId_
      /\ x.pending = connector.pending /\ x.fault = "none"
  BY <1>1, <1>3 DEF Connectors
<1>5. Kept(connector, x)
  BY <1>4 DEF Kept
<1>6. Outcome(connector, connector')
  <2>1. CASE t = "other"
    <3>1. connector' = QueueInLoop(x, "startInLoop", 0)
      BY <1>2, <1>3, <2>1 DEF Start
    <3>2. Functor("startInLoop", 0) \in FunctorSet(Fds)
      BY DEF Functor, FunctorSet
    <3>3. /\ SameButPending(x, connector')
          /\ Waits(connector'.pending, "addTimer") => Waits(connector.pending, "addTimer")
      BY <1>4, <3>1, <3>2, QueueChanges
    <3>4. \A id : Cancels(connector'.pending, id) => Cancels(connector.pending, id)
      BY <1>4, <3>1, <3>2, QueueCancels
    <3>5. Kept(connector, connector') /\ connector'.fault = "none"
      BY <1>4, <3>3 DEF SameButPending, Kept
    <3> QED
      BY <3>3, <3>4, <3>5, KeptOutcome
  <2>2. CASE t = "loop"
    <3>1. PICK r \in ResultsOf(connector.attempts + 1) : connector' = StartInLoop(x, r)
      BY <1>2, <1>3, <2>2 DEF Start
    <3>2. x.state_ = "kDisconnected" => x.channel_ # "on" /\ x.attempts # MaxAttempts
      BY <1>1, <1>4 DEF Attempt
    <3>3. r \in ResultsOf(x.attempts + 1)
      BY <1>4
    <3>4. dtor = "loop" => ~x.connect_
      BY <1>1
    <3> QED
      BY <1>1, <1>4, <1>5, <3>1, <3>2, <3>3, <3>4, StartOutcome
  <2> QED
    BY <2>1, <2>2
<1> QED
  BY <1>1, <1>2, <1>6, CauseCall

LEMMA UserDisconnectCause ==
  ASSUME ClientInv, CauseInv, NEW t \in {"loop", "other"}, UserDisconnect(t)
  PROVE  CauseInv'
<1>1. /\ Running /\ connector' = connector /\ owners' = owners /\ batch' = batch
      /\ conns' = conns /\ UNCHANGED userVars /\ connector.fault = "none"
  BY DEF UserDisconnect, UserCode, loopVars, Running
<1> QED
  BY <1>1, SameOutcome, CauseStep

LEMMA UserStopCause ==
  ASSUME ClientInv, CauseInv, NEW t \in {"loop", "other"}, UserStop(t)
  PROVE  CauseInv'
<1>1. /\ Running /\ TypeOK /\ dtor = "no" /\ batch' = batch
      /\ connector \in Connectors(Fds) /\ connector.fault = "none"
  BY UserCodeGives DEF UserStop
<1>2. /\ connector' \in Stop(connector, t) /\ retrying' = (retrying \/ connector.timers # {})
      /\ UNCHANGED <<owners, dtor, leaving, found>>
  BY DEF UserStop
<1>3. CASE connector'.fault = "cancelInLoop" /\ connector.timers # {}
  BY <1>2, <1>3, CancelFails
<1>4. CASE Called(connector, connector')
  <2>1. ASSUME Running' PROVE Owners' /\ Cancelled'
    <3>1. Cancelled' /\ (Queued("addTimer")' => Queued("addTimer"))
      BY <1>1, <1>2, <1>4, <2>1, CalledKeeps
    <3> QED
      BY <1>1, <1>2, <3>1 DEF CauseInv, Owners
  <2>2. CASE connector'.fault = "none"
    BY <2>1, <2>2 DEF CauseInv, CancelAssert, FreedByDtor, Running
  <2> QED
    BY <1>4, <2>2, CallFails
<1> QED
  BY <1>1, <1>2, <1>3, <1>4, StopCalled

LEMMA RemoveConnectorCause ==
  ASSUME ClientInv, CauseInv, RemoveConnector
  PROVE  CauseInv'
<1>1. /\ Running /\ TypeOK /\ connector \in Connectors(Fds) /\ connector.fault = "none"
      /\ batch' = batch /\ UNCHANGED userVars /\ conns' = conns /\ LetGo("timer", "loop")
  BY DEF RemoveConnector, ClientInv, Take, TypeOK, Running, clientVars
<1>2. owners' \subseteq owners
  BY <1>1 DEF LetGo
<1>3. CASE /\ connector'.fault = "cancelInLoop" /\ connector.timers # {}
           /\ owners = {"timer"}
  <2>1. dtor # "no"
    BY <1>1, <1>3 DEF ClientInv, Dead
  <2>2. found = 0 /\ (dtor = "loop" => retrying)
    BY <1>1, <1>3 DEF CauseInv, Owners
  <2>3. retrying \/ (dtor = "other" /\ found = 0)
    BY <1>1, <2>1, <2>2 DEF TypeOK
  <2> QED
    BY <1>1, <1>3, <2>3, CancelFails DEF userVars
<1>4. CASE connector'.fault = "~Connector"
  <2>1. Outcome(connector, connector')
    BY <1>4 DEF Outcome
  <2> QED
    BY <1>1, <1>2, <2>1, CauseStep
<1>5. CASE connector' = connector \/ connector' = Expire(connector, connector.timerId_)
  <2>1. /\ Kept(connector, connector') /\ connector'.fault = "none"
        /\ connector'.pending = connector.pending
    BY <1>1, <1>5, ExpireChanges DEF Kept
  <2>2. Outcome(connector, connector')
    BY <2>1, KeptOutcome
  <2> QED
    BY <1>1, <1>2, <2>2, CauseStep
<1> QED
  BY <1>1, <1>3, <1>4, <1>5, LetGoChanges

LEMMA RunAddTimerCause ==
  ASSUME ClientInv, CauseInv, RunAddTimer
  PROVE  CauseInv'
<1>1. /\ Running /\ TypeOK /\ Owners /\ Cancelled /\ UNCHANGED userVars
      /\ connector' = connector /\ conns' = conns /\ batch \in Seq(FunctorSet(Fds))
      /\ batch # <<>> /\ batch' = Tail(batch) /\ Head(batch).op = "addTimer"
      /\ connector.fault = "none"
  BY DEF RunAddTimer, Run, ClientInv, CauseInv, TypeOK, Running, clientVars
<1>2. found = 0
  BY <1>1, TailWaits DEF Owners, Queued
<1>3. \A id : Asked(id)' => Asked(id)
  BY <1>1, TailCancels DEF Asked
<1>4. Moved(connector, connector')
  BY <1>1, KeptMoved DEF Kept
<1>5. Cancelled'
  BY <1>1, <1>3, <1>4, CancelledKeeps DEF userVars
<1>6. Owners'
  BY <1>1, <1>2 DEF Owners, userVars
<1> QED
  BY <1>1, <1>5, <1>6 DEF CauseInv, CancelAssert, FreedByDtor

(* ~TcpClient() on the loop's thread notes the timers that are set and the  *)
(* connection that it leaves.                                               *)
LEMMA UserDestroyCause ==
  ASSUME ClientInv, CauseInv, UserDestroy
  PROVE  CauseInv'
<1>1. /\ Inner /\ Running /\ TypeOK /\ dtor = "no" /\ owners = {"client"} /\ alive
      /\ batch' = batch /\ conns' = conns
      /\ connector \in Connectors(Fds) /\ connector.fault = "none"
  BY UserCodeGives DEF UserDestroy
<1>2. /\ Destroy /\ dtor' = "loop" /\ leaving' = "done" /\ found' = connection_
      /\ retrying' = (retrying \/ connector.timers # {})
  BY DEF UserDestroy
<1>3. \/ connector'.fault = "cancelInLoop" /\ connector.timers # {}
      \/ Called(connector, connector')
  <2>1. CASE connection_ # 0
    BY <1>1, <1>2, <2>1, LetGoCalled DEF Destroy
  <2>2. CASE connection_ = 0
    BY <1>1, <1>2, <2>2, StopCalled DEF Destroy
  <2> QED
    BY <2>1, <2>2
<1>4. CASE connector'.fault = "cancelInLoop" /\ connector.timers # {}
  BY <1>2, <1>4, CancelFails
<1>5. CASE Called(connector, connector') /\ connector'.fault # "none"
  BY <1>5, CallFails
<1>6. CASE Called(connector, connector') /\ connector'.fault = "none"
  <2>1. /\ Cancelled' /\ (Queued("addTimer")' => Queued("addTimer"))
        /\ connector'.timers \subseteq connector.timers
    BY <1>1, <1>2, <1>6, CalledKeeps DEF Running
  <2>2. ~Queued("addTimer")
    BY <1>1 DEF Inner, Callbacks
  <2>3. \A fd \in Fds : conns[fd] = "up" => connection_ = fd
    BY <1>1 DEF Inner, Connection
  <2>4. "timer" \in owners' => connection_ = 0
    BY <1>1, <1>2 DEF Destroy, LetGo
  <2>5. connector'.timers # {} => retrying'
    BY <1>2, <2>1
  <2>6. Owners'
    BY <1>1, <1>2, <2>1, <2>2, <2>3, <2>4, <2>5, FdsNat DEF Owners
  <2> QED
    BY <1>6, <2>1, <2>6 DEF CauseInv, CancelAssert, FreedByDtor
<1> QED
  BY <1>3, <1>4, <1>5, <1>6

LEMMA BeginDestroyCause ==
  ASSUME ClientInv, CauseInv, BeginDestroy
  PROVE  CauseInv'
<1>1. /\ Inner /\ Running /\ TypeOK /\ dtor = "no" /\ owners = {"client"}
      /\ batch' = batch /\ connector.fault = "none" /\ Cancelled
  BY UserCodeGives DEF BeginDestroy, CauseInv
<1>2. /\ dtor' = "other" /\ leaving' = "read" /\ connector' = connector
      /\ owners' = owners /\ retrying' = retrying
  BY DEF BeginDestroy
<1>3. ~Queued("addTimer")' /\ \A id : Asked(id)' <=> Asked(id)
  BY <1>1, <1>2 DEF Inner, Callbacks, Queued, Asked
<1>4. Owners'
  BY <1>1, <1>2, <1>3 DEF Owners
<1>5. Moved(connector, connector')
  BY <1>2, KeptMoved DEF Kept
<1>6. Cancelled'
  BY <1>1, <1>2, <1>3, <1>5, CancelledKeeps
<1> QED
  BY <1>1, <1>2, <1>4, <1>6 DEF CauseInv, CancelAssert, FreedByDtor

(* A step of that destructor notes the timers too.                          *)
LEMMA LeaveNotes ==
  ASSUME ClientInv, NEW from \in {"read", "timer", "members"}, NEW to, Leave(from, to)
  PROVE  /\ Running /\ TypeOK /\ dtor = "other" /\ dtor' = "other" /\ batch' = batch
         /\ found' = found /\ leaving = from /\ leaving' = to
         /\ retrying' = (retrying \/ connector.timers # {})
         /\ connector \in Connectors(Fds) /\ connector.fault = "none"
<1>1. dtor' = "other" /\ TypeOK
  BY LeaveGives
<1> QED
  BY <1>1 DEF Leave, loopVars, TypeOK, Running

(* queueInLoop() of a functor that cancels nothing.                         *)
LEMMA DtorQueueKeeps ==
  ASSUME ClientInv, CauseInv, Running, batch' = batch, retrying => retrying',
         NEW op \in {"setCloseCallback", "addTimer"}, NEW arg \in Fds \cup {0},
         connector' = QueueInLoop(connector, op, arg)
  PROVE  /\ Cancelled' /\ connector'.fault = "none"
         /\ op # "addTimer" => (Queued("addTimer")' => Queued("addTimer"))
<1>1. /\ connector \in Connectors(Fds) /\ connector.fault = "none" /\ TypeOK /\ Cancelled
  BY DEF ClientInv, CauseInv, TypeOK, Running
<1>2. Functor(op, arg) \in FunctorSet(Fds)
  BY DEF Functor, FunctorSet
<1>3. /\ SameButPending(connector, connector')
      /\ Waits(connector'.pending, "addTimer") <=>
           op = "addTimer" \/ Waits(connector.pending, "addTimer")
  <2>1. /\ SameButPending(connector, QueueInLoop(connector, op, arg))
        /\ Waits(QueueInLoop(connector, op, arg).pending, "addTimer") <=>
             "addTimer" = op \/ Waits(connector.pending, "addTimer")
    BY <1>1, <1>2, QueueChanges
  <2> QED
    BY <2>1
<1>4. \A id : Cancels(connector'.pending, id) => Cancels(connector.pending, id)
  BY <1>1, <1>2, QueueCancels
<1>5. Moved(connector, connector') /\ connector'.fault = "none"
  BY <1>1, <1>3, KeptMoved DEF SameButPending, Kept
<1>6. \A id : Asked(id)' => Asked(id)
  BY <1>4 DEF Asked
<1>7. Cancelled'
  BY <1>1, <1>5, <1>6, CancelledKeeps
<1> QED
  BY <1>3, <1>5, <1>7 DEF Queued

LEMMA LeaveConnectionCause ==
  ASSUME ClientInv, CauseInv, LeaveConnection
  PROVE  CauseInv'
<1>1. owners' = owners
  BY DEF LeaveConnection
<1>2. CASE /\ Leave("read", "members")
           /\ connector' = QueueInLoop(connector, "setCloseCallback", found)
  <2>1. /\ Running /\ TypeOK /\ dtor' = "other" /\ batch' = batch /\ found' = found
        /\ leaving' = "members" /\ retrying' = (retrying \/ connector.timers # {})
    BY <1>2, LeaveNotes
  <2>2. found \in Fds \cup {0}
    BY <2>1 DEF TypeOK
  <2>3. /\ Cancelled' /\ connector'.fault = "none"
        /\ Queued("addTimer")' => Queued("addTimer")
    BY <1>2, <2>1, <2>2, DtorQueueKeeps
  <2>4. Owners'
    BY <1>1, <2>1, <2>3 DEF CauseInv, Owners
  <2> QED
    BY <2>3, <2>4 DEF CauseInv, CancelAssert, FreedByDtor
<1>3. CASE found = 0 /\ Leave("read", "timer") /\ connector' \in Stop(connector, "other")
  <2>1. /\ Running /\ TypeOK /\ dtor' = "other" /\ batch' = batch /\ found' = 0
        /\ leaving' = "timer" /\ retrying' = (retrying \/ connector.timers # {})
        /\ connector \in Connectors(Fds) /\ connector.fault = "none"
    BY <1>3, LeaveNotes
  <2>2. Owners'
    BY <2>1 DEF Owners
  <2>3. CASE connector'.fault = "cancelInLoop" /\ connector.timers # {}
    BY <2>1, <2>3, CancelFails
  <2>4. CASE Called(connector, connector') /\ connector'.fault # "none"
    BY <2>4, CallFails
  <2>5. CASE Called(connector, connector') /\ connector'.fault = "none"
    <3>1. Cancelled'
      BY <2>1, <2>5, CalledKeeps DEF Running
    <3> QED
      BY <2>2, <2>5, <3>1 DEF CauseInv, CancelAssert, FreedByDtor
  <2> QED
    BY <1>3, <2>1, <2>3, <2>4, <2>5, StopCalled
<1> QED
  BY <1>2, <1>3 DEF LeaveConnection

LEMMA LeaveTimerCause ==
  ASSUME ClientInv, CauseInv, LeaveTimer
  PROVE  CauseInv'
<1>1. /\ Running /\ TypeOK /\ dtor' = "other" /\ batch' = batch /\ found' = found
      /\ leaving = "timer" /\ retrying' = (retrying \/ connector.timers # {})
  BY LeaveNotes DEF LeaveTimer
<1>2. connector' = QueueInLoop(connector, "addTimer", 0)
  BY DEF LeaveTimer
<1>3. Cancelled' /\ connector'.fault = "none"
  BY <1>1, <1>2, DtorQueueKeeps
<1>4. Owners'
  BY <1>1 DEF CauseInv, Owners
<1> QED
  BY <1>3, <1>4 DEF CauseInv, CancelAssert, FreedByDtor

LEMMA LeaveMembersCause ==
  ASSUME ClientInv, CauseInv, LeaveMembers
  PROVE  CauseInv'
<1>1. /\ Running /\ TypeOK /\ dtor' = "other" /\ batch' = batch /\ found' = found
      /\ leaving' = "done" /\ retrying' = (retrying \/ connector.timers # {})
  BY LeaveNotes DEF LeaveMembers
<1>2. LetGo("client", "other") /\ owners' \subseteq owners
  BY DEF LeaveMembers, LetGo
<1>3. CASE connector'.fault = "cancelInLoop" /\ connector.timers # {}
  BY <1>1, <1>3, CancelFails
<1>4. CASE Called(connector, connector') /\ connector'.fault # "none"
  BY <1>4, CallFails
<1>5. CASE Called(connector, connector') /\ connector'.fault = "none"
  <2>1. Cancelled' /\ (Queued("addTimer")' => Queued("addTimer"))
    BY <1>1, <1>5, CalledKeeps DEF Running
  <2>2. Owners'
    BY <1>1, <1>2, <2>1 DEF CauseInv, Owners
  <2> QED
    BY <1>5, <2>1, <2>2 DEF CauseInv, CancelAssert, FreedByDtor
<1> QED
  BY <1>1, <1>2, <1>3, <1>4, <1>5, LetGoCalled

(* A connection that neither the client nor a functor holds is one that a   *)
(* destructor has left.                                                     *)
LEMMA FreeConnectionCause ==
  ASSUME ClientInv, CauseInv, FreeConnection
  PROVE  CauseInv'
<1>1. PICK fd \in Fds : conns[fd] = "up" /\ connection_ # fd
  BY DEF FreeConnection
<1>2. /\ Running /\ TypeOK /\ connector' = Fail(connector, "connection freed")
      /\ UNCHANGED userVars
  BY DEF FreeConnection, ClientInv
<1>3. connector'.fault = "connection freed"
  BY <1>2, FailTyped DEF TypeOK
<1>4. dtor # "no"
  BY <1>1, <1>2 DEF ClientInv, Dead, Connection
<1>5. dtor = "loop" => found # 0
  BY <1>1, <1>2 DEF CauseInv, Owners
<1>6. FreedByDtor'
  BY <1>2, <1>4, <1>5 DEF FreedByDtor, userVars
<1> QED
  BY <1>3, <1>6 DEF CauseInv, CancelAssert, Running

LEMMA InitCause == Init => CauseInv
<1> SUFFICES ASSUME Init PROVE CauseInv
  OBVIOUS
<1>1. /\ connector.channel_ = "none" /\ connector.timers = {} /\ connector.timerId_ = 0
      /\ connector.pending = <<>> /\ connector.attempts = 0 /\ connector.fault = "none"
  BY DEF Init, NewConnector
<1>2. \A id : ~Asked(id)
  BY <1>1 DEF Init, Asked, Cancels
<1>3. Cancelled
  BY <1>1, <1>2 DEF Cancelled, Old
<1>4. ~Queued("addTimer")
  BY <1>1, EmptyWaits DEF Init, Queued
<1>5. Owners
  BY <1>4 DEF Init, Owners
<1> QED
  BY <1>1, <1>3, <1>5 DEF CauseInv, CancelAssert, FreedByDtor

LEMMA StutterCause == CauseInv /\ UNCHANGED vars => CauseInv'
<1> SUFFICES ASSUME CauseInv, UNCHANGED vars PROVE CauseInv'
  OBVIOUS
<1>1. /\ connector' = connector /\ owners' = owners /\ conns' = conns /\ batch' = batch
      /\ dtor' = dtor /\ leaving' = leaving /\ found' = found /\ retrying' = retrying
  BY DEF vars, clientVars, loopVars, userVars
<1> QED
  BY <1>1 DEF CauseInv, CancelAssert, FreedByDtor, Running, Owners, Cancelled, Asked, Queued

LEMMA NextCause == ClientInv /\ CauseInv /\ [Next]_vars => CauseInv'
<1> SUFFICES ASSUME ClientInv, CauseInv, [Next]_vars PROVE CauseInv'
  OBVIOUS
<1>1. CASE Settle \/ PeerClose \/ Elapse \/ Poll
  BY <1>1, QuietCause
<1>2. CASE Events
  BY <1>2, RetryTimerCause, RemoveConnectorCause, ConnectorWritableCause,
     ConnectorErrorCause, RemoveConnectionCause, RestartCause DEF Events
<1>3. CASE Functors
  BY <1>3, SwapCause, ConnectorFunctorCause, DestroyedCause, QuietCause,
     RunAddTimerCause DEF Functors
<1>4. CASE User
  BY <1>4, UserConnectCause, UserDisconnectCause, UserStopCause DEF User
<1>5. CASE Destruction
  BY <1>5, UserDestroyCause, BeginDestroyCause, LeaveConnectionCause, LeaveTimerCause,
     LeaveMembersCause, FreeConnectionCause DEF Destruction
<1>6. CASE UNCHANGED vars
  BY <1>6, StutterCause
<1> QED
  BY <1>1, <1>2, <1>3, <1>4, <1>5, <1>6 DEF Next

LEMMA AlwaysCauseInv == Spec => [](ClientInv /\ CauseInv)
<1>1. Init => ClientInv /\ CauseInv
  BY InitInv, InitCause
<1>2. (ClientInv /\ CauseInv) /\ [Next]_vars => (ClientInv /\ CauseInv)'
  BY NextKeeps, NextCause
<1> QED
  BY <1>1, <1>2, PTL DEF Spec

------------------------------------------------------------------------------
(* Whatever retries, stops, restarts and destructors there are, the members *)
(* of the client and of its connector have their types; the retry delay     *)
(* stays between kInitRetryDelayMs and kMaxRetryDelayMs.                    *)
THEOREM TypeCorrect == Spec => []TypeOK
<1>1. ClientInv => TypeOK
  BY DEF ClientInv
<1> QED
  BY <1>1, AlwaysClientInv, PTL

(* No socket of an attempt is leaked or closed twice: until an assert fails *)
(* every open one belongs to the channel of the attempt that goes on, or to *)
(* one TcpConnection, and never to both.                                    *)
THEOREM SocketsAlwaysOwned == Spec => []SocketsOwned
<1>1. ASSUME ClientInv PROVE SocketsOwned
  <2> SUFFICES ASSUME Running, NEW fd \in connector.open
               PROVE  (connector.channel_ = "on" /\ connector.fd = fd)
                        # (conns[fd] \in {"up", "down"})
    BY DEF SocketsOwned
  <2>1. Attempt /\ Sockets
    BY <1>1 DEF ClientInv
  <2>2. CASE connector.channel_ = "on" /\ connector.fd = fd
    <3>1. conns[fd] = "none"
      BY <2>1, <2>2 DEF Attempt
    <3>2. ~(conns[fd] \in {"up", "down"})
      BY <3>1
    <3> QED
      BY <2>2, <3>2
  <2>3. CASE ~(connector.channel_ = "on" /\ connector.fd = fd)
    <3>1. conns[fd] \in {"up", "down"}
      BY <2>1, <2>3 DEF Sockets
    <3> QED
      BY <2>3, <3>1
  <2> QED
    BY <2>2, <2>3
<1> QED
  BY <1>1, AlwaysClientInv, PTL

(* The asserts of Connector and of removeConnection() hold when connect()   *)
(* is called once, a client destroyed on its loop's thread is not called    *)
(* any more, ~Connector() finds no channel when the client was idle, the    *)
(* cancel() of stop() and of the destructors fails only for a retry timer   *)
(* that was set then, and only ~TcpClient frees a connection that is up.    *)
THEOREM FaultsHaveCauses == Spec => []FaultCauses
<1>1. ClientInv /\ CauseInv => FaultCauses
  BY DEF ClientInv, CallsRight, CauseInv, FaultCauses
<1> QED
  BY <1>1, AlwaysCauseInv, PTL

(* A step that makes a connection is one of the connector's channel, while  *)
(* connect_ of the connector is set.                                        *)
LEMMA MadeByConnector ==
  ASSUME ClientInv, ConnectorWritable, ~connector.connect_, connection_ = 0
  PROVE  connection_' = 0
<1> DEFINE fd == connector.fd
           after == HandleWrite(connector, kernel[fd])
<1>1. PICK id \in Fds : Take(Event("OUT", id))
  BY DEF ConnectorWritable
<1>2. /\ connector.state_ = "kConnecting" /\ fd \in Fds /\ connector \in Connectors(Fds)
      /\ connector.connect_ = FALSE
  BY <1>1, AttemptReported, Fields DEF ClientInv, TypeOK
<1>3. PICK y : y = RemoveAndResetChannel(connector)
  OBVIOUS
<1>4. y \in Connectors(Fds)
  BY <1>2, <1>3, RemoveChanges
<1>5. ~(after.state_ = "kConnected" /\ fd \in after.open)
  <2>1. CASE kernel[fd] \in {"failed", "self"}
    <3>1. after = Retry(y, fd)
      BY <1>2, <1>3, <2>1 DEF HandleWrite
    <3>2. Retry(y, fd).state_ = "kDisconnected"
      BY <1>2, <1>4, RetryChanges
    <3> QED
      BY <3>1, <3>2
  <2>2. CASE kernel[fd] \notin {"failed", "self"}
    <3>1. after = [y EXCEPT !.state_ = "kConnected", !.open = @ \ {fd}]
      BY <1>2, <1>3, <2>2 DEF HandleWrite
    <3>2. after.open = y.open \ {fd}
      BY <1>4, <3>1 DEF Connectors
    <3> QED
      BY <3>2
  <2> QED
    BY <2>1, <2>2
<1>6. UNCHANGED clientVars
  BY <1>5 DEF ConnectorWritable
<1> QED
  BY <1>6 DEF clientVars

(* A client stopped on its loop's thread gets no connection before it is    *)
(* told to connect again, whichever timer, queued start or attempt stop()   *)
(* has come across.                                                         *)
THEOREM StopAlwaysFinal == Spec => StopIsFinal
<1>1. ASSUME ClientInv, [Next]_vars
      PROVE  [stopped = "loop" /\ stopped' = "loop" /\ connection_ = 0
                => connection_' = 0]_vars
  <2> SUFFICES ASSUME stopped = "loop", connection_ = 0 PROVE connection_' = 0
    OBVIOUS
  <2>1. CASE ConnectorWritable
    <3>1. Running
      BY <2>1 DEF ConnectorWritable, Take
    <3>2. ~connector.connect_
      BY <1>1, <3>1 DEF ClientInv, Stopped
    <3> QED
      BY <1>1, <2>1, <3>2, MadeByConnector
  <2>2. CASE RemoveConnection
    BY <2>2 DEF RemoveConnection
  <2>3. CASE User
    BY <2>3 DEF User, UserConnect, UserDisconnect, UserStop
  <2>d. CASE Destruction
    BY <2>d DEF Destruction, UserDestroy, BeginDestroy, LeaveConnection, LeaveTimer,
                LeaveMembers, FreeConnection, clientVars
  <2>4. CASE Settle \/ PeerClose \/ Elapse \/ Poll
    BY <2>4 DEF Settle, PeerClose, Elapse, Poll, clientVars
  <2>5. CASE RetryTimer \/ RemoveConnector \/ ConnectorError \/ RestartConnector
    BY <2>5 DEF RetryTimer, RemoveConnector, ConnectorError, RestartConnector, clientVars
  <2>6. CASE Functors
    BY <2>6 DEF Functors, DoPendingFunctors, RunConnectorFunctor, RunConnectionDestroyed,
                RunSetCloseCallback, RunAddTimer, FunctorsDone, clientVars
  <2>7. CASE UNCHANGED vars
    BY <2>7 DEF vars, clientVars
  <2> QED
    BY <1>1, <2>1, <2>2, <2>3, <2>4, <2>5, <2>6, <2>7, <2>d DEF Next, Events
<1> QED
  BY <1>1, AlwaysClientInv, PTL DEF Spec, StopIsFinal
==============================================================================
