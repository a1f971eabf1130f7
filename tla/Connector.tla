------------------------------ MODULE Connector ------------------------------
(***************************************************************************)
(* chaonet::Connector (Connector.cpp) as operators on a record x of its    *)
(* state.  Beside the members, x holds the retry timers set in the loop,   *)
(* the functors the connector has queued, the sockets that are open, and   *)
(* the assert that failed.  A socket is the number of its attempt.         *)
(***************************************************************************)
EXTENDS Naturals, Sequences, FiniteSetsExt

CONSTANTS kInitRetryDelay, kMaxRetryDelay

ASSUME DelayAssumption ==
         /\ kInitRetryDelay \in Nat \ {0}
         /\ kMaxRetryDelay \in Nat
         /\ kInitRetryDelay <= kMaxRetryDelay

NewConnector ==
  [connect_ |-> FALSE, state_ |-> "kDisconnected", channel_ |-> "none",
   fd |-> 0, retryDelay_ |-> kInitRetryDelay, timerId_ |-> 0, timers |-> {},
   pending |-> <<>>, open |-> {}, attempts |-> 0, gaveUp |-> FALSE,
   fault |-> "none"]

\* A functor of the loop; arg is a timer or a socket.
Functor(op, arg) == [op |-> op, arg |-> arg]

QueueInLoop(x, op, arg) == [x EXCEPT !.pending = Append(@, Functor(op, arg))]

Fail(x, where) == [x EXCEPT !.fault = where]

\* connecting(), which asserts that there is no channel.
Connecting(x, fd) ==
  IF x.channel_ # "none"
    THEN Fail(x, "connecting")
    ELSE [x EXCEPT !.state_ = "kConnecting", !.channel_ = "on", !.fd = fd]

\* A plausible mistake: the socket of the failed attempt stays open.
RetryLeaks(x, fd) ==
  IF x.connect_
    THEN [x EXCEPT !.state_ = "kDisconnected", !.timers = @ \cup {fd},
                   !.timerId_ = fd]
    ELSE [x EXCEPT !.state_ = "kDisconnected"]

\* A plausible mistake: a timer is set whatever was stopped.
RetryAlways(x, fd) ==
  [x EXCEPT !.open = @ \ {fd}, !.state_ = "kDisconnected",
            !.timers = @ \cup {fd}, !.timerId_ = fd,
            !.retryDelay_ = Min({2 * @, kMaxRetryDelay})]

\* retry(): the timer of the next attempt is named after the failed one.
Retry(x, fd) ==
  LET y == [x EXCEPT !.open = @ \ {fd}, !.state_ = "kDisconnected"]
  IN  IF x.connect_
        THEN [y EXCEPT !.timers = @ \cup {fd}, !.timerId_ = fd,
                       !.retryDelay_ = Min({2 * @, kMaxRetryDelay})]
        ELSE y

\* What ::connect() returns, by the class the switch puts it in.
Results == {"EINPROGRESS", "EAGAIN", "EACCES"}

\* connect(): a fatal result closes the socket and sets no timer.
Connect(x, result) ==
  LET fd == x.attempts + 1
      y == [x EXCEPT !.attempts = fd, !.open = @ \cup {fd}]
  IN  CASE result = "EINPROGRESS" -> Connecting(y, fd)
        [] result = "EAGAIN" -> Retry(y, fd)
        [] result = "EACCES" -> [x EXCEPT !.attempts = fd, !.gaveUp = TRUE]

\* A plausible mistake: an attempt is made whatever was stopped.
StartInLoopAlways(x, result) ==
  IF x.state_ # "kDisconnected" THEN Fail(x, "startInLoop")
                                ELSE Connect(x, result)

StartInLoop(x, result) ==
  IF x.state_ # "kDisconnected"
    THEN Fail(x, "startInLoop")
    ELSE IF x.connect_ THEN Connect(x, result) ELSE x

\* A plausible mistake: startInLoop() is not called.
RestartLater(x, result) ==
  [x EXCEPT !.state_ = "kDisconnected", !.connect_ = TRUE,
            !.retryDelay_ = kInitRetryDelay]

Restart(x, result) ==
  StartInLoop([x EXCEPT !.state_ = "kDisconnected", !.connect_ = TRUE,
                        !.retryDelay_ = kInitRetryDelay], result)

\* A timer that has expired is not set any more.
Expire(x, id) == [x EXCEPT !.timers = @ \ {id}]

\* cancelInLoop() of the timer queue.  Its last assert fails when the timer was
\* set and no other timer of the loop has a greater address.
CancelTimer(x, id) ==
  {Expire(x, id)} \cup (IF id \in x.timers THEN {Fail(x, "cancelInLoop")} ELSE {})

\* loop_->cancel(timerId_), called by thread t.
Cancel(x, t) == IF t = "loop" THEN CancelTimer(x, x.timerId_)
                              ELSE {QueueInLoop(x, "cancelInLoop", x.timerId_)}

Stop(x, t) == Cancel([x EXCEPT !.connect_ = FALSE], t)

\* The part of removeAndResetChannel() the loop must finish is resetChannel().
RemoveAndResetChannel(x) ==
  QueueInLoop([x EXCEPT !.channel_ = "removed"], "resetChannel", 0)

\* A plausible mistake: the channel stays.
ResetChannelNot(x) == x

ResetChannel(x) == [x EXCEPT !.channel_ = "none", !.fd = 0]

\* A plausible mistake: a socket is handed on after stop().
HandleWriteStopped(x, kernel) ==
  IF x.state_ # "kConnecting" THEN x
  ELSE IF kernel = "established"
         THEN [RemoveAndResetChannel(x) EXCEPT !.state_ = "kConnected"]
         ELSE Retry(RemoveAndResetChannel(x), x.fd)

\* handleWrite(); the caller makes the new connection of a socket that is left
\* open.
HandleWrite(x, kernel) ==
  LET y == RemoveAndResetChannel(x)
  IN  IF x.state_ # "kConnecting"
        THEN IF x.state_ = "kDisconnected" THEN x ELSE Fail(x, "handleWrite")
        ELSE IF kernel \in {"failed", "self"}
               THEN Retry(y, x.fd)
               ELSE [y EXCEPT !.state_ = "kConnected",
                              !.open = IF x.connect_ THEN @ ELSE @ \ {x.fd}]

\* A plausible mistake: a failed attempt is the last one.
HandleErrorGivesUp(x) ==
  [RemoveAndResetChannel(x) EXCEPT !.state_ = "kDisconnected", !.open = @ \ {x.fd}]

HandleError(x) ==
  IF x.state_ # "kConnecting" THEN Fail(x, "handleError")
                              ELSE Retry(RemoveAndResetChannel(x), x.fd)

\* The destructor cancels the timer and asserts that there is no channel.
Destructor(x, t) ==
  {IF y.fault = "none" /\ y.channel_ # "none" THEN Fail(y, "~Connector") ELSE y :
     y \in Cancel(x, t)}

FunctorSet(fds) ==
  [op : {"resetChannel", "startInLoop", "cancelInLoop", "connectionDestroyed",
         "setCloseCallback", "addTimer"},
   arg : fds \cup {0}]

Connectors(fds) ==
  [connect_ : BOOLEAN, state_ : {"kDisconnected", "kConnecting", "kConnected"},
   channel_ : {"none", "on", "removed"}, fd : fds \cup {0},
   retryDelay_ : kInitRetryDelay..kMaxRetryDelay, timerId_ : fds \cup {0},
   timers : SUBSET fds,
   pending : Seq(FunctorSet(fds)),
   open : SUBSET fds, attempts : fds \cup {0}, gaveUp : BOOLEAN,
   fault : {"none", "connecting", "startInLoop", "handleWrite", "handleError",
            "~Connector", "cancelInLoop", "removeConnection",
            "use of a dead connector", "use of a dead client",
            "connection freed"}]
==============================================================================
