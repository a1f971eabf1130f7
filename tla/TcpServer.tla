------------------------------ MODULE TcpServer ------------------------------
(***************************************************************************)
(* chaonet::TcpServer with its Acceptor and EventLoopThreadPool: from the  *)
(* backlog to an I/O loop, and back to the base loop when the connection   *)
(* goes down.  A connection is its id; its own behaviour is in module      *)
(* TcpConnection.  A loop is its first-in first-out functors (module       *)
(* Mailbox) and the events of the poll it is working off.  Loop 0 is the   *)
(* base loop, 1 to numThreads_ are the pool's.  A TcpConnection is freed   *)
(* with its last shared_ptr, and its descriptor with it.                   *)
(***************************************************************************)
EXTENDS Naturals, Sequences, FiniteSets

CONSTANTS MaxThreads,  \* bound on setThreadNum()
          MaxConns,    \* bound on the clients that arrive
          MaxFds       \* descriptors there are for connections

ASSUME BoundsAssumption == MaxThreads \in Nat /\ MaxConns \in Nat /\ MaxFds \in Nat

VARIABLES
  server,       \* "alive", "dying" in its destructor, or "dead"
  numThreads_, started_, next_, listening_, nextConnId_, connections_,
  loopOf,       \* the loop newConnection() chose for each connection
  conn,         \* per id: what its TcpConnection has come to
  kept,         \* the connections of which user code keeps the pointer
  queue,        \* per loop: its functors
  active,       \* per loop: connections whose close it is about to handle
  closed,       \* connections that the peer has closed
  backlog,      \* clients in the listening socket's queue
  arrived,      \* clients so far
  openAtDtor,   \* ~TcpServer() found connections
  fault         \* the assert that failed or the dead object that was used

serverVars == <<server, numThreads_, started_, next_, listening_, nextConnId_,
                connections_, loopOf, openAtDtor>>
kernelVars == <<closed, backlog, arrived>>
vars == <<serverVars, conn, kept, queue, active, kernelVars, fault>>

Ids == 1..MaxConns
Loops == 0..MaxThreads
Base == 0

Functor(op, id) == [op |-> op, id |-> id]

\* Each functor binds the connection's shared_ptr.
Owned(id) == \/ id \in connections_ \/ id \in kept
             \/ \E l \in Loops : \E i \in DOMAIN queue[l] : queue[l][i].id = id

\* The TcpConnection exists, and its descriptor is open.
Alive(id) == conn[id] # "none" /\ Owned(id)

\* The acceptor's socket is bound; nobody can connect before listen().
AcceptorInit == listening_ = FALSE /\ backlog = 0

\* setThreadNum() comes before start().
PoolInit == started_ = FALSE /\ next_ = 0 /\ numThreads_ \in 0..MaxThreads

Init == /\ AcceptorInit /\ PoolInit
        /\ server = "alive" /\ nextConnId_ = 1
        /\ connections_ = {} /\ loopOf = [id \in Ids |-> Base]
        /\ conn = [id \in Ids |-> "none"] /\ kept = {}
        /\ queue = [l \in Loops |-> <<>>]
        /\ active = [l \in Loops |-> {}]
        /\ closed = {} /\ arrived = 0
        /\ openAtDtor = FALSE /\ fault = "none"

\* A loop's thread can take a step: the pool's loops exist from start() until
\* they are joined, and the base loop waits in the destructor meanwhile.
Running(l) == /\ fault = "none"
              /\ IF l = Base THEN server # "dying"
                             ELSE started_ /\ l <= numThreads_ /\ server # "dead"

------------------------------------------------------------------------------
\* Acceptor::listen() on the base loop's thread.
Listen == listening_' = TRUE

\* start() on the base loop's thread; a second call changes nothing.
Start == /\ Running(Base) /\ server = "alive"
         /\ ~started_ /\ started_' = TRUE
         /\ Listen
         /\ UNCHANGED <<server, numThreads_, next_, nextConnId_, connections_,
                        loopOf, openAtDtor, conn, kept, queue, active,
                        kernelVars, fault>>

\* Plausible mistakes: next_ goes back to 0 one connection too late, or stays.
AfterLate(next) == IF next + 1 > numThreads_ THEN 0 ELSE next + 1
AfterSame(next) == next

\* EventLoopThreadPool::getNextLoop(): the loop, and next_ after it.
NextLoop == IF numThreads_ = 0 THEN Base ELSE next_ + 1
After(next) == IF numThreads_ = 0 THEN 0
               ELSE IF next + 1 >= numThreads_ THEN 0 ELSE next + 1

\* runInLoop() of connectionEstablished(): at once on the base loop's thread.
NewConnection ==
  LET id == nextConnId_
      l == NextLoop
  IN  /\ nextConnId_' = id + 1
      /\ next_' = After(next_)
      /\ loopOf' = [loopOf EXCEPT ![id] = l]
      /\ connections_' = connections_ \cup {id}
      /\ conn' = [conn EXCEPT ![id] = IF l = Base THEN "up" ELSE "connecting"]
      /\ queue' = IF l = Base THEN queue ELSE
           [queue EXCEPT ![l] = Append(@, Functor("connectionEstablished", id))]

\* sockets::accept() takes a client from the backlog, unless the client has
\* gone or there is no descriptor for it.
Accept == {"ECONNABORTED",
           IF Cardinality({id \in Ids : Alive(id)}) < MaxFds THEN "connfd" ELSE "EMFILE"}

\* A plausible mistake: the acceptor is disabled when accept() fails.
HandleReadDisables ==
  /\ Running(Base) /\ server = "alive"
  /\ listening_ /\ backlog > 0 /\ active[Base] = {}
  /\ \E r \in Accept :
       /\ listening_' = (r = "connfd")
       /\ backlog' = IF r = "EMFILE" THEN backlog ELSE backlog - 1
       /\ IF r = "connfd" THEN NewConnection
          ELSE UNCHANGED <<nextConnId_, next_, loopOf, connections_, conn, queue>>
  /\ UNCHANGED <<server, numThreads_, started_, openAtDtor, kept, active, closed,
                 arrived, fault>>

\* Acceptor::handleRead() takes one client; with EMFILE the client stays in
\* the backlog and the descriptor readable.
HandleRead ==
  /\ Running(Base) /\ server = "alive"
  /\ listening_ /\ backlog > 0 /\ active[Base] = {}
  /\ \E r \in Accept :
       /\ backlog' = IF r = "EMFILE" THEN backlog ELSE backlog - 1
       /\ IF r = "connfd" THEN NewConnection
          ELSE UNCHANGED <<nextConnId_, next_, loopOf, connections_, conn, queue>>
  /\ UNCHANGED <<server, numThreads_, started_, listening_, openAtDtor, kept,
                 active, closed, arrived, fault>>

\* poll() of loop l returns the connections there is a close to handle for.
Poll(l) ==
  /\ Running(l) /\ active[l] = {}
  /\ active' = [active EXCEPT ![l] =
       {id \in closed : loopOf[id] = l /\ Alive(id) /\ conn[id] = "up"}]
  /\ active' # active
  /\ UNCHANGED <<serverVars, conn, kept, queue, kernelVars, fault>>

\* A plausible mistake: connectionDestroyed() is not queued.
RemoveConnectionInLoopForgets(id, q) ==
  /\ connections_' = connections_ \ {id}
  /\ queue' = q
  /\ UNCHANGED fault

\* removeConnectionInLoop() on queues q: it asserts that the map had the
\* connection, and hands its pointer to connectionDestroyed().
RemoveConnectionInLoop(id, q) ==
  IF server # "alive" THEN fault' = "server" /\ queue' = q /\ UNCHANGED connections_
  ELSE IF id \notin connections_
    THEN fault' = "removeConnectionInLoop" /\ queue' = q /\ UNCHANGED connections_
    ELSE /\ connections_' = connections_ \ {id}
         /\ queue' = [q EXCEPT ![loopOf[id]] = Append(@, Functor("connectionDestroyed", id))]
         /\ UNCHANGED fault

\* A plausible mistake: the channel is not disabled and reports the close again.
HandleCloseTwice(l) ==
  \E id \in active[l] :
    /\ Running(l)
    /\ UNCHANGED active
    /\ conn' = [conn EXCEPT ![id] = "down"]
    /\ RemoveConnectionInLoop(id, queue)
    /\ UNCHANGED <<server, numThreads_, started_, next_, listening_, nextConnId_,
                   loopOf, openAtDtor, kept, kernelVars>>

\* handleClose() through the channel's raw pointer, and removeConnection().
HandleClose(l) ==
  \E id \in active[l] :
    /\ Running(l)
    /\ active' = [active EXCEPT ![l] = @ \ {id}]
    /\ IF ~Alive(id) THEN /\ fault' = "connection"
                          /\ UNCHANGED <<conn, connections_, queue>>
       ELSE /\ conn' = [conn EXCEPT ![id] = "down"]
            /\ IF server = "dead" THEN fault' = "server" /\ UNCHANGED <<connections_, queue>>
               ELSE IF l = Base THEN RemoveConnectionInLoop(id, queue)
               ELSE /\ queue' = [queue EXCEPT ![Base] =
                                   Append(@, Functor("removeConnectionInLoop", id))]
                    /\ UNCHANGED <<connections_, fault>>
    /\ UNCHANGED <<server, numThreads_, started_, next_, listening_, nextConnId_,
                   loopOf, openAtDtor, kept, kernelVars>>

\* The functors of loop l, once its events are handled.
Run(l, op) == /\ Running(l) /\ active[l] = {}
              /\ queue[l] # <<>> /\ Head(queue[l]).op = op
              /\ UNCHANGED <<server, numThreads_, started_, next_, listening_,
                             nextConnId_, loopOf, openAtDtor, active, kernelVars>>

Popped(l) == [queue EXCEPT ![l] = Tail(@)]

RunConnectionEstablished(l) ==
  /\ Run(l, "connectionEstablished")
  /\ queue' = Popped(l)
  /\ conn' = [conn EXCEPT ![Head(queue[l]).id] = "up"]
  /\ UNCHANGED <<connections_, kept, fault>>

RunRemoveConnectionInLoop ==
  /\ Run(Base, "removeConnectionInLoop")
  /\ RemoveConnectionInLoop(Head(queue[Base]).id, Popped(Base))
  /\ UNCHANGED <<conn, kept>>

\* A plausible mistake: the functor is dropped without the call.
RunConnectionDestroyedSkips(l) ==
  /\ Run(l, "connectionDestroyed")
  /\ queue' = Popped(l)
  /\ UNCHANGED <<conn, connections_, kept, fault>>

RunConnectionDestroyed(l) ==
  /\ Run(l, "connectionDestroyed")
  /\ queue' = Popped(l)
  /\ conn' = [conn EXCEPT ![Head(queue[l]).id] = "destroyed"]
  /\ UNCHANGED <<connections_, kept, fault>>

------------------------------------------------------------------------------
(* ~TcpServer() on the base loop's thread: the map goes first, then the     *)
(* pool, whose destructors quit and join the threads, then the acceptor.    *)

Destroy == /\ Running(Base) /\ server = "alive"
           /\ server' = IF numThreads_ = 0 THEN "dead" ELSE "dying"
           /\ connections_' = {}
           /\ openAtDtor' = (\E id \in Ids : conn[id] \in {"connecting", "up", "down"})
           /\ UNCHANGED <<numThreads_, started_, next_, listening_, nextConnId_,
                          loopOf, conn, kept, queue, active, kernelVars, fault>>

\* A joined loop is gone, with the functors it had left.
JoinThreads == /\ server = "dying" /\ fault = "none"
               /\ \A l \in Loops \ {Base} : active[l] = {}
               /\ server' = "dead"
               /\ queue' = [l \in Loops |-> IF l = Base THEN queue[l] ELSE <<>>]
               /\ UNCHANGED <<numThreads_, started_, next_, listening_, nextConnId_,
                              connections_, loopOf, openAtDtor, conn, kept, active,
                              kernelVars, fault>>

------------------------------------------------------------------------------
\* A callback of the connection keeps a copy of its pointer.
UserKeeps == /\ fault = "none"
             /\ \E id \in Ids \ kept : conn[id] = "up" /\ Alive(id)
                                       /\ kept' = kept \cup {id}
             /\ UNCHANGED <<serverVars, conn, queue, active, kernelVars, fault>>

UserDrops(id) == /\ fault = "none"
                 /\ id \in kept /\ kept' = kept \ {id}
                 /\ UNCHANGED <<serverVars, conn, queue, active, kernelVars, fault>>

ClientArrives == /\ fault = "none" /\ listening_
                 /\ arrived < MaxConns
                 /\ arrived' = arrived + 1 /\ backlog' = backlog + 1
                 /\ UNCHANGED <<serverVars, conn, kept, queue, active, closed, fault>>

PeerCloses == /\ fault = "none"
              /\ \E id \in Ids \ closed : conn[id] \in {"connecting", "up"}
                                          /\ closed' = closed \cup {id}
              /\ UNCHANGED <<serverVars, conn, kept, queue, active, backlog, arrived, fault>>

Functors(l) == \/ RunConnectionEstablished(l) \/ RunConnectionDestroyed(l)
               \/ l = Base /\ RunRemoveConnectionInLoop

Next == \/ Start \/ HandleRead \/ Destroy \/ JoinThreads
        \/ UserKeeps \/ ClientArrives \/ PeerCloses
        \/ \E id \in Ids : UserDrops(id)
        \/ \E l \in Loops : Poll(l) \/ HandleClose(l) \/ Functors(l)

\* Every loop goes on with its events and functors, users let go of the
\* connections they keep, and a listening descriptor that stays readable is
\* handled in every iteration.
Fairness == /\ WF_vars(HandleRead /\ backlog' # backlog)
            /\ \A id \in Ids : WF_vars(UserDrops(id))
            /\ \A l \in Loops : /\ WF_vars(Poll(l))
                                /\ WF_vars(HandleClose(l))
                                /\ WF_vars(Functors(l))

Spec == Init /\ [][Next]_vars /\ Fairness
------------------------------------------------------------------------------
FunctorSet == [op : {"connectionEstablished", "removeConnectionInLoop",
                     "connectionDestroyed"}, id : Ids]

TypeOK ==
  /\ server \in {"alive", "dying", "dead"}
  /\ numThreads_ \in 0..MaxThreads /\ next_ \in 0..MaxThreads
  /\ numThreads_ > 0 => next_ < numThreads_
  /\ started_ \in BOOLEAN /\ listening_ \in BOOLEAN
  /\ nextConnId_ \in 1..(MaxConns + 1)
  /\ connections_ \subseteq Ids /\ kept \subseteq Ids /\ closed \subseteq Ids
  /\ loopOf \in [Ids -> Loops]
  /\ conn \in [Ids -> {"none", "connecting", "up", "down", "destroyed"}]
  /\ queue \in [Loops -> Seq(FunctorSet)]
  /\ active \in [Loops -> SUBSET Ids]
  /\ backlog \in 0..MaxConns /\ arrived \in 0..MaxConns
  /\ openAtDtor \in BOOLEAN
  /\ fault \in {"none", "removeConnectionInLoop", "server", "connection"}

(* getNextLoop() deals the connections out in turn: no loop of the pool     *)
(* ever has been given two more than another, and none goes to the base     *)
(* loop unless the pool is empty.                                           *)
Balanced ==
  LET Given(l) == Cardinality({id \in 1..(nextConnId_ - 1) : loopOf[id] = l})
      Pool == IF numThreads_ = 0 THEN {Base} ELSE 1..numThreads_
  IN  /\ \A k, l \in Pool : Given(k) <= Given(l) + 1
      /\ \A id \in 1..(nextConnId_ - 1) : loopOf[id] \in Pool

(* A connection whose channel is in its loop's poller is owned by the       *)
(* server's map or by the functor that takes the closing on to the next     *)
(* loop, until connectionDestroyed() has taken the channel out: the raw     *)
(* pointers of the poller never dangle while the server lives.              *)
RegisteredIsOwned ==
  server = "alive" => \A id \in Ids : conn[id] \in {"up", "down"} => Owned(id)

(* No assert fails and no dead object is used while the server lives, nor   *)
(* after a destructor that found no connection.  One that finds some frees  *)
(* them under the feet of their loops, and the close callback of one that   *)
(* user code keeps calls the dead server.                                   *)
FaultOnlyAfterDtor == fault # "none" => server # "alive" /\ openAtDtor

(* A client in the backlog is accepted, though each iteration takes one,    *)
(* unless every descriptor is in use.                                       *)
BacklogServed ==
  (backlog > 0) ~> (\/ backlog = 0 \/ server # "alive" \/ fault # "none"
                    \/ Cardinality({id \in Ids : Alive(id)}) >= MaxFds)

(* A connection that its peer closes leaves the map, the poller and memory, *)
(* across both loops, and gives its descriptor back.                        *)
ClosedIsFreed ==
  \A id \in Ids : (id \in closed)
     ~> ((conn[id] = "destroyed" /\ ~Alive(id)) \/ server # "alive")
==============================================================================
