--------------------------- MODULE TcpServerProofs ---------------------------
(***************************************************************************)
(* TLAPS proofs about module TcpServer, for any number of threads, clients *)
(* and descriptors: its type, that getNextLoop() deals out evenly, and who *)
(* owns a connection on its way between the loops.                         *)
(***************************************************************************)
EXTENDS TcpServer, FiniteSetTheorems, SequenceTheorems, TLAPS

USE BoundsAssumption
------------------------------------------------------------------------------
\* Every connection was a client in the backlog.
Arrivals == nextConnId_ - 1 + backlog <= arrived

(* The queues.                                                              *)

(* Appending to the queue of loop l: what waited waits where it was.        *)
LEMMA Push ==
  ASSUME NEW q \in [Loops -> Seq(FunctorSet)], NEW l \in Loops,
         NEW f \in FunctorSet,
         NEW r, r = [q EXCEPT ![l] = Append(@, f)]
  PROVE  /\ r \in [Loops -> Seq(FunctorSet)]
         /\ Len(q[l]) + 1 \in 1..Len(r[l]) /\ r[l][Len(q[l]) + 1] = f
         /\ \A k \in Loops : \A i \in 1..Len(q[k]) :
              i \in 1..Len(r[k]) /\ r[k][i] = q[k][i]
         /\ \A k \in Loops : \A i \in 1..Len(r[k]) :
              \/ i \in 1..Len(q[k]) /\ r[k][i] = q[k][i]
              \/ k = l /\ i = Len(q[l]) + 1 /\ r[k][i] = f
<1>1. /\ r[l] = Append(q[l], f) /\ \A k \in Loops \ {l} : r[k] = q[k]
      /\ \A k \in Loops : q[k] \in Seq(FunctorSet) /\ Len(q[k]) \in Nat
      /\ DOMAIN r = Loops
  OBVIOUS
<1>2. /\ r[l] \in Seq(FunctorSet) /\ Len(r[l]) = Len(q[l]) + 1
      /\ \A i \in 1..Len(q[l]) : r[l][i] = q[l][i]
      /\ r[l][Len(q[l]) + 1] = f
  BY <1>1, AppendProperties
<1>3. r \in [Loops -> Seq(FunctorSet)]
  BY <1>1, <1>2
<1>4. Len(q[l]) + 1 \in 1..Len(r[l])
  BY <1>1, <1>2
<1>5. \A k \in Loops : \A i \in 1..Len(q[k]) :
        i \in 1..Len(r[k]) /\ r[k][i] = q[k][i]
  BY <1>1, <1>2
<1>6. ASSUME NEW k \in Loops, NEW i \in 1..Len(r[k])
      PROVE  \/ i \in 1..Len(q[k]) /\ r[k][i] = q[k][i]
             \/ k = l /\ i = Len(q[l]) + 1 /\ r[k][i] = f
  <2>1. CASE k # l
    BY <1>1, <2>1
  <2>2. CASE k = l
    BY <1>1, <1>2, <2>2
  <2> QED BY <2>1, <2>2
<1> QED BY <1>2, <1>3, <1>4, <1>5, <1>6

(* Taking the head of the queue of loop l: the rest moves up.               *)
LEMMA Pop ==
  ASSUME NEW q \in [Loops -> Seq(FunctorSet)], NEW l \in Loops, q[l] # <<>>,
         NEW r, r = [q EXCEPT ![l] = Tail(@)]
  PROVE  /\ r \in [Loops -> Seq(FunctorSet)]
         /\ 1 \in 1..Len(q[l]) /\ Head(q[l]) = q[l][1]
         /\ \A k \in Loops : \A i \in 1..Len(r[k]) :
              \/ k # l /\ i \in 1..Len(q[k]) /\ r[k][i] = q[k][i]
              \/ k = l /\ i + 1 \in 1..Len(q[l]) /\ r[l][i] = q[l][i + 1]
         /\ \A k \in Loops : \A i \in 1..Len(q[k]) :
              \/ k # l /\ i \in 1..Len(r[k]) /\ r[k][i] = q[k][i]
              \/ k = l /\ i = 1
              \/ k = l /\ i - 1 \in 1..Len(r[l]) /\ r[l][i - 1] = q[l][i]
<1>1. /\ r[l] = Tail(q[l]) /\ \A k \in Loops \ {l} : r[k] = q[k]
      /\ \A k \in Loops : q[k] \in Seq(FunctorSet) /\ Len(q[k]) \in Nat
      /\ DOMAIN r = Loops
  OBVIOUS
<1>2. /\ r[l] \in Seq(FunctorSet) /\ Len(r[l]) = Len(q[l]) - 1 /\ Len(q[l]) > 0
      /\ \A i \in 1..Len(r[l]) : r[l][i] = q[l][i + 1]
      /\ Head(q[l]) = q[l][1]
  BY <1>1, HeadTailProperties
<1>3. r \in [Loops -> Seq(FunctorSet)]
  BY <1>1, <1>2
<1>4. ASSUME NEW k \in Loops, NEW i \in 1..Len(r[k])
      PROVE  \/ k # l /\ i \in 1..Len(q[k]) /\ r[k][i] = q[k][i]
             \/ k = l /\ i + 1 \in 1..Len(q[l]) /\ r[l][i] = q[l][i + 1]
  BY <1>1, <1>2
<1>5. ASSUME NEW k \in Loops, NEW i \in 1..Len(q[k])
      PROVE  \/ k # l /\ i \in 1..Len(r[k]) /\ r[k][i] = q[k][i]
             \/ k = l /\ i = 1
             \/ k = l /\ i - 1 \in 1..Len(r[l]) /\ r[l][i - 1] = q[l][i]
  <2>1. CASE k = l /\ i # 1
    <3>1. i - 1 \in 1..Len(r[l]) /\ (i - 1) + 1 = i
      BY <1>1, <1>2, <2>1
    <3>2. r[l][i - 1] = q[l][i]
      BY <1>2, <3>1
    <3> QED BY <2>1, <3>1, <3>2
  <2> QED BY <1>1, <2>1
<1>6. 1 \in 1..Len(q[l])
  BY <1>1, <1>2
<1> QED BY <1>2, <1>3, <1>4, <1>5, <1>6
------------------------------------------------------------------------------
(* Types.                                                                   *)

(* The head of a queue is a functor.                                        *)
LEMMA HeadType ==
  ASSUME TypeOK, NEW l \in Loops, queue[l] # <<>>
  PROVE  Head(queue[l]) \in FunctorSet /\ Head(queue[l]).id \in Ids
<1>1. queue[l] \in Seq(FunctorSet)
  BY DEF TypeOK
<1>2. Head(queue[l]) \in FunctorSet
  BY <1>1, HeadTailProperties
<1> QED BY <1>2 DEF FunctorSet

(* removeConnectionInLoop() keeps the types.                                *)
LEMMA RemoveTypes ==
  ASSUME TypeOK, NEW id \in Ids, NEW q \in [Loops -> Seq(FunctorSet)],
         RemoveConnectionInLoop(id, q)
  PROVE  /\ queue' \in [Loops -> Seq(FunctorSet)] /\ connections_' \subseteq Ids
         /\ fault' \in {"none", "removeConnectionInLoop", "server", "connection"}
<1> DEFINE f == Functor("connectionDestroyed", id)
<1>1. f \in FunctorSet /\ loopOf[id] \in Loops
  BY DEF FunctorSet, Functor, TypeOK
<1>2. [q EXCEPT ![loopOf[id]] = Append(@, f)] \in [Loops -> Seq(FunctorSet)]
  <2> HIDE DEF f
  <2> QED BY <1>1, Push
<1> QED BY <1>2 DEF RemoveConnectionInLoop, TypeOK

(* The next connection has an id.                                           *)
LEMMA NextId ==
  ASSUME TypeOK, Arrivals, backlog > 0
  PROVE  nextConnId_ \in Ids /\ nextConnId_ + 1 \in 1..(MaxConns + 1)
  BY DEF TypeOK, Arrivals, Ids

(* getNextLoop() returns a loop, and keeps next_ within the pool.           *)
LEMMA NextLoopType ==
  ASSUME TypeOK
  PROVE  /\ NextLoop \in Loops
         /\ After(next_) \in 0..MaxThreads
         /\ numThreads_ > 0 => After(next_) < numThreads_
  BY DEF TypeOK, NextLoop, After, Loops, Base

(* newConnection() keeps the types.                                         *)
LEMMA NewConnectionTypes ==
  ASSUME TypeOK, Arrivals, backlog > 0, NewConnection
  PROVE  /\ queue' \in [Loops -> Seq(FunctorSet)] /\ connections_' \subseteq Ids
         /\ nextConnId_' \in 1..(MaxConns + 1) /\ next_' \in 0..MaxThreads
         /\ numThreads_ > 0 => next_' < numThreads_
         /\ loopOf' \in [Ids -> Loops]
         /\ conn' \in [Ids -> {"none", "connecting", "up", "down", "destroyed"}]
<1> DEFINE f == Functor("connectionEstablished", nextConnId_)
<1>1. nextConnId_ \in Ids /\ nextConnId_ + 1 \in 1..(MaxConns + 1)
  BY NextId
<1>2. /\ NextLoop \in Loops /\ After(next_) \in 0..MaxThreads
      /\ numThreads_ > 0 => After(next_) < numThreads_
  BY NextLoopType
<1>3. f \in FunctorSet /\ queue \in [Loops -> Seq(FunctorSet)]
  BY <1>1 DEF FunctorSet, Functor, TypeOK
<1>4. [queue EXCEPT ![NextLoop] = Append(@, f)] \in [Loops -> Seq(FunctorSet)]
  <2> HIDE DEF f
  <2> QED BY <1>2, <1>3, Push
<1>5. queue' \in {queue, [queue EXCEPT ![NextLoop] = Append(@, f)]}
  BY DEF NewConnection
<1>6. queue' \in [Loops -> Seq(FunctorSet)]
  BY <1>3, <1>4, <1>5
<1> QED BY <1>1, <1>2, <1>6 DEF NewConnection, TypeOK

(* The type, with the count of the clients, is inductive.                   *)
LEMMA TypeInvariant ==
  TypeOK /\ Arrivals /\ [Next]_vars => TypeOK' /\ Arrivals'
<1> SUFFICES ASSUME TypeOK, Arrivals, [Next]_vars PROVE TypeOK' /\ Arrivals'
  OBVIOUS
<1> USE DEF serverVars, kernelVars
<1>q. queue \in [Loops -> Seq(FunctorSet)]
  BY DEF TypeOK
<1>p. ASSUME NEW l \in Loops, queue[l] # <<>>
      PROVE  Popped(l) \in [Loops -> Seq(FunctorSet)]
  BY <1>q, <1>p, Pop DEF Popped
<1>1. CASE Start
  BY <1>1 DEF TypeOK, Arrivals, Start, Listen
<1>2. CASE HandleRead
  <2>0. nextConnId_ \in Nat /\ backlog \in Nat /\ arrived \in Nat
    BY DEF TypeOK
  <2>1. backlog > 0 /\ backlog' \in {backlog, backlog - 1}
    BY <1>2 DEF HandleRead
  <2>2. CASE NewConnection /\ backlog' = backlog - 1
    <3>1. nextConnId_' = nextConnId_ + 1
      BY <2>2 DEF NewConnection
    <3>2. UNCHANGED <<server, numThreads_, started_, listening_, openAtDtor,
                      kept, active, closed, arrived, fault>>
      BY <1>2 DEF HandleRead
    <3>3. backlog' \in 0..MaxConns
      BY <2>1, <2>2 DEF TypeOK
    <3>4. TypeOK'
      BY <2>1, <2>2, <3>2, <3>3, NewConnectionTypes DEF TypeOK
    <3>5. Arrivals'
      BY <2>0, <2>2, <3>1, <3>2 DEF Arrivals
    <3> QED BY <3>4, <3>5
  <2>3. CASE UNCHANGED <<nextConnId_, next_, loopOf, connections_, conn, queue>>
    <3>1. UNCHANGED <<server, numThreads_, started_, listening_, openAtDtor,
                      kept, active, closed, arrived, fault>>
      BY <1>2 DEF HandleRead
    <3>2. backlog' \in 0..MaxConns
      BY <2>1 DEF TypeOK
    <3>3. TypeOK'
      BY <2>3, <3>1, <3>2 DEF TypeOK
    <3>4. Arrivals'
      <4>1. nextConnId_' = nextConnId_ /\ arrived' = arrived
        BY <2>3, <3>1
      <4>2. CASE backlog' = backlog - 1
        BY <2>0, <4>1, <4>2 DEF Arrivals
      <4>3. CASE backlog' = backlog
        BY <2>0, <4>1, <4>3 DEF Arrivals
      <4> QED BY <2>1, <4>2, <4>3
    <3> QED BY <3>3, <3>4
  <2> QED BY <1>2, <2>2, <2>3 DEF HandleRead
<1>3. CASE Destroy
  BY <1>3 DEF TypeOK, Arrivals, Destroy
<1>4. CASE JoinThreads
  <2>1. queue' \in [Loops -> Seq(FunctorSet)]
    BY <1>4, <1>q DEF JoinThreads
  <2> QED BY <1>4, <2>1 DEF TypeOK, Arrivals, JoinThreads
<1>5. CASE UserKeeps \/ PeerCloses \/ \E id \in Ids : UserDrops(id)
  BY <1>5 DEF TypeOK, Arrivals, UserKeeps, PeerCloses, UserDrops
<1>11. CASE ClientArrives
  <2>1. /\ arrived' = arrived + 1 /\ backlog' = backlog + 1 /\ arrived < MaxConns
        /\ UNCHANGED nextConnId_
    BY <1>11 DEF ClientArrives
  <2>2. arrived' \in 0..MaxConns /\ backlog' \in 0..MaxConns /\ Arrivals'
    BY <2>1 DEF TypeOK, Arrivals
  <2> QED BY <1>11, <2>2 DEF TypeOK, ClientArrives
<1>6. ASSUME NEW l \in Loops, Poll(l) PROVE TypeOK' /\ Arrivals'
  BY <1>6 DEF TypeOK, Arrivals, Poll
<1>7. ASSUME NEW l \in Loops, HandleClose(l) PROVE TypeOK' /\ Arrivals'
  <2>1. PICK id \in active[l] :
          /\ active' = [active EXCEPT ![l] = @ \ {id}]
          /\ conn' \in {conn, [conn EXCEPT ![id] = "down"]}
          /\ \/ /\ UNCHANGED <<connections_, queue>>
                /\ fault' \in {"connection", "server"}
             \/ RemoveConnectionInLoop(id, queue)
             \/ /\ queue' = [queue EXCEPT ![Base] =
                               Append(@, Functor("removeConnectionInLoop", id))]
                /\ UNCHANGED <<connections_, fault>>
    BY <1>7 DEF HandleClose
  <2>2. id \in Ids
    BY <1>7, <2>1 DEF TypeOK
  <2>3. /\ queue' \in [Loops -> Seq(FunctorSet)] /\ connections_' \subseteq Ids
        /\ fault' \in {"none", "removeConnectionInLoop", "server", "connection"}
    <3> DEFINE f == Functor("removeConnectionInLoop", id)
    <3>1. f \in FunctorSet /\ Base \in Loops
      BY <2>2 DEF FunctorSet, Functor, Base, Loops
    <3>2. [queue EXCEPT ![Base] = Append(@, f)] \in [Loops -> Seq(FunctorSet)]
      <4> HIDE DEF f
      <4> QED BY <1>q, <3>1, Push
    <3>3. CASE RemoveConnectionInLoop(id, queue)
      BY <1>q, <2>2, <3>3, RemoveTypes
    <3> QED BY <1>q, <2>1, <3>2, <3>3 DEF TypeOK
  <2>4. UNCHANGED <<server, numThreads_, started_, next_, listening_, nextConnId_,
                    loopOf, openAtDtor, kept, kernelVars>>
    BY <1>7 DEF HandleClose
  <2>5. active' \in [Loops -> SUBSET Ids]
        /\ conn' \in [Ids -> {"none", "connecting", "up", "down", "destroyed"}]
    BY <2>1, <2>2, ZenonT(60) DEF TypeOK
  <2> QED BY <2>3, <2>4, <2>5 DEF TypeOK, Arrivals
<1>8. ASSUME NEW l \in Loops, RunConnectionEstablished(l) \/ RunConnectionDestroyed(l)
      PROVE  TypeOK' /\ Arrivals'
  <2>1. queue[l] # <<>> /\ queue' = Popped(l)
    BY <1>8 DEF RunConnectionEstablished, RunConnectionDestroyed, Run
  <2>2. queue' \in [Loops -> Seq(FunctorSet)] /\ Head(queue[l]).id \in Ids
    BY <2>1, <1>p, HeadType
  <2>3. conn' \in [Ids -> {"none", "connecting", "up", "down", "destroyed"}]
    BY <1>8, <2>2 DEF RunConnectionEstablished, RunConnectionDestroyed, TypeOK
  <2>4. UNCHANGED <<server, numThreads_, started_, next_, listening_, nextConnId_,
                    connections_, loopOf, openAtDtor, kept, active, kernelVars, fault>>
    BY <1>8 DEF RunConnectionEstablished, RunConnectionDestroyed, Run
  <2> QED BY <2>2, <2>3, <2>4 DEF TypeOK, Arrivals
<1>9. CASE RunRemoveConnectionInLoop
  <2>0. Base \in Loops
    BY DEF Base, Loops
  <2>1. queue[Base] # <<>>
        /\ RemoveConnectionInLoop(Head(queue[Base]).id, Popped(Base))
    BY <1>9 DEF RunRemoveConnectionInLoop, Run
  <2>2. Popped(Base) \in [Loops -> Seq(FunctorSet)] /\ Head(queue[Base]).id \in Ids
    BY <2>0, <2>1, <1>p, HeadType
  <2>3. /\ queue' \in [Loops -> Seq(FunctorSet)] /\ connections_' \subseteq Ids
        /\ fault' \in {"none", "removeConnectionInLoop", "server", "connection"}
    BY <2>1, <2>2, RemoveTypes
  <2>4. UNCHANGED <<server, numThreads_, started_, next_, listening_, nextConnId_,
                    loopOf, openAtDtor, conn, kept, active, kernelVars>>
    BY <1>9 DEF RunRemoveConnectionInLoop, Run
  <2> QED BY <2>3, <2>4 DEF TypeOK, Arrivals
<1>10. CASE UNCHANGED vars
  BY <1>10 DEF TypeOK, Arrivals, vars
<1> QED BY <1>1, <1>2, <1>3, <1>4, <1>5, <1>6, <1>7, <1>8, <1>9, <1>10,
           <1>11
        DEF Next, Functors

(* Both hold in every behaviour.                                            *)
LEMMA TypeAndArrivals == Spec => [](TypeOK /\ Arrivals)
<1>1. Init => TypeOK /\ Arrivals
  <2> SUFFICES ASSUME Init PROVE TypeOK /\ Arrivals
    OBVIOUS
  <2>1. loopOf \in [Ids -> Loops] /\ active \in [Loops -> SUBSET Ids]
    BY DEF Init, Base, Loops
  <2>2. queue \in [Loops -> Seq(FunctorSet)]
    BY DEF Init
  <2>3. conn \in [Ids -> {"none", "connecting", "up", "down", "destroyed"}]
    BY DEF Init
  <2>4. /\ next_ \in 0..MaxThreads /\ (numThreads_ > 0 => next_ < numThreads_)
        /\ nextConnId_ \in 1..(MaxConns + 1)
        /\ backlog \in 0..MaxConns /\ arrived \in 0..MaxConns
        /\ numThreads_ \in 0..MaxThreads /\ Arrivals
    BY DEF Init, AcceptorInit, PoolInit, Arrivals
  <2> QED
    BY <2>1, <2>2, <2>3, <2>4 DEF Init, AcceptorInit, PoolInit, TypeOK
<1> QED BY <1>1, TypeInvariant, PTL DEF Spec

(* The server's state keeps its type: next_ stays within the pool, and ids  *)
(* within the number of the clients that have arrived.                      *)
THEOREM TypeCorrect == Spec => []TypeOK
  BY TypeAndArrivals, PTL
------------------------------------------------------------------------------
(* getNextLoop() deals out in turn.                                         *)

\* next_ loops of the pool are one connection ahead of the others.
GivenTo(l) == {id \in 1..(nextConnId_ - 1) : loopOf[id] = l}
Turns == \E q \in Nat : \A l \in 1..numThreads_ :
  Cardinality(GivenTo(l)) = IF l <= next_ THEN q + 1 ELSE q

\* A pool of no threads has the base loop in it.
InPool == \A id \in 1..(nextConnId_ - 1) :
  loopOf[id] \in (IF numThreads_ = 0 THEN {Base} ELSE 1..numThreads_)

(* The connections of a loop are finitely many.                             *)
LEMMA GivenFinite ==
  ASSUME TypeOK, NEW l
  PROVE  IsFiniteSet(GivenTo(l)) /\ Cardinality(GivenTo(l)) \in Nat
<1>1. nextConnId_ - 1 \in Nat
  BY DEF TypeOK
<1>2. IsFiniteSet(1..(nextConnId_ - 1))
  BY <1>1, FS_Interval
<1>3. GivenTo(l) \subseteq 1..(nextConnId_ - 1)
  BY DEF GivenTo
<1>4. IsFiniteSet(GivenTo(l))
  BY <1>2, <1>3, FS_Subset
<1> QED BY <1>4, FS_CardinalityType

(* newConnection() gives the connection to one loop.                        *)
LEMMA GivenStep ==
  ASSUME TypeOK, Arrivals, backlog > 0, NewConnection, NEW l
  PROVE  Cardinality(GivenTo(l)')
           = Cardinality(GivenTo(l)) + (IF l = NextLoop THEN 1 ELSE 0)
<1>1. nextConnId_ \in Ids /\ nextConnId_ \in Nat \ {0}
  BY NextId DEF TypeOK
<1>2. nextConnId_' = nextConnId_ + 1 /\ loopOf' = [loopOf EXCEPT ![nextConnId_] = NextLoop]
  BY DEF NewConnection
<1>3. /\ loopOf'[nextConnId_] = NextLoop
      /\ \A id \in 1..(nextConnId_ - 1) : loopOf'[id] = loopOf[id]
  BY <1>1, <1>2 DEF TypeOK, Ids
<1>4. 1..(nextConnId_' - 1) = (1..(nextConnId_ - 1)) \cup {nextConnId_}
  BY <1>1, <1>2
<1>5. nextConnId_ \notin GivenTo(l)
  BY <1>1 DEF GivenTo
<1>6. CASE l = NextLoop
  <2>1. GivenTo(l)' = GivenTo(l) \cup {nextConnId_}
    BY <1>3, <1>4, <1>6 DEF GivenTo
  <2>2. Cardinality(GivenTo(l) \cup {nextConnId_}) = Cardinality(GivenTo(l)) + 1
    BY <1>5, GivenFinite, FS_AddElement
  <2> QED BY <1>6, <2>1, <2>2
<1>7. CASE l # NextLoop
  <2>1. GivenTo(l)' = GivenTo(l)
    BY <1>3, <1>4, <1>7 DEF GivenTo
  <2> QED BY <1>7, <2>1, GivenFinite
<1> QED BY <1>6, <1>7

(* Only newConnection() deals.                                              *)
LEMMA DealSteps ==
  ASSUME [Next]_vars
  PROVE  \/ UNCHANGED <<numThreads_, next_, nextConnId_, loopOf>>
         \/ HandleRead /\ NewConnection /\ backlog > 0 /\ UNCHANGED numThreads_
<1> USE DEF serverVars
<1>1. CASE Start \/ Destroy \/ JoinThreads
  BY <1>1 DEF Start, Destroy, JoinThreads
<1>2. CASE HandleRead
  BY <1>2 DEF HandleRead
<1>3. CASE UserKeeps \/ ClientArrives \/ PeerCloses \/ \E id \in Ids : UserDrops(id)
  BY <1>3 DEF UserKeeps, ClientArrives, PeerCloses, UserDrops
<1>4. ASSUME NEW l \in Loops, Poll(l) \/ HandleClose(l) \/ Functors(l)
      PROVE  UNCHANGED <<numThreads_, next_, nextConnId_, loopOf>>
  BY <1>4 DEF Poll, HandleClose, Functors, RunConnectionEstablished,
              RunConnectionDestroyed, RunRemoveConnectionInLoop, Run
<1>5. CASE UNCHANGED vars
  BY <1>5 DEF vars
<1> QED BY <1>1, <1>2, <1>3, <1>4, <1>5 DEF Next

(* The turns are an invariant.                                              *)
LEMMA TurnsInvariant ==
  TypeOK /\ Arrivals /\ Turns /\ InPool /\ [Next]_vars => Turns' /\ InPool'
<1> SUFFICES ASSUME TypeOK, Arrivals, Turns, InPool, [Next]_vars
             PROVE  Turns' /\ InPool'
  OBVIOUS
<1>1. CASE UNCHANGED <<numThreads_, next_, nextConnId_, loopOf>>
  BY <1>1 DEF Turns, InPool, GivenTo
<1>2. CASE NewConnection /\ backlog > 0 /\ UNCHANGED numThreads_
  <2>0. /\ numThreads_ \in Nat /\ next_ \in Nat
        /\ numThreads_ > 0 => next_ < numThreads_
        /\ nextConnId_ \in Ids /\ nextConnId_ \in Nat \ {0}
    BY <1>2, NextId DEF TypeOK
  <2>1. /\ nextConnId_' = nextConnId_ + 1 /\ next_' = After(next_)
        /\ loopOf' = [loopOf EXCEPT ![nextConnId_] = NextLoop]
    BY <1>2 DEF NewConnection
  <2>2. InPool'
    <3>1. NextLoop \in (IF numThreads_ = 0 THEN {Base} ELSE 1..numThreads_)
      BY <2>0 DEF NextLoop
    <3>2. \A id \in 1..(nextConnId_' - 1) :
            id = nextConnId_ \/ id \in 1..(nextConnId_ - 1)
      BY <2>0, <2>1
    <3>3. \A id \in Ids : loopOf'[id] = IF id = nextConnId_ THEN NextLoop
                                                            ELSE loopOf[id]
      BY <2>1 DEF TypeOK
    <3>4. 1..(nextConnId_ - 1) \subseteq Ids
      BY <2>0 DEF Ids
    <3> QED BY <1>2, <2>0, <3>1, <3>2, <3>3, <3>4 DEF InPool
  <2>3. Turns'
    <3>1. CASE numThreads_ = 0
      <4>1. 0 \in Nat /\ 1..numThreads_' = {}
        BY <1>2, <3>1
      <4> QED BY <4>1 DEF Turns
    <3>2. CASE numThreads_ > 0
      <4>1. PICK q \in Nat : \A l \in 1..numThreads_ :
              Cardinality(GivenTo(l)) = IF l <= next_ THEN q + 1 ELSE q
        BY DEF Turns
      <4>2. NextLoop = next_ + 1 /\ numThreads_ # 0
        BY <3>2 DEF NextLoop
      <4>3. ASSUME NEW l \in 1..numThreads_
            PROVE  Cardinality(GivenTo(l)') = IF l <= next_ + 1 THEN q + 1 ELSE q
        <5>1. Cardinality(GivenTo(l)')
                = (IF l <= next_ THEN q + 1 ELSE q) + (IF l = next_ + 1 THEN 1 ELSE 0)
          BY <1>2, <4>1, <4>2, GivenStep
        <5> QED BY <2>0, <5>1
      <4>4. CASE next_ + 1 >= numThreads_
        <5>1. next_' = 0 /\ numThreads_ = next_ + 1
          BY <2>0, <2>1, <3>2, <4>4 DEF After
        <5>2. \A l \in 1..numThreads_ :
                Cardinality(GivenTo(l)') = IF l <= next_' THEN (q + 1) + 1 ELSE q + 1
          BY <2>0, <4>3, <5>1
        <5>3. q + 1 \in Nat
          OBVIOUS
        <5> QED BY <1>2, <5>2, <5>3 DEF Turns
      <4>5. CASE next_ + 1 < numThreads_
        <5>1. next_' = next_ + 1
          BY <2>0, <2>1, <3>2, <4>5 DEF After
        <5> QED BY <1>2, <4>3, <5>1 DEF Turns
      <4> QED BY <2>0, <4>4, <4>5
    <3> QED BY <2>0, <3>1, <3>2
  <2> QED BY <2>2, <2>3
<1> QED BY <1>1, <1>2, DealSteps

(* No loop of the pool is ever given two connections more than another, and *)
(* none goes to the base loop unless the pool is empty, for any number of   *)
(* threads and connections.                                                 *)
THEOREM AlwaysBalanced == Spec => []Balanced
<1>1. Init => Turns /\ InPool
  <2> SUFFICES ASSUME Init PROVE Turns /\ InPool
    OBVIOUS
  <2>1. nextConnId_ = 1 /\ next_ = 0 /\ numThreads_ \in Nat
    BY DEF Init, PoolInit
  <2>2. 1..(nextConnId_ - 1) = {}
    BY <2>1
  <2>3. \A l : Cardinality(GivenTo(l)) = 0
    BY <2>2, FS_EmptySet DEF GivenTo
  <2>4. Turns
    BY <2>1, <2>3 DEF Turns
  <2> QED BY <2>2, <2>4 DEF InPool
<1>2. TypeOK /\ Turns /\ InPool => Balanced
  <2> SUFFICES ASSUME TypeOK, Turns, InPool PROVE Balanced
    OBVIOUS
  <2> DEFINE Pool == IF numThreads_ = 0 THEN {Base} ELSE 1..numThreads_
  <2>1. ASSUME NEW k \in Pool, NEW l \in Pool
        PROVE  Cardinality(GivenTo(k)) <= Cardinality(GivenTo(l)) + 1
    <3>1. CASE numThreads_ = 0
      <4>1. k = l /\ Cardinality(GivenTo(l)) \in Nat
        BY <2>1, <3>1, GivenFinite
      <4> QED BY <4>1
    <3>2. CASE numThreads_ # 0
      <4>1. PICK q \in Nat : \A i \in 1..numThreads_ :
              Cardinality(GivenTo(i)) = IF i <= next_ THEN q + 1 ELSE q
        BY DEF Turns
      <4>2. /\ Cardinality(GivenTo(k)) \in {q, q + 1}
            /\ Cardinality(GivenTo(l)) \in {q, q + 1}
        BY <2>1, <3>2, <4>1
      <4> QED BY <4>2
    <3> QED BY <3>1, <3>2
  <2> QED BY <2>1 DEF Balanced, InPool, GivenTo
<1> QED BY <1>1, <1>2, TurnsInvariant, TypeAndArrivals, PTL DEF Spec
------------------------------------------------------------------------------
(* Who owns a connection.                                                   *)

\* Functor f waits in loop l, and no two functors are of one connection.
Waits(q, l, f) == \E i \in 1..Len(q[l]) : q[l][i] = f
OneEach(q) ==
  \A k, l \in Loops : \A i \in 1..Len(q[k]), j \in 1..Len(q[l]) :
    q[k][i].id = q[l][j].id => k = l /\ i = j

\* Functor f put at the end of the queue of loop l.
Pushed(q, l, f) == [q EXCEPT ![l] = Append(@, f)]

(* Appending a functor.                                                     *)
LEMMA PushWaits ==
  ASSUME NEW q \in [Loops -> Seq(FunctorSet)], NEW l \in Loops,
         NEW f \in FunctorSet
  PROVE  /\ Pushed(q, l, f) \in [Loops -> Seq(FunctorSet)]
         /\ \A k \in Loops : \A g : Waits(Pushed(q, l, f), k, g)
              <=> Waits(q, k, g) \/ (k = l /\ g = f)
         /\ OneEach(q) /\ (\A k \in Loops : \A g : Waits(q, k, g) => g.id # f.id)
              => OneEach(Pushed(q, l, f))
<1> DEFINE r == Pushed(q, l, f)
<1>0. r = [q EXCEPT ![l] = Append(@, f)]
  BY DEF Pushed
<1> HIDE DEF r
<1>1. /\ r \in [Loops -> Seq(FunctorSet)]
      /\ Len(q[l]) + 1 \in 1..Len(r[l]) /\ r[l][Len(q[l]) + 1] = f
      /\ \A k \in Loops : \A i \in 1..Len(q[k]) :
           i \in 1..Len(r[k]) /\ r[k][i] = q[k][i]
      /\ \A k \in Loops : \A i \in 1..Len(r[k]) :
           \/ i \in 1..Len(q[k]) /\ r[k][i] = q[k][i]
           \/ k = l /\ i = Len(q[l]) + 1 /\ r[k][i] = f
  BY <1>0, Push
<1>2. ASSUME NEW k \in Loops, NEW g, Waits(r, k, g)
      PROVE  Waits(q, k, g) \/ (k = l /\ g = f)
  BY <1>1, <1>2 DEF Waits
<1>3. ASSUME NEW k \in Loops, NEW g, Waits(q, k, g) \/ (k = l /\ g = f)
      PROVE  Waits(r, k, g)
  BY <1>1, <1>3 DEF Waits
<1>4. ASSUME OneEach(q), \A k \in Loops : \A g : Waits(q, k, g) => g.id # f.id
      PROVE  OneEach(r)
  <2>1. \A k \in Loops : \A i \in 1..Len(q[k]) : q[k][i].id # f.id
    BY <1>4 DEF Waits
  <2>2. ASSUME NEW k \in Loops, NEW m \in Loops, NEW i \in 1..Len(r[k]),
               NEW j \in 1..Len(r[m]), r[k][i].id = r[m][j].id
        PROVE  k = m /\ i = j
    <3>1. CASE i \in 1..Len(q[k]) /\ r[k][i] = q[k][i]
      BY <1>1, <1>4, <2>1, <2>2, <3>1 DEF OneEach
    <3>2. CASE k = l /\ i = Len(q[l]) + 1 /\ r[k][i] = f
      <4>1. ~ (j \in 1..Len(q[m]) /\ r[m][j] = q[m][j])
        BY <2>1, <2>2, <3>2
      <4>2. m = l /\ j = Len(q[l]) + 1
        BY <1>1, <4>1
      <4> QED BY <3>2, <4>2
    <3> QED BY <1>1, <3>1, <3>2
  <2> QED BY <2>2 DEF OneEach
<1>5. \A k \in Loops : \A g : Waits(r, k, g) <=> Waits(q, k, g) \/ (k = l /\ g = f)
  BY <1>2, <1>3, Zenon
<1>6. r \in [Loops -> Seq(FunctorSet)]
  BY <1>1, Zenon
<1> QED BY <1>4, <1>5, <1>6, Zenon DEF r

\* The queue of loop l without its head.
Taken(q, l) == [q EXCEPT ![l] = Tail(@)]

(* Taking one.                                                              *)
LEMMA PopWaits ==
  ASSUME NEW q \in [Loops -> Seq(FunctorSet)], NEW l \in Loops, q[l] # <<>>,
         OneEach(q)
  PROVE  /\ Taken(q, l) \in [Loops -> Seq(FunctorSet)]
         /\ Waits(q, l, Head(q[l]))
         /\ \A k \in Loops : \A g : Waits(Taken(q, l), k, g)
              <=> Waits(q, k, g) /\ g.id # Head(q[l]).id
         /\ OneEach(Taken(q, l))
<1> DEFINE r == Taken(q, l)
<1>0. r = [q EXCEPT ![l] = Tail(@)]
  BY DEF Taken
<1> HIDE DEF r
<1>1. /\ r \in [Loops -> Seq(FunctorSet)]
      /\ 1 \in 1..Len(q[l]) /\ Head(q[l]) = q[l][1]
      /\ \A k \in Loops : \A i \in 1..Len(r[k]) :
           \/ k # l /\ i \in 1..Len(q[k]) /\ r[k][i] = q[k][i]
           \/ k = l /\ i + 1 \in 1..Len(q[l]) /\ r[l][i] = q[l][i + 1]
      /\ \A k \in Loops : \A i \in 1..Len(q[k]) :
           \/ k # l /\ i \in 1..Len(r[k]) /\ r[k][i] = q[k][i]
           \/ k = l /\ i = 1
           \/ k = l /\ i - 1 \in 1..Len(r[l]) /\ r[l][i - 1] = q[l][i]
  BY <1>0, Pop
<1>2. Waits(q, l, Head(q[l]))
  BY <1>1 DEF Waits
<1>3. ASSUME NEW k \in Loops, NEW g, Waits(r, k, g)
      PROVE  Waits(q, k, g) /\ g.id # Head(q[l]).id
  <2>1. PICK i \in 1..Len(r[k]) : r[k][i] = g
    BY <1>3 DEF Waits
  <2>2. CASE k # l
    BY <1>1, <2>1, <2>2 DEF Waits, OneEach
  <2>3. CASE k = l
    <3>1. i + 1 \in 1..Len(q[l]) /\ q[l][i + 1] = g /\ i + 1 # 1
      BY <1>1, <2>1, <2>3
    <3> QED BY <1>1, <2>3, <3>1 DEF Waits, OneEach
  <2> QED BY <2>2, <2>3
<1>4. ASSUME NEW k \in Loops, NEW g, Waits(q, k, g), g.id # Head(q[l]).id
      PROVE  Waits(r, k, g)
  <2>1. PICK i \in 1..Len(q[k]) : q[k][i] = g
    BY <1>4 DEF Waits
  <2>2. CASE k # l
    BY <1>1, <2>1, <2>2 DEF Waits
  <2>3. CASE k = l
    <3>1. i # 1
      BY <1>1, <1>4, <2>1, <2>3
    <3>2. i - 1 \in 1..Len(r[l]) /\ r[l][i - 1] = q[l][i]
      BY <1>1, <2>1, <2>3, <3>1
    <3> QED BY <2>1, <2>3, <3>2 DEF Waits
  <2> QED BY <2>2, <2>3
<1>5. OneEach(r)
  <2> SUFFICES ASSUME NEW k \in Loops, NEW m \in Loops, NEW i \in 1..Len(r[k]),
                      NEW j \in 1..Len(r[m]), r[k][i].id = r[m][j].id
               PROVE  k = m /\ i = j
    BY DEF OneEach
  <2>1. PICK a \in 1..Len(q[k]) : r[k][i] = q[k][a]
                                  /\ a = IF k = l THEN i + 1 ELSE i
    BY <1>1
  <2>2. PICK b \in 1..Len(q[m]) : r[m][j] = q[m][b]
                                  /\ b = IF m = l THEN j + 1 ELSE j
    BY <1>1
  <2>3. k = m /\ a = b
    BY <2>1, <2>2 DEF OneEach
  <2>4. i \in Nat /\ j \in Nat
    OBVIOUS
  <2> QED BY <2>1, <2>2, <2>3, <2>4
<1>6. r \in [Loops -> Seq(FunctorSet)]
  BY <1>1, Zenon
<1> QED BY <1>2, <1>3, <1>4, <1>5, <1>6, Zenon DEF r

\* A functor where it may wait while the server lives: at each moment the one
\* that conn[id] calls for, in the loop that is to run it.
Fits(l, f) ==
  \/ /\ f.op = "connectionEstablished"
     /\ l = loopOf[f.id] /\ l # Base /\ conn[f.id] = "connecting"
  \/ /\ f.op = "removeConnectionInLoop"
     /\ l = Base /\ conn[f.id] = "down" /\ f.id \in connections_
  \/ /\ f.op = "connectionDestroyed"
     /\ l = loopOf[f.id] /\ conn[f.id] = "down" /\ f.id \notin connections_

FunctorsFit == \A l \in Loops : \A f \in FunctorSet : Waits(queue, l, f) => Fits(l, f)

\* A connection is in the map until it is down, and then until its pointer
\* has gone on to connectionDestroyed().
ConnFits(id) ==
  /\ conn[id] \in {"connecting", "up"} => id \in connections_
  /\ conn[id] = "down" =>
       \/ id \in connections_
       \/ Waits(queue, loopOf[id], Functor("connectionDestroyed", id))
  /\ id \in connections_ => conn[id] \in {"connecting", "up", "down"}
  /\ id >= nextConnId_ => conn[id] = "none"

ActiveFits ==
  \A l \in Loops : \A id \in active[l] : conn[id] = "up" /\ l = loopOf[id]

Orderly == /\ FunctorsFit /\ OneEach(queue) /\ ActiveFits
           /\ \A id \in Ids : ConnFits(id)

\* The destructor found no connection: nothing is left to be done.
Calm == /\ \A id \in Ids : conn[id] \in {"none", "destroyed"}
        /\ \A l \in Loops : queue[l] = <<>> /\ active[l] = {}

Ownership ==
  /\ server = "alive" => Orderly /\ ~openAtDtor /\ fault = "none"
  /\ server # "alive" /\ ~openAtDtor => Calm /\ fault = "none"

(* What waits is a functor.                                                 *)
LEMMA WaitsType ==
  ASSUME NEW q \in [Loops -> Seq(FunctorSet)], NEW l \in Loops, NEW f,
         Waits(q, l, f)
  PROVE  f \in FunctorSet /\ f.id \in Ids
<1>1. PICK i \in 1..Len(q[l]) : q[l][i] = f
  BY DEF Waits
<1>2. q[l] \in Seq(FunctorSet)
  OBVIOUS
<1>3. q[l][i] \in FunctorSet
  BY <1>2, ElementOfSeq
<1> QED BY <1>1, <1>3 DEF FunctorSet

(* newConnection() while the server lives.                                  *)
LEMMA NewConnectionOrderly ==
  ASSUME TypeOK, Arrivals, backlog > 0, Orderly, NewConnection, UNCHANGED active
  PROVE  Orderly'
<1> DEFINE n == nextConnId_
           f == Functor("connectionEstablished", n)
<1>0. /\ n \in Ids /\ NextLoop \in Loops /\ n \in Nat
      /\ queue \in [Loops -> Seq(FunctorSet)] /\ active \in [Loops -> SUBSET Ids]
      /\ conn \in [Ids -> {"none", "connecting", "up", "down", "destroyed"}]
      /\ loopOf \in [Ids -> Loops] /\ connections_ \subseteq Ids
  BY NextId, NextLoopType DEF TypeOK
<1>1. /\ nextConnId_' = n + 1
      /\ loopOf' = [loopOf EXCEPT ![n] = NextLoop]
      /\ connections_' = connections_ \cup {n}
      /\ conn' = [conn EXCEPT ![n] = IF NextLoop = Base THEN "up" ELSE "connecting"]
      /\ queue' = IF NextLoop = Base THEN queue
                  ELSE [queue EXCEPT ![NextLoop] = Append(@, f)]
      /\ active' = active
  BY DEF NewConnection
<1>2. conn[n] = "none" /\ n \notin connections_
  <2>1. ConnFits(n) /\ n >= nextConnId_
    BY <1>0 DEF Orderly
  <2>2. conn[n] = "none"
    BY <2>1 DEF ConnFits
  <2> QED BY <2>1, <2>2 DEF ConnFits
<1>3. ASSUME NEW l \in Loops, NEW g \in FunctorSet, Waits(queue, l, g)
      PROVE  Fits(l, g) /\ g.id # n
  <2> HIDE DEF n
  <2>1. Fits(l, g)
    BY <1>3 DEF Orderly, FunctorsFit
  <2> QED BY <1>2, <2>1 DEF Fits
<1>4. f \in FunctorSet /\ f.id = n /\ f.op = "connectionEstablished"
  BY <1>0 DEF FunctorSet, Functor
<1>5. /\ loopOf'[n] = NextLoop
      /\ conn'[n] = IF NextLoop = Base THEN "up" ELSE "connecting"
      /\ \A id \in Ids \ {n} : loopOf'[id] = loopOf[id] /\ conn'[id] = conn[id]
      /\ \A id \in Ids \ {n} : id \in connections_' <=> id \in connections_
      /\ n \in connections_'
  BY <1>0, <1>1
<1>6. /\ OneEach(queue')
      /\ \A l \in Loops : \A g : Waits(queue', l, g)
           <=> Waits(queue, l, g) \/ (l = NextLoop /\ NextLoop # Base /\ g = f)
  <2>1. CASE NextLoop = Base
    BY <1>1, <2>1 DEF Orderly
  <2>2. CASE NextLoop # Base
    <3>1. queue' = Pushed(queue, NextLoop, f) /\ OneEach(queue)
      BY <1>1, <2>2 DEF Orderly, Pushed
    <3>2. \A l \in Loops : \A g : Waits(queue, l, g) => g.id # f.id
      BY <1>0, <1>3, <1>4, WaitsType
    <3> HIDE DEF f
    <3>3. /\ OneEach(queue')
          /\ \A k \in Loops : \A g : Waits(queue', k, g)
               <=> Waits(queue, k, g) \/ (k = NextLoop /\ g = f)
      BY <1>0, <1>4, <3>1, <3>2, PushWaits, Zenon
    <3> QED BY <2>2, <3>3, Zenon
  <2> QED BY <2>1, <2>2
<1> HIDE DEF n, f
<1>7. ASSUME NEW l \in Loops, NEW g \in FunctorSet, Waits(queue', l, g)
      PROVE  Fits(l, g)'
  <2>1. CASE Waits(queue, l, g)
    <3>1. Fits(l, g) /\ g.id # n /\ g.id \in Ids
      BY <1>3, <2>1 DEF FunctorSet
    <3> QED BY <1>5, <3>1 DEF Fits
  <2>2. CASE l = NextLoop /\ NextLoop # Base /\ g = f
    BY <1>4, <1>5, <2>2 DEF Fits
  <2> QED BY <1>6, <1>7, <2>1, <2>2
<1>8. \A l \in Loops : \A id \in active'[l] : conn'[id] = "up" /\ l = loopOf'[id]
  <2> SUFFICES ASSUME NEW l \in Loops, NEW id \in active[l]
               PROVE  conn'[id] = "up" /\ l = loopOf'[id]
    BY <1>1
  <2>1. conn[id] = "up" /\ l = loopOf[id] /\ id \in Ids
    BY <1>0 DEF Orderly, ActiveFits
  <2> QED BY <1>2, <1>5, <2>1
<1>9. ASSUME NEW id \in Ids PROVE ConnFits(id)'
  <2>1. CASE id = n
    BY <1>0, <1>1, <1>5, <2>1 DEF ConnFits, n
  <2>2. CASE id # n
    <3>1. ConnFits(id) /\ loopOf[id] \in Loops
      BY <1>0 DEF Orderly
    <3>2. Waits(queue, loopOf[id], Functor("connectionDestroyed", id))
            => Waits(queue', loopOf'[id], Functor("connectionDestroyed", id))
      BY <1>5, <1>6, <2>2, <3>1
    <3>3. id >= nextConnId_' => id >= nextConnId_
      BY <1>0, <1>1 DEF Ids, n
    <3> QED BY <1>5, <2>2, <3>1, <3>2, <3>3 DEF ConnFits, Waits
  <2> QED BY <2>1, <2>2
<1>10. OneEach(queue)'
  BY <1>6 DEF OneEach
<1>11. FunctorsFit'
  BY <1>7 DEF FunctorsFit, Waits
<1> QED BY <1>8, <1>9, <1>10, <1>11 DEF Orderly, ActiveFits

(* A step that concerns one connection alone: if the parts about it hold    *)
(* afterwards, all do.                                                      *)
LEMMA OneConnection ==
  ASSUME TypeOK, TypeOK', Orderly, NEW x \in Ids,
         UNCHANGED <<loopOf, nextConnId_>>, OneEach(queue'),
         \A id \in Ids \ {x} : conn'[id] = conn[id]
                               /\ (id \in connections_' <=> id \in connections_),
         \A l \in Loops : \A g : g.id # x => (Waits(queue', l, g) <=> Waits(queue, l, g)),
         \A l \in Loops : \A id \in active'[l] : id # x => id \in active[l],
         \A l \in Loops : \A g \in FunctorSet :
            g.id = x /\ Waits(queue', l, g) => Fits(l, g)',
         \A l \in Loops : x \in active'[l] => conn'[x] = "up" /\ l = loopOf[x],
         ConnFits(x)'
  PROVE  Orderly'
<1>1. ASSUME NEW l \in Loops, NEW g \in FunctorSet, Waits(queue', l, g)
      PROVE  Fits(l, g)'
  <2>1. CASE g.id = x
    BY <1>1, <2>1
  <2>2. CASE g.id # x
    <3>1. g.id \in Ids /\ Fits(l, g)
      BY <1>1, <2>2 DEF FunctorSet, Orderly, FunctorsFit
    <3>2. /\ conn'[g.id] = conn[g.id] /\ loopOf'[g.id] = loopOf[g.id]
          /\ g.id \in connections_' <=> g.id \in connections_
      BY <2>2, <3>1
    <3> QED BY <3>1, <3>2 DEF Fits
  <2> QED BY <2>1, <2>2
<1>2. ASSUME NEW l \in Loops, NEW id \in active'[l]
      PROVE  conn'[id] = "up" /\ l = loopOf'[id]
  <2>1. id \in Ids
    BY DEF TypeOK
  <2>2. CASE id # x
    BY <2>1, <2>2 DEF Orderly, ActiveFits
  <2> QED BY <2>2
<1>3. ASSUME NEW id \in Ids PROVE ConnFits(id)'
  <2>1. CASE id # x
    <3>1. Functor("connectionDestroyed", id).id # x /\ loopOf[id] \in Loops
      BY <2>1 DEF Functor, TypeOK
    <3>2. Waits(queue, loopOf[id], Functor("connectionDestroyed", id))
            => Waits(queue', loopOf'[id], Functor("connectionDestroyed", id))
      BY <3>1
    <3>3. /\ conn'[id] = conn[id] /\ nextConnId_' = nextConnId_
          /\ id \in connections_' <=> id \in connections_
      BY <2>1
    <3> QED BY <3>2, <3>3 DEF ConnFits, Waits, Orderly
  <2> QED BY <2>1
<1>4. OneEach(queue)'
  BY DEF OneEach
<1>5. FunctorsFit'
  BY <1>1 DEF FunctorsFit, Waits
<1> QED BY <1>2, <1>3, <1>4, <1>5 DEF Orderly, ActiveFits

(* No functor of a connection that is up waits anywhere.                    *)
LEMMA UpIsQuiet ==
  ASSUME TypeOK, Orderly, NEW x \in Ids, conn[x] = "up"
  PROVE  \A l \in Loops : \A g : Waits(queue, l, g) => g.id # x
<1> SUFFICES ASSUME NEW l \in Loops, NEW g, Waits(queue, l, g) PROVE g.id # x
  OBVIOUS
<1>1. g \in FunctorSet
  BY WaitsType DEF TypeOK
<1>2. Fits(l, g)
  BY <1>1 DEF Orderly, FunctorsFit
<1> QED BY <1>2 DEF Fits

(* A functor waits: its connection is owned.                                *)
LEMMA WaitingIsOwned ==
  ASSUME TypeOK, NEW l \in Loops, NEW f \in FunctorSet, Waits(queue, l, f)
  PROVE  Owned(f.id)
<1>1. PICK i \in 1..Len(queue[l]) : queue[l][i] = f
  BY DEF Waits
<1>2. queue[l] \in Seq(FunctorSet)
  BY DEF TypeOK
<1>3. i \in DOMAIN queue[l]
  BY <1>2, LenProperties
<1> QED BY <1>1, <1>3 DEF Owned

(* handleClose() while the server lives: the connection is in the map, so   *)
(* neither the channel's raw pointer nor the assert fails.                  *)
LEMMA HandleCloseOrderly ==
  ASSUME TypeOK, TypeOK', Orderly, server = "alive", fault = "none",
         NEW l \in Loops, HandleClose(l)
  PROVE  Orderly' /\ fault' = "none"
<1>1. PICK id \in active[l] :
        /\ active' = [active EXCEPT ![l] = @ \ {id}]
        /\ IF ~Alive(id) THEN /\ fault' = "connection"
                              /\ UNCHANGED <<conn, connections_, queue>>
           ELSE /\ conn' = [conn EXCEPT ![id] = "down"]
                /\ IF server = "dead" THEN fault' = "server" /\ UNCHANGED <<connections_, queue>>
                   ELSE IF l = Base THEN RemoveConnectionInLoop(id, queue)
                   ELSE /\ queue' = [queue EXCEPT ![Base] =
                                       Append(@, Functor("removeConnectionInLoop", id))]
                        /\ UNCHANGED <<connections_, fault>>
        /\ UNCHANGED <<loopOf, nextConnId_>>
  BY DEF HandleClose
<1>2. /\ id \in Ids /\ conn[id] = "up" /\ l = loopOf[id]
      /\ active \in [Loops -> SUBSET Ids] /\ queue \in [Loops -> Seq(FunctorSet)]
      /\ conn \in [Ids -> {"none", "connecting", "up", "down", "destroyed"}]
  BY DEF TypeOK, Orderly, ActiveFits
<1>3. id \in connections_ /\ ~ (id >= nextConnId_) /\ OneEach(queue)
  BY <1>2 DEF Orderly, ConnFits
<1>4. Alive(id)
  BY <1>2, <1>3 DEF Alive, Owned
<1>5. \A k \in Loops : \A g : Waits(queue, k, g) => g.id # id
  BY <1>2, UpIsQuiet
<1> DEFINE op == IF l = Base THEN "connectionDestroyed" ELSE "removeConnectionInLoop"
           at == IF l = Base THEN loopOf[id] ELSE Base
           f == Functor(op, id)
<1>6. /\ conn' = [conn EXCEPT ![id] = "down"] /\ fault' = fault
      /\ queue' = Pushed(queue, at, f)
      /\ connections_' = IF l = Base THEN connections_ \ {id} ELSE connections_
  BY <1>1, <1>3, <1>4 DEF RemoveConnectionInLoop, Pushed
<1>7. f \in FunctorSet /\ f.id = id /\ f.op = op /\ at \in Loops
  BY <1>2 DEF Functor, FunctorSet, TypeOK, Base, Loops
<1>8. /\ conn'[id] = "down" /\ loopOf' = loopOf /\ nextConnId_' = nextConnId_
      /\ \A i \in Ids \ {id} : conn'[i] = conn[i]
                               /\ (i \in connections_' <=> i \in connections_)
      /\ id \in connections_' <=> l # Base
      /\ \A k \in Loops : \A i \in active'[k] : i # id => i \in active[k]
      /\ id \notin active'[l] /\ \A k \in Loops : k # l => active'[k] = active[k]
  BY <1>1, <1>2, <1>3, <1>6
<1>9. \A k \in Loops : id \notin active'[k]
  BY <1>2, <1>8 DEF Orderly, ActiveFits
<1>10. \/ op = "connectionDestroyed" /\ at = loopOf[id] /\ l = Base
       \/ op = "removeConnectionInLoop" /\ at = Base /\ l # Base
  OBVIOUS
<1> HIDE DEF f, op, at
<1>11. /\ OneEach(queue')
       /\ \A k \in Loops : \A g : Waits(queue', k, g)
            <=> Waits(queue, k, g) \/ (k = at /\ g = f)
  BY <1>2, <1>3, <1>5, <1>6, <1>7, PushWaits, Zenon
<1>12. \A k \in Loops : \A g : g.id # id => (Waits(queue', k, g) <=> Waits(queue, k, g))
  BY <1>7, <1>11, Zenon
<1>13. ASSUME NEW k \in Loops, NEW g \in FunctorSet, g.id = id, Waits(queue', k, g)
       PROVE  Fits(k, g)'
  <2>1. k = at /\ g = f
    BY <1>5, <1>11, <1>13, Zenon
  <2> QED BY <1>7, <1>8, <1>10, <2>1 DEF Fits
<1>14. ConnFits(id)'
  <2>1. CASE l = Base
    <3>1. f = Functor("connectionDestroyed", id) /\ at = loopOf[id]
      BY <1>10, <2>1 DEF f, op
    <3>2. Waits(queue', loopOf'[id], Functor("connectionDestroyed", id))
      BY <1>7, <1>8, <1>11, <3>1
    <3> QED BY <1>3, <1>8, <2>1, <3>2 DEF ConnFits, Waits
  <2>2. CASE l # Base
    BY <1>3, <1>8, <2>2 DEF ConnFits
  <2> QED BY <2>1, <2>2
<1> HIDE DEF Orderly
<1>15. Orderly'
  BY <1>2, <1>8, <1>9, <1>11, <1>12, <1>13, <1>14, OneConnection, Zenon
<1> QED BY <1>6, <1>15

(* A functor at the head of a queue while the server lives.                 *)
LEMMA HeadFits ==
  ASSUME TypeOK, Orderly, NEW l \in Loops, queue[l] # <<>>
  PROVE  /\ Head(queue[l]) \in FunctorSet /\ Head(queue[l]).id \in Ids
         /\ Waits(queue, l, Head(queue[l])) /\ Fits(l, Head(queue[l]))
         /\ Popped(l) \in [Loops -> Seq(FunctorSet)] /\ OneEach(Popped(l))
         /\ \A k \in Loops : \A g : Waits(Popped(l), k, g)
              <=> Waits(queue, k, g) /\ g.id # Head(queue[l]).id
<1>1. /\ queue \in [Loops -> Seq(FunctorSet)] /\ OneEach(queue)
      /\ Popped(l) = Taken(queue, l)
  BY DEF TypeOK, Orderly, Popped, Taken
<1>2. /\ Popped(l) \in [Loops -> Seq(FunctorSet)]
      /\ Waits(queue, l, Head(queue[l]))
      /\ \A k \in Loops : \A g : Waits(Popped(l), k, g)
           <=> Waits(queue, k, g) /\ g.id # Head(queue[l]).id
      /\ OneEach(Popped(l))
  <2>1. /\ Taken(queue, l) \in [Loops -> Seq(FunctorSet)]
        /\ Waits(queue, l, Head(queue[l]))
        /\ \A k \in Loops : \A g : Waits(Taken(queue, l), k, g)
             <=> Waits(queue, k, g) /\ g.id # Head(queue[l]).id
        /\ OneEach(Taken(queue, l))
    BY <1>1, PopWaits, Zenon
  <2> QED BY <1>1, <2>1
<1>3. Head(queue[l]) \in FunctorSet /\ Head(queue[l]).id \in Ids
  BY HeadType
<1>4. Fits(l, Head(queue[l]))
  BY <1>2, <1>3 DEF Orderly, FunctorsFit
<1> QED BY <1>2, <1>3, <1>4, Zenon

(* connectionEstablished() and connectionDestroyed() while the server lives.*)
LEMMA RunConnectionOrderly ==
  ASSUME TypeOK, TypeOK', Orderly, NEW l \in Loops,
         RunConnectionEstablished(l) \/ RunConnectionDestroyed(l)
  PROVE  Orderly'
<1>0. queue[l] # <<>>
  BY DEF RunConnectionEstablished, RunConnectionDestroyed, Run
<1> PICK h \in FunctorSet : h = Head(queue[l])
  BY <1>0, HeadType
<1> PICK x \in Ids : x = h.id
  BY DEF FunctorSet
<1> DEFINE c == IF h.op = "connectionEstablished" THEN "up" ELSE "destroyed"
<1>1. /\ queue[l] # <<>> /\ h.op \in {"connectionEstablished", "connectionDestroyed"}
      /\ UNCHANGED <<active, connections_, loopOf, nextConnId_>>
      /\ queue' = Popped(l) /\ conn' = [conn EXCEPT ![x] = c]
      /\ conn \in [Ids -> {"none", "connecting", "up", "down", "destroyed"}]
  BY DEF RunConnectionEstablished, RunConnectionDestroyed, Run, TypeOK
<1>2. /\ x \in Ids /\ Fits(l, h) /\ OneEach(Popped(l))
      /\ \A k \in Loops : \A g : Waits(Popped(l), k, g) <=> Waits(queue, k, g) /\ g.id # x
  BY <1>1, HeadFits
<1>3. OneEach(queue') /\ \A k \in Loops : \A g : Waits(queue', k, g)
                                             <=> Waits(queue, k, g) /\ g.id # x
  BY <1>1, <1>2
<1>4. \/ conn[x] = "connecting" /\ c = "up"
      \/ conn[x] = "down" /\ c = "destroyed" /\ x \notin connections_
  BY <1>1, <1>2 DEF Fits
<1> HIDE DEF c
<1>5. conn'[x] = c /\ \A i \in Ids \ {x} : conn'[i] = conn[i]
  BY <1>1, <1>2
<1>6. \A k \in Loops : x \notin active[k]
  BY <1>4 DEF Orderly, ActiveFits
<1>7. ConnFits(x)'
  <2>1. ConnFits(x)
    BY <1>2 DEF Orderly
  <2> QED BY <1>1, <1>4, <1>5, <2>1 DEF ConnFits
<1>8. ASSUME NEW k \in Loops, NEW g \in FunctorSet, g.id = x, Waits(queue', k, g)
      PROVE  Fits(k, g)'
  BY <1>3, <1>8, Zenon
<1>9. /\ UNCHANGED <<loopOf, nextConnId_>>
      /\ \A i \in Ids \ {x} : conn'[i] = conn[i]
                              /\ (i \in connections_' <=> i \in connections_)
      /\ \A k \in Loops : \A g : g.id # x => (Waits(queue', k, g) <=> Waits(queue, k, g))
      /\ \A k \in Loops : \A i \in active'[k] : i # x => i \in active[k]
      /\ \A k \in Loops : x \in active'[k] => conn'[x] = "up" /\ k = loopOf[x]
  BY <1>1, <1>3, <1>5, <1>6
<1> QED BY <1>2, <1>3, <1>7, <1>8, <1>9, OneConnection, Zenon

(* removeConnectionInLoop() as a functor while the server lives: the map    *)
(* has the connection.                                                      *)
LEMMA RunRemoveOrderly ==
  ASSUME TypeOK, TypeOK', Orderly, server = "alive", fault = "none",
         RunRemoveConnectionInLoop
  PROVE  Orderly' /\ fault' = "none"
<1>0. Base \in Loops /\ queue[Base] # <<>>
  BY DEF RunRemoveConnectionInLoop, Run, Base, Loops
<1> PICK h \in FunctorSet : h = Head(queue[Base])
  BY <1>0, HeadType
<1> PICK x \in Ids : x = h.id
  BY DEF FunctorSet
<1> DEFINE f == Functor("connectionDestroyed", x)
<1>1. /\ Base \in Loops /\ queue[Base] # <<>> /\ h.op = "removeConnectionInLoop"
      /\ UNCHANGED <<active, loopOf, nextConnId_, conn>>
      /\ RemoveConnectionInLoop(x, Popped(Base))
  BY DEF RunRemoveConnectionInLoop, Run, Base, Loops
<1>2. /\ x \in Ids /\ Fits(Base, h) /\ OneEach(Popped(Base))
      /\ Popped(Base) \in [Loops -> Seq(FunctorSet)]
      /\ \A k \in Loops : \A g : Waits(Popped(Base), k, g)
           <=> Waits(queue, k, g) /\ g.id # x
  BY <1>1, HeadFits
<1>3. conn[x] = "down" /\ x \in connections_
  BY <1>1, <1>2 DEF Fits
<1>4. /\ connections_' = connections_ \ {x} /\ fault' = fault
      /\ queue' = Pushed(Popped(Base), loopOf[x], f)
  BY <1>1, <1>3 DEF RemoveConnectionInLoop, Pushed
<1>5. /\ f \in FunctorSet /\ f.id = x /\ f.op = "connectionDestroyed"
      /\ loopOf[x] \in Loops
  BY <1>2 DEF Functor, FunctorSet, TypeOK
<1> HIDE DEF f
<1>6. \A k \in Loops : \A g : Waits(Popped(Base), k, g) => g.id # f.id
  BY <1>2, <1>5
<1>7. /\ OneEach(queue')
      /\ \A k \in Loops : \A g : Waits(queue', k, g)
           <=> Waits(Popped(Base), k, g) \/ (k = loopOf[x] /\ g = f)
  BY <1>2, <1>4, <1>5, <1>6, PushWaits, Zenon
<1>8. \A k \in Loops : \A g : g.id # x => (Waits(queue', k, g) <=> Waits(queue, k, g))
  BY <1>2, <1>5, <1>7, Zenon
<1>9. ASSUME NEW k \in Loops, NEW g \in FunctorSet, g.id = x, Waits(queue', k, g)
      PROVE  Fits(k, g)'
  <2>1. k = loopOf[x] /\ g = f
    BY <1>2, <1>7, <1>9, Zenon
  <2> QED BY <1>1, <1>3, <1>4, <1>5, <2>1 DEF Fits
<1>10. ConnFits(x)'
  <2>1. Waits(queue', loopOf'[x], Functor("connectionDestroyed", x))
    BY <1>1, <1>5, <1>7 DEF f
  <2>2. ConnFits(x)
    BY <1>2 DEF Orderly
  <2> QED BY <1>1, <1>3, <1>4, <2>1, <2>2 DEF ConnFits, Waits
<1>11. /\ UNCHANGED <<loopOf, nextConnId_>>
       /\ \A i \in Ids \ {x} : conn'[i] = conn[i]
                               /\ (i \in connections_' <=> i \in connections_)
       /\ \A k \in Loops : \A i \in active'[k] : i # x => i \in active[k]
       /\ \A k \in Loops : x \in active'[k] => conn'[x] = "up" /\ k = loopOf[x]
  BY <1>1, <1>3, <1>4 DEF Orderly, ActiveFits
<1>12. Orderly'
  BY <1>2, <1>7, <1>8, <1>9, <1>10, <1>11, OneConnection, Zenon
<1> QED BY <1>4, <1>12

(* What the destructor finds, and leaves.                                   *)
LEMMA DestroyCalm ==
  ASSUME TypeOK, Orderly, Destroy, ~openAtDtor'
  PROVE  Calm'
<1>1. /\ UNCHANGED <<conn, queue, active>>
      /\ \A id \in Ids : conn[id] \notin {"connecting", "up", "down"}
  BY DEF Destroy
<1>2. \A id \in Ids : conn[id] \in {"none", "destroyed"}
  BY <1>1 DEF TypeOK
<1>3. \A l \in Loops : active[l] = {}
  BY <1>2 DEF Orderly, ActiveFits, TypeOK
<1>4. ASSUME NEW l \in Loops, queue[l] # <<>> PROVE FALSE
  <2>1. Head(queue[l]).id \in Ids /\ Fits(l, Head(queue[l]))
    BY <1>4, HeadFits
  <2> QED BY <1>2, <2>1 DEF Fits
<1> QED BY <1>1, <1>2, <1>3, <1>4 DEF Calm

(* Once calm, for ever calm.                                                *)
LEMMA CalmSteps ==
  ASSUME TypeOK, Calm, server # "alive", [Next]_vars
  PROVE  Calm' /\ fault' = fault /\ openAtDtor' = openAtDtor /\ server' # "alive"
<1>0. USE DEF serverVars, kernelVars
<1>1. CASE JoinThreads
  BY <1>1 DEF JoinThreads, Calm
<1>2. CASE UserKeeps \/ ClientArrives \/ PeerCloses \/ (\E id \in Ids : UserDrops(id))
  BY <1>2 DEF UserKeeps, ClientArrives, PeerCloses, UserDrops, Calm
<1>3. ASSUME NEW l \in Loops, Poll(l) PROVE FALSE
  BY <1>3 DEF Poll, Calm, TypeOK
<1>4. ASSUME NEW l \in Loops, HandleClose(l) \/ Functors(l) PROVE FALSE
  BY <1>4 DEF HandleClose, Functors, RunConnectionEstablished,
     RunConnectionDestroyed, RunRemoveConnectionInLoop, Run, Calm, Base, Loops
<1>5. CASE UNCHANGED vars
  BY <1>5 DEF vars, Calm
<1>6. ~Start /\ ~HandleRead /\ ~Destroy
  BY DEF Start, HandleRead, Destroy
<1> QED BY <1>1, <1>2, <1>3, <1>4, <1>5, <1>6 DEF Next

(* A step that leaves the map, the connections and the queues alone, and    *)
(* takes up only events of connections that are up.                         *)
LEMMA OrderlyKept ==
  ASSUME Orderly, UNCHANGED <<nextConnId_, connections_, loopOf, conn, queue>>,
         \A l \in Loops : \A id \in active'[l] :
            id \in active[l] \/ (conn[id] = "up" /\ l = loopOf[id])
  PROVE  Orderly'
<1>1. FunctorsFit' /\ OneEach(queue)'
  BY DEF Orderly, FunctorsFit, Waits, OneEach, Fits
<1>2. ActiveFits'
  BY DEF Orderly, ActiveFits
<1>3. ASSUME NEW id \in Ids PROVE ConnFits(id)'
  BY DEF Orderly, ConnFits, Waits
<1> QED BY <1>1, <1>2, <1>3 DEF Orderly

(* Every step of a living server.                                           *)
LEMMA OrderlySteps ==
  ASSUME TypeOK, TypeOK', Arrivals, Orderly, server = "alive", fault = "none",
         ~Destroy, [Next]_vars
  PROVE  Orderly' /\ fault' = "none"
<1> USE DEF serverVars, kernelVars
<1>1. CASE Start
  <2>1. UNCHANGED <<nextConnId_, connections_, loopOf, conn, queue, active, fault>>
    BY <1>1 DEF Start
  <2> QED BY <2>1, OrderlyKept
<1>2. CASE HandleRead
  <2>1. backlog > 0 /\ active' = active /\ fault' = fault
    BY <1>2 DEF HandleRead
  <2>2. CASE NewConnection
    BY <2>1, <2>2, NewConnectionOrderly
  <2>3. CASE UNCHANGED <<nextConnId_, next_, loopOf, connections_, conn, queue>>
    BY <2>1, <2>3, OrderlyKept
  <2> QED BY <1>2, <2>2, <2>3 DEF HandleRead
<1>3. CASE UserKeeps \/ ClientArrives \/ PeerCloses \/ (\E id \in Ids : UserDrops(id))
  <2>1. UNCHANGED <<nextConnId_, connections_, loopOf, conn, queue, active, fault>>
    BY <1>3 DEF UserKeeps, ClientArrives, PeerCloses, UserDrops
  <2> QED BY <2>1, OrderlyKept
<1>4. ASSUME NEW l \in Loops, Poll(l) PROVE Orderly' /\ fault' = "none"
  <2>1. /\ UNCHANGED <<nextConnId_, connections_, loopOf, conn, queue, fault>>
        /\ active \in [Loops -> SUBSET Ids]
        /\ active' = [active EXCEPT ![l] =
             {id \in closed : loopOf[id] = l /\ Alive(id) /\ conn[id] = "up"}]
    BY <1>4 DEF Poll, TypeOK
  <2>2. \A k \in Loops : \A id \in active'[k] :
           id \in active[k] \/ (conn[id] = "up" /\ k = loopOf[id])
    BY <2>1
  <2> QED BY <2>1, <2>2, OrderlyKept
<1>5. ASSUME NEW l \in Loops, HandleClose(l) PROVE Orderly' /\ fault' = "none"
  BY <1>5, HandleCloseOrderly
<1>6. ASSUME NEW l \in Loops, Functors(l) PROVE Orderly' /\ fault' = "none"
  <2>1. CASE RunConnectionEstablished(l) \/ RunConnectionDestroyed(l)
    <3>1. fault' = fault
      BY <2>1 DEF RunConnectionEstablished, RunConnectionDestroyed
    <3> QED BY <2>1, <3>1, RunConnectionOrderly
  <2>2. CASE RunRemoveConnectionInLoop
    BY <2>2, RunRemoveOrderly
  <2> QED BY <1>6, <2>1, <2>2 DEF Functors
<1>7. CASE UNCHANGED vars
  <2>1. UNCHANGED <<nextConnId_, connections_, loopOf, conn, queue, active, fault>>
    BY <1>7 DEF vars
  <2> QED BY <2>1, OrderlyKept
<1>8. ~JoinThreads
  BY DEF JoinThreads
<1> QED BY <1>1, <1>2, <1>3, <1>4, <1>5, <1>6, <1>7, <1>8 DEF Next

(* Ownership is inductive.                                                  *)
LEMMA OwnershipInvariant == Spec => []Ownership
<1>1. Init => Ownership
  <2> SUFFICES ASSUME Init PROVE Ownership
    OBVIOUS
  <2>1. /\ server = "alive" /\ nextConnId_ = 1 /\ connections_ = {}
        /\ conn = [id \in Ids |-> "none"] /\ queue = [l \in Loops |-> <<>>]
        /\ active = [l \in Loops |-> {}] /\ openAtDtor = FALSE /\ fault = "none"
    BY DEF Init
  <2>2. \A l \in Loops : 1..Len(queue[l]) = {}
    BY <2>1
  <2>3. FunctorsFit /\ OneEach(queue)
    BY <2>2 DEF FunctorsFit, OneEach, Waits
  <2>4. ActiveFits /\ \A id \in Ids : ConnFits(id)
    BY <2>1 DEF ActiveFits, ConnFits
  <2> QED BY <2>1, <2>3, <2>4 DEF Ownership, Orderly
<1>2. TypeOK /\ TypeOK' /\ Arrivals /\ Ownership /\ [Next]_vars => Ownership'
  <2> SUFFICES ASSUME TypeOK, TypeOK', Arrivals, Ownership, [Next]_vars
               PROVE  Ownership'
    OBVIOUS
  <2>1. CASE server = "alive" /\ Destroy
    <3>1. server' # "alive" /\ fault' = fault
      BY <2>1 DEF Destroy
    <3>2. ~openAtDtor' => Calm'
      BY <2>1, DestroyCalm DEF Ownership
    <3> QED BY <2>1, <3>1, <3>2 DEF Ownership
  <2>2. CASE server = "alive" /\ ~Destroy
    <3>1. Orderly' /\ fault' = "none"
      BY <2>2, OrderlySteps DEF Ownership
    <3>2. ~JoinThreads
      BY <2>2 DEF JoinThreads
    <3>3. server' = server /\ openAtDtor' = openAtDtor
      BY <2>2, <3>2 DEF Next, vars, serverVars, Start, HandleRead, UserKeeps,
         ClientArrives, PeerCloses, UserDrops, Poll, HandleClose, Functors,
         RunConnectionEstablished, RunConnectionDestroyed,
         RunRemoveConnectionInLoop, Run
    <3> QED BY <2>2, <3>1, <3>3 DEF Ownership
  <2>3. CASE server # "alive" /\ ~openAtDtor
    BY <2>3, CalmSteps DEF Ownership
  <2>4. CASE server # "alive" /\ openAtDtor
    <3>1. ~Destroy
      BY <2>4 DEF Destroy
    <3>2. server' # "alive" /\ openAtDtor' = openAtDtor
      BY <2>4, <3>1 DEF Next, vars, serverVars, Start, HandleRead, UserKeeps,
         ClientArrives, PeerCloses, UserDrops, Poll, HandleClose, Functors,
         RunConnectionEstablished, RunConnectionDestroyed, JoinThreads,
         RunRemoveConnectionInLoop, Run
    <3> QED BY <2>4, <3>2 DEF Ownership
  <2> QED BY <2>1, <2>2, <2>3, <2>4
<1> QED BY <1>1, <1>2, TypeAndArrivals, PTL DEF Spec

(* While the server lives, a connection with a channel in a poller is owned *)
(* by connections_ or by a functor between the loops, whatever the order in *)
(* which the loops run, the peers close and the users keep and drop their   *)
(* pointers: removeConnection(), removeConnectionInLoop() and               *)
(* connectionDestroyed() hand the pointer on without a gap.                 *)
THEOREM RegisteredAlwaysOwned == Spec => []RegisteredIsOwned
<1>1. TypeOK /\ Ownership => RegisteredIsOwned
  <2> SUFFICES ASSUME TypeOK, Orderly, NEW id \in Ids, conn[id] \in {"up", "down"}
               PROVE  Owned(id)
    BY DEF Ownership, RegisteredIsOwned
  <2>1. CASE id \in connections_
    BY <2>1 DEF Owned
  <2>2. CASE Waits(queue, loopOf[id], Functor("connectionDestroyed", id))
    <3>1. /\ Functor("connectionDestroyed", id) \in FunctorSet
          /\ Functor("connectionDestroyed", id).id = id /\ loopOf[id] \in Loops
      BY DEF Functor, FunctorSet, TypeOK
    <3> QED BY <2>2, <3>1, WaitingIsOwned
  <2> QED BY <2>1, <2>2 DEF Orderly, ConnFits
<1> QED BY <1>1, OwnershipInvariant, TypeAndArrivals, PTL

(* The assert of removeConnectionInLoop() holds, and no freed connection or *)
(* server is used, until a destructor that finds connections.               *)
THEOREM FaultsOnlyAfterDtor == Spec => []FaultOnlyAfterDtor
<1>1. TypeOK /\ Ownership => FaultOnlyAfterDtor
  BY DEF TypeOK, Ownership, FaultOnlyAfterDtor
<1> QED BY <1>1, OwnershipInvariant, TypeAndArrivals, PTL
==============================================================================
