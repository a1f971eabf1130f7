-------------------------- MODULE ThreadTimerProofs --------------------------
(***************************************************************************)
(* TLAPS proofs about the two parts that are built around one event loop:  *)
(* the thread that runs it (module EventLoopThread) and the timers it      *)
(* serves (module TimerQueue).                                             *)
(*                                                                         *)
(* The thread: startLoop() returns a loop that exists, and until one of    *)
(* the two threads touches a loop that is gone, what they do with it       *)
(* together is the behaviour of module EventLoop, so that what is proved   *)
(* there holds of the loop here.                                           *)
(*                                                                         *)
(* The timers, for any number of them and any bounds: the type invariant,  *)
(* the agreement of the two timer sets, the arming of the timerfd, and the *)
(* finality of cancel().                                                   *)
(***************************************************************************)
EXTENDS TimerQueue, EventLoopThread, SequenceTheorems, WellFoundedInduction, TLAPS

ELP == INSTANCE EventLoopProofs WITH Threads <- {Owner}, IoChannels <- {},
                                     InitEventListSize <- 16, EventfdMax <- 2
------------------------------------------------------------------------------
(* Where the two threads are.                                               *)

ThreadTypes ==
  /\ threadPc \in {"none", "started", "publish", "call", "looping", "exited"}
  /\ ownerPc \in {"new", "check", "blocked", "running", "join", "done", "crashed"}
  /\ loop_ \in BOOLEAN
  /\ fault \in {"none", "null", "destroyed"}

\* loop_ is set after the constructor, and startLoop() returns after that.
LoopMade == /\ loop_ => threadPc \notin {"none", "started"}
            /\ ownerPc \in {"running", "join", "done"} => loop_

LEMMA ThreadSteps ==
  ThreadTypes /\ LoopMade /\ [ThreadNext]_allVars => ThreadTypes' /\ LoopMade'
<1> SUFFICES ASSUME ThreadTypes, LoopMade, [ThreadNext]_allVars
             PROVE  ThreadTypes' /\ LoopMade'
  OBVIOUS
<1> USE DEF ThreadTypes, LoopMade
<1>1. CASE StartLoop \/ CheckLoop \/ SpuriousWakeup
  BY <1>1 DEF StartLoop, Start, CheckLoop, SpuriousWakeup
<1>2. CASE UseLoop \/ RunLoop \/ UserFunctor \/ PollTimeout \/ UNCHANGED allVars
  <2>1. UNCHANGED threadVars
    BY <1>2 DEF UseLoop, RunLoop, UserFunctor, PollTimeout, allVars
  <2> QED BY <2>1 DEF threadVars
<1>3. CASE FinishCall
  <2>1. UNCHANGED <<threadPc, ownerPc, loop_>> /\ fault' \in {fault, "destroyed"}
    BY <1>3 DEF FinishCall
  <2> QED BY <2>1
<1>4. CASE Destroy
  <2>1. /\ ownerPc = "running" /\ ownerPc' = "join" /\ UNCHANGED <<threadPc, loop_>>
        /\ fault' \in {fault, "destroyed"}
    BY <1>4 DEF Destroy
  <2> QED BY <2>1
<1>5. CASE DestroyUnstarted \/ Join
  BY <1>5 DEF DestroyUnstarted, Join
<1>6. CASE ThreadStart \/ Publish \/ ThreadEnd
  BY <1>6 DEF ThreadStart, Publish, ThreadEnd
<1>7. CASE CallLoop
  <2>1. threadPc = "call" /\ threadPc' = "looping" /\ UNCHANGED <<ownerPc, loop_, fault>>
    BY <1>7 DEF CallLoop
  <2> QED BY <2>1
<1> QED BY <1>1, <1>2, <1>3, <1>4, <1>5, <1>6, <1>7 DEF ThreadNext, Thread

LEMMA ThreadInvariant == ThreadSpec => [](ThreadTypes /\ LoopMade)
<1>1. ThreadInit => ThreadTypes /\ LoopMade
  BY DEF ThreadInit, ThreadTypes, LoopMade
<1> QED BY <1>1, ThreadSteps, PTL DEF ThreadSpec

(* startLoop() returns a loop whose constructor has run, in whatever order  *)
(* the owner's test of loop_ and threadFunc()'s notify come, and with       *)
(* spurious wakeups.                                                        *)
THEOREM StartedLoopExists == ThreadSpec => []LoopExistsWhenStarted
<1>1. ThreadTypes /\ LoopMade => LoopExistsWhenStarted
  BY DEF ThreadTypes, LoopMade, LoopExistsWhenStarted
<1> QED BY <1>1, ThreadInvariant, PTL
------------------------------------------------------------------------------
(* The loop is a loop of module EventLoop.                                  *)

LEMMA LoopSteps == [ThreadNext]_allVars => [EL!Next]_eventLoopVars \/ fault' = "destroyed"
<1> SUFFICES ASSUME [ThreadNext]_allVars
             PROVE  UNCHANGED eventLoopVars \/ EL!Next \/ fault' = "destroyed"
  OBVIOUS
<1>1. CASE \/ StartLoop \/ CheckLoop \/ SpuriousWakeup \/ DestroyUnstarted \/ Join
           \/ ThreadStart \/ Publish \/ ThreadEnd \/ UNCHANGED allVars
  BY <1>1 DEF StartLoop, CheckLoop, SpuriousWakeup, DestroyUnstarted, Join,
     ThreadStart, Publish, ThreadEnd, allVars
<1>2. CASE UseLoop
  BY <1>2 DEF UseLoop, EL!Next
<1>3. CASE FinishCall
  BY <1>3 DEF FinishCall, EL!Next
<1>4. CASE Destroy
  BY <1>4 DEF Destroy, EL!Next
<1>5. CASE CallLoop \/ RunLoop \/ PollTimeout
  BY <1>5 DEF CallLoop, RunLoop, PollTimeout, EL!Next
<1>6. CASE UserFunctor
  BY <1>6 DEF UserFunctor, EL!Next
<1> QED BY <1>1, <1>2, <1>3, <1>4, <1>5, <1>6 DEF ThreadNext, Thread

(* Until one of the threads touches a loop that is gone, what the two do    *)
(* with it is what module EventLoop allows: its one other thread is the     *)
(* owner, and the new thread is the loop's own.                             *)
THEOREM LoopIsEventLoop ==
  ThreadSpec => EL!Init /\ [][EL!Next \/ fault' = "destroyed"]_eventLoopVars
<1>1. ThreadInit => EL!Init
  BY DEF ThreadInit
<1>2. [ThreadNext]_allVars => [EL!Next \/ fault' = "destroyed"]_eventLoopVars
  BY LoopSteps
<1> QED BY <1>1, <1>2, PTL DEF ThreadSpec

(* The loop of module EventLoop and that of its proofs are one.             *)
LEMMA SameLoop ==
  /\ EL!TypeOK <=> ELP!TypeOK
  /\ EL!WakeupInv <=> ELP!WakeupInv
  /\ EL!Next <=> ELP!Next
<1>1. EL!TypeOK <=> ELP!TypeOK
  BY Zenon DEF EL!TypeOK, ELP!TypeOK, EL!LoopPC, ELP!LoopPC
<1>2. EL!WakeupInv <=> ELP!WakeupInv
  BY Zenon DEF EL!WakeupInv, ELP!WakeupInv, EL!LateFunctorPending,
     ELP!LateFunctorPending, EL!Signalled, ELP!Signalled
<1>3. EL!Next <=> ELP!Next
  <2>1. (EL!Loop <=> ELP!Loop) /\ (EL!PollTimeout <=> ELP!PollTimeout)
    BY Zenon DEF EL!Loop, ELP!Loop, EL!PollTimeout, ELP!PollTimeout,
       EL!pollVars, ELP!pollVars, EL!queueVars, ELP!queueVars
  <2>2. \A io : EL!PollEvents(io) <=> ELP!PollEvents(io)
    <3>1. \A S : EL!Cardinality(S) = ELP!Cardinality(S)
      BY Zenon DEF EL!Cardinality, ELP!Cardinality
    <3> QED BY <3>1 DEF EL!PollEvents, ELP!PollEvents, EL!GrownEventList,
               ELP!GrownEventList, EL!queueVars, ELP!queueVars
  <2>3. EL!InUserCode <=> ELP!InUserCode
    BY Zenon DEF EL!InUserCode, ELP!InUserCode
  <2>4. EL!OwnerQuit <=> ELP!OwnerQuit
    BY <2>3, Zenon DEF EL!OwnerQuit, ELP!OwnerQuit, EL!pollVars,
       ELP!pollVars, EL!queueVars, ELP!queueVars
  <2>5. \A f : EL!OwnerQueueInLoop(f) <=> ELP!OwnerQueueInLoop(f)
    BY <2>3, Zenon DEF EL!OwnerQueueInLoop, ELP!OwnerQueueInLoop,
       EL!NeedsWakeup, ELP!NeedsWakeup, EL!AfterWrite, ELP!AfterWrite,
       EL!pollVars, ELP!pollVars, EL!queueVars, ELP!queueVars
  <2>6. /\ EL!Quit(Owner) <=> ELP!Quit(Owner)
        /\ EL!Wakeup(Owner) <=> ELP!Wakeup(Owner)
        /\ \A f : EL!QueueInLoop(Owner, f) <=> ELP!QueueInLoop(Owner, f)
    BY Zenon DEF EL!Quit, ELP!Quit, EL!Wakeup, ELP!Wakeup, EL!QueueInLoop,
       ELP!QueueInLoop, EL!NeedsWakeup, ELP!NeedsWakeup, EL!AfterWrite,
       ELP!AfterWrite, EL!pollVars, ELP!pollVars, EL!queueVars, ELP!queueVars
  <2>7. /\ EL!While <=> ELP!While
        /\ EL!HandleRead <=> ELP!HandleRead
        /\ \A c : EL!HandleEvent(c) <=> ELP!HandleEvent(c)
    BY Zenon DEF EL!While, ELP!While, EL!HandleRead, ELP!HandleRead,
       EL!HandleEvent, ELP!HandleEvent, EL!pollVars, ELP!pollVars,
       EL!queueVars, ELP!queueVars
  <2>8. /\ EL!DoPendingFunctors <=> ELP!DoPendingFunctors
        /\ EL!RunFunctor <=> ELP!RunFunctor
        /\ EL!FunctorsDone <=> ELP!FunctorsDone
    BY Zenon DEF EL!DoPendingFunctors, ELP!DoPendingFunctors, EL!RunFunctor,
       ELP!RunFunctor, EL!FunctorsDone, ELP!FunctorsDone, EL!Batch, ELP!Batch,
       EL!pollVars, ELP!pollVars, EL!queueVars, ELP!queueVars
  <2>9. EL!LoopThread <=> ELP!LoopThread
    BY <2>2, <2>7, <2>8, Zenon DEF EL!LoopThread, ELP!LoopThread
  <2>10. (\E io \in SUBSET {} : EL!PollEvents(io))
           <=> (\E io \in SUBSET {} : ELP!PollEvents(io))
    BY <2>2, Zenon
  <2>11. (\E t \in {Owner} : \/ EL!Quit(t) \/ EL!Wakeup(t)
                             \/ \E f \in Functors : EL!QueueInLoop(t, f))
         <=> (\E t \in {Owner} : \/ ELP!Quit(t) \/ ELP!Wakeup(t)
                                 \/ \E f \in Functors : ELP!QueueInLoop(t, f))
    <3>1. (\E f \in Functors : EL!QueueInLoop(Owner, f))
            <=> (\E f \in Functors : ELP!QueueInLoop(Owner, f))
      BY <2>6, Zenon
    <3> QED BY <2>6, <3>1
  <2>12. (\E f \in Functors : EL!OwnerQueueInLoop(f))
           <=> (\E f \in Functors : ELP!OwnerQueueInLoop(f))
    BY <2>5, Zenon
  <2> QED BY <2>1, <2>4, <2>9, <2>10, <2>11, <2>12, Zenon DEF EL!Next, ELP!Next
<1> QED BY <1>1, <1>2, <1>3, Zenon

(* The instance meets the assumptions under which EventLoopProofs proves.   *)
LEMMA LoopAssumptions ==
  WakeupChannel \notin {} /\ 16 \in Nat \ {0} /\ 2 \in Nat \ {0}
OBVIOUS

(* A step of module EventLoop keeps its type and the wakeups.               *)
LEMMA LoopStepKeeps ==
  ASSUME EL!TypeOK, [EL!Next]_eventLoopVars
  PROVE  EL!TypeOK' /\ (EL!WakeupInv => EL!WakeupInv')
<1>1. ELP!TypeOK' <=> EL!TypeOK'
  BY Zenon DEF EL!TypeOK, ELP!TypeOK, EL!LoopPC, ELP!LoopPC
<1>2. ELP!WakeupInv' <=> EL!WakeupInv'
  BY Zenon DEF EL!WakeupInv, ELP!WakeupInv, EL!LateFunctorPending,
     ELP!LateFunctorPending, EL!Signalled, ELP!Signalled
<1>3. ELP!TypeOK /\ [ELP!Next]_ELP!vars => ELP!TypeOK'
  BY LoopAssumptions, ELP!TypeStep
<1>4. ELP!TypeOK /\ ELP!WakeupInv /\ [ELP!Next]_ELP!vars => ELP!WakeupInv'
  BY LoopAssumptions, ELP!WakeupStep
<1>5. ELP!vars = eventLoopVars /\ ELP!vars' = eventLoopVars'
  BY DEF ELP!vars, eventLoopVars
<1> QED BY <1>1, <1>2, <1>3, <1>4, <1>5, SameLoop, Zenon

\* The loop is outside loop() unless its thread is in it; the owner is inside
\* a call only after startLoop(); and until the thread has ended no wakeup is
\* lost.  Afterwards the owner's last wakeup() may find no loop.
LoopUse ==
  /\ EL!TypeOK
  /\ threadPc # "looping" => pc = "idle"
  /\ caller[Owner] # "out" => ownerPc \in {"running", "join"}
  /\ threadPc # "exited" => EL!WakeupInv

LEMMA LoopUseStep ==
  ThreadTypes /\ LoopMade /\ LoopUse /\ [ThreadNext]_allVars => LoopUse'
<1> SUFFICES ASSUME ThreadTypes, LoopMade, LoopUse, [ThreadNext]_allVars PROVE LoopUse'
  OBVIOUS
<1>0. EL!TypeOK /\ caller \in [{Owner} -> {"out", "wakeup"}]
  BY DEF LoopUse, EL!TypeOK
<1>1. ASSUME UNCHANGED eventLoopVars
      PROVE  (EL!TypeOK' <=> EL!TypeOK) /\ (EL!WakeupInv' <=> EL!WakeupInv)
  BY <1>1 DEF eventLoopVars, EL!TypeOK, EL!LoopPC, EL!WakeupInv, EL!LateFunctorPending,
     EL!Signalled
<1>2. CASE \/ StartLoop \/ CheckLoop \/ SpuriousWakeup \/ DestroyUnstarted \/ Join
           \/ ThreadStart \/ Publish \/ ThreadEnd \/ UNCHANGED allVars
  <2>1. UNCHANGED eventLoopVars
    BY <1>2 DEF StartLoop, CheckLoop, SpuriousWakeup, DestroyUnstarted, Join,
       ThreadStart, Publish, ThreadEnd, allVars
  <2>2. pc' = pc /\ caller' = caller
    BY <2>1 DEF eventLoopVars
  <2>3. threadPc' # "looping" => pc' = "idle"
    BY <1>2, <2>2 DEF LoopUse, StartLoop, Start, CheckLoop, SpuriousWakeup,
       DestroyUnstarted, Join, ThreadStart, Publish, ThreadEnd, allVars, threadVars,
       EL!looping_
  <2>4. caller'[Owner] # "out" => ownerPc' \in {"running", "join"}
    BY <1>2, <2>2 DEF LoopUse, StartLoop, CheckLoop, SpuriousWakeup,
       DestroyUnstarted, Join, ThreadStart, Publish, ThreadEnd, allVars, threadVars
  <2>5. threadPc' # "exited" => threadPc # "exited"
    BY <1>2 DEF StartLoop, Start, CheckLoop, SpuriousWakeup, DestroyUnstarted,
       Join, ThreadStart, Publish, ThreadEnd, allVars, threadVars
  <2> QED BY <1>0, <1>1, <2>1, <2>3, <2>4, <2>5, Zenon DEF LoopUse
<1>3. CASE UseLoop
  <2>1. [EL!Next]_eventLoopVars
    BY <1>3 DEF UseLoop, EL!Next
  <2>2. /\ pc' = pc /\ UNCHANGED threadVars /\ ownerPc = "running"
    BY <1>3 DEF UseLoop, EL!Quit, EL!QueueInLoop
  <2> QED BY <1>0, <2>1, <2>2, LoopStepKeeps DEF LoopUse, threadVars
<1>4. CASE FinishCall
  <2>1. UNCHANGED <<threadPc, ownerPc, loop_>> /\ caller[Owner] = "wakeup"
    BY <1>4 DEF FinishCall
  <2>2. CASE Alive /\ EL!Wakeup(Owner)
    <3>1. [EL!Next]_eventLoopVars
      BY <2>2 DEF EL!Next
    <3>2. pc' = pc /\ caller'[Owner] = "out"
      BY <1>0, <2>2 DEF EL!Wakeup
    <3> QED BY <1>0, <2>1, <3>1, <3>2, LoopStepKeeps DEF LoopUse
  <2>3. CASE ~Alive /\ caller' = [caller EXCEPT ![Owner] = "out"]
             /\ UNCHANGED <<pc, quit_, callingPendingFunctors_, pendingFunctors_,
                            functors, wakeupFd_, eventListSize, activeChannels_,
                            fresh, executed, early>>
    <3>1. threadPc = "exited"
      BY <2>1, <2>3 DEF LoopUse, LoopMade, ThreadTypes, Alive
    <3>2. EL!TypeOK'
      BY <1>0, <2>3 DEF EL!TypeOK, EL!LoopPC
    <3>3. caller'[Owner] = "out" /\ pc' = pc
      BY <1>0, <2>3
    <3> QED BY <2>1, <3>1, <3>2, <3>3 DEF LoopUse
  <2> QED BY <1>4, <2>2, <2>3 DEF FinishCall
<1>5. CASE Destroy
  <2>1. ownerPc' = "join" /\ threadPc' = threadPc
    BY <1>5 DEF Destroy
  <2>2. CASE EL!Quit(Owner)
    <3>1. [EL!Next]_eventLoopVars /\ pc' = pc
      BY <2>2 DEF EL!Next, EL!Quit
    <3> QED BY <1>0, <2>1, <3>1, LoopStepKeeps DEF LoopUse
  <2>3. CASE UNCHANGED eventLoopVars
    <3>1. pc' = pc /\ caller' = caller
      BY <2>3 DEF eventLoopVars
    <3> QED BY <1>0, <1>1, <2>1, <2>3, <3>1 DEF LoopUse
  <2> QED BY <1>5, <2>2, <2>3 DEF Destroy
<1>6. CASE CallLoop \/ RunLoop \/ PollTimeout \/ UserFunctor
  <2>1. EL!Next
    BY <1>6 DEF CallLoop, RunLoop, PollTimeout, UserFunctor, EL!Next
  <2>2. threadPc' = "looping" /\ threadPc # "exited" /\ ownerPc' = ownerPc
    BY <1>6 DEF CallLoop, RunLoop, PollTimeout, UserFunctor, threadVars
  <2>3. caller' = caller
    BY <1>6 DEF CallLoop, RunLoop, PollTimeout, UserFunctor, EL!Loop,
       EL!LoopThread, EL!While, EL!PollEvents, EL!HandleRead, EL!HandleEvent,
       EL!DoPendingFunctors, EL!RunFunctor, EL!FunctorsDone, EL!PollTimeout,
       EL!OwnerQuit, EL!OwnerQueueInLoop
  <2> QED BY <1>0, <2>1, <2>2, <2>3, LoopStepKeeps DEF LoopUse
<1> QED BY <1>2, <1>3, <1>4, <1>5, <1>6 DEF ThreadNext, Thread

LEMMA LoopUseInvariant == ThreadSpec => [](ThreadTypes /\ LoopUse)
<1>1. ThreadInit => LoopUse
  <2> SUFFICES ASSUME ThreadInit PROVE LoopUse
    OBVIOUS
  <2>1. EL!TypeOK
    <3>1. quit_ \in BOOLEAN /\ callingPendingFunctors_ \in BOOLEAN
      BY DEF ThreadInit, EL!Init
    <3>2. pendingFunctors_ \in Seq(Functors) /\ functors \in Seq(Functors)
      BY DEF ThreadInit, EL!Init
    <3>3. wakeupFd_ \in 0..2 /\ eventListSize \in Nat \ {0}
      BY DEF ThreadInit, EL!Init
    <3> QED BY <3>1, <3>2, <3>3 DEF ThreadInit, EL!Init, EL!TypeOK, EL!LoopPC
  <2>2. EL!WakeupInv
    BY DEF ThreadInit, EL!Init, EL!WakeupInv, EL!LateFunctorPending
  <2> QED BY <2>1, <2>2 DEF LoopUse, ThreadInit, EL!Init
<1> QED BY <1>1, LoopUseStep, ThreadInvariant, PTL DEF ThreadSpec

(* Both the thread's state and that of its loop keep their types.           *)
THEOREM ThreadTypeCorrect == ThreadSpec => []ThreadTypeOK
<1>1. ThreadTypes /\ LoopUse => ThreadTypeOK
  BY DEF ThreadTypes, LoopUse, ThreadTypeOK
<1> QED BY <1>1, LoopUseInvariant, PTL

(* The loop of an EventLoopThread never sleeps in epoll_wait on the quit()  *)
(* of the destructor or on a functor of the owner: EventLoop's guarantee    *)
(* survives the start and the end of the thread, also when the owner's last *)
(* wakeup() comes after the loop is gone.                                   *)
THEOREM ThreadWakeupNeverLost == ThreadSpec => []EL!NoLostWakeup
<1>1. ThreadTypes /\ LoopUse => EL!NoLostWakeup
  BY DEF ThreadTypes, LoopUse, EL!WakeupInv, EL!NoLostWakeup
<1> QED BY <1>1, LoopUseInvariant, PTL
------------------------------------------------------------------------------
(* The timers of one loop: module TimerQueue.                               *)

USE TimersAssumption, BoundsAssumption

------------------------------------------------------------------------------
(* First returns the least entry of a set: a non-empty set of natural       *)
(* numbers has a least element, and entries are ordered lexicographically.  *)
LEMMA NatMin ==
  ASSUME NEW T, T \subseteq Nat, T # {}
  PROVE  \E m \in T : \A x \in T : m <= x
<1>1. PICK m \in T : \A y \in T : <<y, m>> \notin OpToRel(<, Nat)
  BY NatLessThanWellFounded, WFMin
<1>2. ASSUME NEW x \in T PROVE m <= x
  <2>1. ~(x < m)
    <3>1. SUFFICES ASSUME x < m PROVE <<x, m>> \in OpToRel(<, Nat)
      BY <1>1
    <3>2. <<x, m>> \in {ss \in Nat \X Nat : ss[1] < ss[2]}
      BY <3>1
    <3> QED
      BY <3>2, Zenon DEF OpToRel
  <2> QED
    BY <2>1
<1> QED
  BY <1>2

LEMMA FirstIsLeast ==
  ASSUME NEW S, S \subseteq Nat \X Timers, S # {}
  PROVE  /\ First(S) \in S
         /\ \A e \in S : First(S)[1] <= e[1]
<1> DEFINE Times == {e[1] : e \in S}
<1>1. PICK m \in Times : \A x \in Times : m <= x
  <2>1. Times \subseteq Nat /\ Times # {}
    OBVIOUS
  <2> QED
    BY <2>1, NatMin
<1> DEFINE Ids == {e[2] : e \in {d \in S : d[1] = m}}
<1>2. PICK a \in Ids : \A x \in Ids : a <= x
  <2>1. Ids \subseteq Nat /\ Ids # {}
    BY <1>1
  <2> QED
    BY <2>1, NatMin
<1>3. PICK e \in S : e[1] = m /\ e[2] = a
  BY <1>2
<1>4. ASSUME NEW f \in S \ {e} PROVE Before(e, f)
  <2>1. m <= f[1]
    BY <1>1
  <2>2. f[1] = m => a <= f[2]
    BY <1>2
  <2>3. f[1] # m \/ f[2] # a
    BY <1>3, <1>4
  <2>4. m \in Nat /\ a \in Nat /\ f[1] \in Nat /\ f[2] \in Nat
    BY <1>3, <1>4
  <2>5. m < f[1] \/ (m = f[1] /\ a < f[2])
    BY <2>1, <2>2, <2>3, <2>4
  <2> QED
    BY <1>3, <2>5 DEF Before
<1>5. First(S) \in S /\ \A f \in S \ {First(S)} : Before(First(S), f)
  BY <1>3, <1>4 DEF First
<1>6. ASSUME NEW f \in S PROVE First(S)[1] <= f[1]
  BY <1>5, <1>6 DEF Before
<1> QED
  BY <1>5, <1>6

------------------------------------------------------------------------------
(* Types.                                                                   *)

LEMMA TimerfdType ==
  ASSUME TypeOK, NEW when \in 0..MaxTime
  PROVE  TimerfdFor(when) \in 0..MaxTime
BY DEF TypeOK, TimerfdFor, MaxTime

LEMMA NewTimerType ==
  ASSUME TypeOK, NEW t \in Timers, NEW when \in 1..MaxNow,
         NEW i \in 0..MaxInterval, NewTimer(t, when, i)
  PROVE  /\ expiration' \in [Timers -> 0..MaxTime]
         /\ interval' \in [Timers -> 0..MaxInterval]
         /\ created' \subseteq Timers
<1>1. when \in 0..MaxTime
  BY DEF MaxTime
<1> QED
  BY <1>1 DEF TypeOK, NewTimer

LEMMA AddType ==
  ASSUME TypeOK, NEW t \in Timers, NEW when \in 0..MaxTime,
         AddTimerInLoop(t, when)
  PROVE  /\ timerfd' \in 0..MaxTime
         /\ timers_' \subseteq (0..MaxTime) \X Timers
         /\ activeTimers_' \subseteq Timers
         /\ cancelingTimers_' \subseteq Timers
         /\ cancelled' \subseteq Timers
         /\ aborted' \in {"no", "cancelInLoop", "getExpired"}
<1>1. timerfd' \in 0..MaxTime
  BY TimerfdType DEF AddTimerInLoop, TypeOK
<1> QED
  BY <1>1 DEF AddTimerInLoop, TypeOK

LEMMA CancelType ==
  ASSUME TypeOK, NEW t \in Timers, CancelInLoop(t)
  PROVE  /\ timerfd' \in 0..MaxTime
         /\ timers_' \subseteq (0..MaxTime) \X Timers
         /\ activeTimers_' \subseteq Timers
         /\ cancelingTimers_' \subseteq Timers
         /\ aborted' \in {"no", "cancelInLoop", "getExpired"}
BY DEF CancelInLoop, TypeOK

LEMMA HeadType ==
  ASSUME TypeOK, queue # <<>>
  PROVE  Head(queue) \in Requests /\ Head(queue)[2] \in Timers
<1>1. Head(queue) \in Requests
  BY HeadTailProperties DEF TypeOK
<1> QED
  BY <1>1 DEF Requests

LEMMA TypeStep == TypeOK /\ [Next]_vars => TypeOK'
<1> SUFFICES ASSUME TypeOK, [Next]_vars PROVE TypeOK'
  OBVIOUS
<1>1. ASSUME NEW t \in Timers, NEW when \in 1..MaxNow,
             NEW i \in 0..MaxInterval, AddTimer(t, when, i)
      PROVE  TypeOK'
  <2>1. when \in 0..MaxTime
    BY DEF MaxTime
  <2> QED
    BY <1>1, <2>1, NewTimerType, AddType
    DEF AddTimer, TypeOK, loopVars, batchVars
<1>2. ASSUME NEW t \in Timers, Cancel(t) PROVE TypeOK'
  BY <1>2, CancelType DEF Cancel, TypeOK, loopVars, batchVars, objectVars
<1>3. ASSUME NEW t \in Timers, NEW when \in 1..MaxNow,
             NEW i \in 0..MaxInterval, QueueAddTimer(t, when, i)
      PROVE  TypeOK'
  <2>1. queue' \in Seq(Requests)
    BY <1>3, AppendProperties DEF QueueAddTimer, TypeOK, Requests
  <2> QED
    BY <1>3, <2>1, NewTimerType
    DEF QueueAddTimer, TypeOK, loopVars, setVars, batchVars
<1>4. ASSUME NEW t \in Timers, QueueCancel(t) PROVE TypeOK'
  <2>1. queue' \in Seq(Requests)
    BY <1>4, AppendProperties DEF QueueCancel, TypeOK, Requests
  <2> QED
    BY <1>4, <2>1
    DEF QueueCancel, TypeOK, loopVars, setVars, batchVars, objectVars
<1>5. CASE Poll
  BY <1>5 DEF Poll, Readable, TypeOK, setVars, batchVars, objectVars
<1>6. CASE HandleRead
  <2>1. CASE aborted' = "getExpired" /\ UNCHANGED <<phase, timerfd, setVars,
                                        cancelingTimers_, batchVars>>
    BY <1>6, <2>1 DEF HandleRead, TypeOK, setVars, batchVars, objectVars
  <2>2. CASE phase' = "calling" /\ aborted' = aborted
    <3>1. ExpiredAt(now) \subseteq timers_
      BY DEF ExpiredAt
    <3>2. timerfd' \in 0..MaxTime
      BY <1>6, <2>2 DEF HandleRead, TypeOK, MaxTime
    <3>3. batchNow' \in 0..MaxNow
      BY <1>6, <2>2 DEF HandleRead, TypeOK, batchVars
    <3>4. /\ timers_' \subseteq (0..MaxTime) \X Timers
          /\ activeTimers_' \subseteq Timers
          /\ cancelingTimers_' \subseteq Timers
          /\ expired' \subseteq (0..MaxTime) \X Timers
          /\ toRun' \subseteq expired'
      BY <1>6, <2>2, <3>1 DEF HandleRead, TypeOK, setVars, batchVars
    <3> QED
      BY <1>6, <2>2, <3>2, <3>3, <3>4 DEF HandleRead, TypeOK, objectVars
  <2> QED
    BY <1>6, <2>1, <2>2 DEF HandleRead
<1>7. CASE Run
  BY <1>7 DEF Run, TypeOK, loopVars, setVars, objectVars
<1>8. CASE Reset
  <2>1. \A t \in Timers : batchNow + interval[t] \in 0..MaxTime
    BY DEF TypeOK, MaxTime
  <2>2. Restarted \subseteq Timers
    BY DEF Restarted
  <2>3. timers_' \subseteq (0..MaxTime) \X Timers
    BY <1>8, <2>1, <2>2 DEF Reset, TypeOK
  <2>4. NextExpire(timers_') \in 0..MaxTime
    <3>1. CASE timers_' = {}
      BY <3>1 DEF NextExpire, MaxTime
    <3>2. CASE timers_' # {}
      <4>1. timers_' \subseteq Nat \X Timers
        BY <2>3
      <4>2. First(timers_') \in timers_'
        BY <3>2, <4>1, FirstIsLeast
      <4> QED
        BY <2>3, <3>2, <4>2 DEF NextExpire
    <3> QED
      BY <3>1, <3>2
  <2>5. timerfd' \in 0..MaxTime
    BY <1>8, <2>4, TimerfdType DEF Reset
  <2>6. expiration' \in [Timers -> 0..MaxTime]
    BY <1>8, <2>1 DEF Reset, TypeOK
  <2> QED
    BY <1>8, <2>2, <2>3, <2>5, <2>6 DEF Reset, TypeOK
<1>9. CASE DispatchDone
  BY <1>9 DEF DispatchDone, TypeOK, setVars, batchVars, objectVars
<1>10. CASE RunFunctor
  <2> DEFINE t == Head(queue)[2]
  <2>1. t \in Timers /\ queue' \in Seq(Requests) /\ expiration[t] \in 0..MaxTime
    BY <1>10, HeadType, HeadTailProperties DEF RunFunctor, TypeOK
  <2>2. CASE AddTimerInLoop(t, expiration[t])
    BY <1>10, <2>1, <2>2, AddType
    DEF RunFunctor, TypeOK, loopVars, batchVars, objectVars
  <2>3. CASE CancelInLoop(t) /\ cancelled' = cancelled \cup {t}
    BY <1>10, <2>1, <2>3, CancelType
    DEF RunFunctor, TypeOK, loopVars, batchVars, objectVars
  <2> QED
    BY <1>10, <2>2, <2>3 DEF RunFunctor
<1>11. CASE Tick
  BY <1>11 DEF Tick, TypeOK, loopVars, setVars, batchVars, objectVars
<1>12. CASE UNCHANGED vars
  BY <1>12 DEF vars, TypeOK
<1> QED
  BY <1>1, <1>2, <1>3, <1>4, <1>5, <1>6, <1>7, <1>8, <1>9, <1>10, <1>11, <1>12
  DEF Next, Loop

(* TimerQueue's state keeps its type in every behaviour; the times it holds *)
(* stay within one interval and one minimal delay of the clock.             *)
THEOREM TypeCorrect == Spec => []TypeOK
<1>1. Init => TypeOK
  <2> SUFFICES ASSUME Init PROVE TypeOK
    OBVIOUS
  <2>1. 0 \in 0..MaxTime /\ 0 \in 0..MaxInterval /\ 0 \in 0..MaxNow
    BY DEF MaxTime
  <2>2. reported \in BOOLEAN
    BY DEF Init
  <2>3. queue \in Seq(Requests)
    BY DEF Init
  <2> QED
    BY <2>1, <2>2, <2>3 DEF Init, TypeOK
<1> QED
  BY <1>1, TypeStep, PTL DEF Spec

------------------------------------------------------------------------------
(* The invariant.                                                           *)

(* addTimerInLoop() of a timer that is in no set keeps the sets in          *)
(* agreement and the timerfd armed early enough.                            *)
LEMMA AddKeeps ==
  ASSUME TypeOK, TimerInv, NEW t \in Timers, NEW when \in 0..MaxTime,
         AddTimerInLoop(t, when),
         t \notin activeTimers_ \cup BatchTimers \cup cancelled,
         expiration' \in [Timers -> 0..MaxTime],
         expiration'[t] = when,
         \A u \in activeTimers_ : expiration'[u] = expiration[u],
         UNCHANGED <<now, loopVars, batchVars>>
  PROVE  /\ timers_' = {<<expiration'[u], u>> : u \in activeTimers_'}
         /\ TimerfdArmed'
         /\ CancelIsFinal'
         /\ BatchInv'
<1> USE DEF TimerInv, loopVars, batchVars
<1>1. timers_' = {<<expiration'[u], u>> : u \in activeTimers_'}
  BY DEF AddTimerInLoop
<1>2. CancelIsFinal'
  BY DEF AddTimerInLoop, CancelIsFinal
<1>3. BatchInv'
  BY DEF AddTimerInLoop, BatchInv, BatchTimers
<1>4. TimerfdArmed'
  <2> SUFFICES ASSUME phase # "calling", ~reported, NEW e \in timers_'
               PROVE  /\ timerfd' # 0
                      /\ timerfd' <= e[1] \/ timerfd' <= now + 1
    BY DEF TimerfdArmed
  <2>1. e \in timers_ \/ e = <<when, t>>
    BY DEF AddTimerInLoop
  <2>2. timers_ \subseteq (0..MaxTime) \X Timers /\ now \in Nat /\ when \in Nat
    BY DEF TypeOK
  <2>3. CASE EarliestChanged(when)
    <3>1. when <= e[1]
      BY <2>1, <2>2, <2>3 DEF EarliestChanged
    <3>2. timerfd' = TimerfdFor(when)
      BY <2>3 DEF AddTimerInLoop
    <3> QED
      BY <2>1, <2>2, <3>1, <3>2 DEF TimerfdFor
  <2>4. CASE ~EarliestChanged(when)
    <3>1. PICK d \in timers_ : ~(when < d[1])
      BY <2>4 DEF EarliestChanged
    <3>2. timerfd' = timerfd
      BY <2>4 DEF AddTimerInLoop
    <3>3. timerfd # 0 /\ (timerfd <= d[1] \/ timerfd <= now + 1)
      BY <3>1 DEF TimerfdArmed
    <3>4. CASE e \in timers_
      BY <3>2, <3>4 DEF TimerfdArmed
    <3>5. CASE e = <<when, t>>
      BY <2>2, <3>1, <3>2, <3>3, <3>5 DEF TypeOK
    <3> QED
      BY <2>1, <3>4, <3>5
  <2> QED
    BY <2>3, <2>4
<1> QED
  BY <1>1, <1>2, <1>3, <1>4

(* cancelInLoop() takes a timer out of both sets, or notes it for reset().  *)
LEMMA CancelKeeps ==
  ASSUME TypeOK, TimerInv, NEW t \in Timers, CancelInLoop(t),
         cancelled' \subseteq cancelled \cup {t},
         UNCHANGED <<now, loopVars, batchVars, objectVars>>
  PROVE  /\ timers_' = {<<expiration'[u], u>> : u \in activeTimers_'}
         /\ TimerfdArmed'
         /\ CancelIsFinal'
         /\ BatchInv'
<1> USE DEF TimerInv, loopVars, batchVars, objectVars
<1>1. timers_' = {<<expiration'[u], u>> : u \in activeTimers_'}
  BY DEF CancelInLoop
<1>2. TimerfdArmed'
  BY DEF CancelInLoop, TimerfdArmed
<1>3. CancelIsFinal'
  BY DEF CancelInLoop, CancelIsFinal
<1>4. BatchInv'
  <2>1. BatchTimers' = BatchTimers
    BY DEF BatchTimers
  <2>2. t \in BatchTimers => t \notin activeTimers_ /\ callingExpiredTimers_
    BY DEF BatchInv, BatchTimers, callingExpiredTimers_
  <2> QED
    BY <2>1, <2>2 DEF CancelInLoop, BatchInv
<1> QED
  BY <1>1, <1>2, <1>3, <1>4

(* A request appended to the loop's queue leaves the others where they are. *)
LEMMA QueueAppend ==
  ASSUME TypeOK, NEW r \in Requests, queue' = Append(queue, r)
  PROVE  /\ Len(queue') = Len(queue) + 1
         /\ \A i \in 1..Len(queue) : queue'[i] = queue[i]
         /\ queue'[Len(queue) + 1] = r
         /\ \A op, t : Queued(op, t)' => Queued(op, t) \/ r = <<op, t>>
<1>1. /\ Len(queue') = Len(queue) + 1
      /\ \A i \in 1..Len(queue) : queue'[i] = queue[i]
      /\ queue'[Len(queue) + 1] = r
      /\ Len(queue) \in Nat
  BY AppendProperties, LenProperties DEF TypeOK
<1>2. ASSUME NEW op, NEW t, Queued(op, t)'
      PROVE  Queued(op, t) \/ r = <<op, t>>
  <2>1. PICK i \in 1..Len(queue') : queue'[i] = <<op, t>>
    BY <1>2 DEF Queued
  <2>2. i \in 1..Len(queue) \/ i = Len(queue) + 1
    BY <1>1
  <2> QED
    BY <1>1, <2>1, <2>2 DEF Queued
<1> QED
  BY <1>1, <1>2

(* The queue without its head.                                              *)
LEMMA QueueTail ==
  ASSUME TypeOK, queue # <<>>, queue' = Tail(queue)
  PROVE  /\ Len(queue) \in Nat \ {0}
         /\ Len(queue') = Len(queue) - 1
         /\ \A i \in 1..Len(queue') : queue'[i] = queue[i + 1]
         /\ \A op, t : Queued(op, t)' => Queued(op, t)
         /\ Head(queue) = queue[1]
<1>1. /\ Len(queue') = Len(queue) - 1
      /\ \A i \in 1..Len(queue') : queue'[i] = queue[i + 1]
      /\ Len(queue) \in Nat \ {0}
      /\ Head(queue) = queue[1]
  BY HeadTailProperties, EmptySeq DEF TypeOK
<1>2. ASSUME NEW op, NEW t, Queued(op, t)' PROVE Queued(op, t)
  <2>1. PICK i \in 1..Len(queue') : queue'[i] = <<op, t>>
    BY <1>2 DEF Queued
  <2>2. i + 1 \in 1..Len(queue) /\ queue[i + 1] = <<op, t>>
    BY <1>1, <2>1
  <2> QED
    BY <2>2 DEF Queued
<1> QED
  BY <1>1, <1>2

(* Steps that change neither the sets nor the queue.                        *)
LEMMA QueueInvStays ==
  ASSUME QueueInv, created \subseteq created',
         UNCHANGED <<activeTimers_, expired, cancelled, queue>>
  PROVE  QueueInv'
BY DEF QueueInv, BatchTimers, Queued

LEMMA TimerInvStep == TypeOK /\ TimerInv /\ [Next]_vars => TimerInv'
<1> SUFFICES ASSUME TypeOK, TimerInv, [Next]_vars PROVE TimerInv'
  OBVIOUS
<1>1. ASSUME NEW t \in Timers, NEW when \in 1..MaxNow,
             NEW i \in 0..MaxInterval, AddTimer(t, when, i)
      PROVE  TimerInv'
  <2>1. when \in 0..MaxTime
    BY DEF MaxTime
  <2>2. t \notin activeTimers_ \cup BatchTimers \cup cancelled
    BY <1>1 DEF AddTimer, NewTimer, TimerInv, QueueInv
  <2>3. /\ expiration'[t] = when
        /\ \A u \in activeTimers_ : expiration'[u] = expiration[u]
    BY <1>1, <2>2 DEF AddTimer, NewTimer, TypeOK
  <2>4. expiration' \in [Timers -> 0..MaxTime]
    BY <1>1, NewTimerType DEF AddTimer
  <2>5. /\ timers_' = {<<expiration'[u], u>> : u \in activeTimers_'}
        /\ TimerfdArmed'
        /\ CancelIsFinal'
        /\ BatchInv'
    BY <1>1, <2>1, <2>2, <2>3, <2>4, AddKeeps DEF AddTimer
  <2>6. ~Queued("add", t)
    BY <1>1 DEF AddTimer, NewTimer, TimerInv, QueueInv, Queued
  <2>7. QueueInv'
    BY <1>1, <2>6
    DEF AddTimer, AddTimerInLoop, NewTimer, TimerInv, QueueInv, Queued,
        BatchTimers, batchVars
  <2> QED
    BY <2>5, <2>7 DEF TimerInv
<1>2. ASSUME NEW t \in Timers, Cancel(t) PROVE TimerInv'
  <2>1. /\ timers_' = {<<expiration'[u], u>> : u \in activeTimers_'}
        /\ TimerfdArmed'
        /\ CancelIsFinal'
        /\ BatchInv'
    BY <1>2, CancelKeeps DEF Cancel
  <2>2. QueueInv'
    BY <1>2
    DEF Cancel, CancelInLoop, TimerInv, QueueInv, Queued, BatchTimers,
        batchVars, objectVars
  <2> QED
    BY <2>1, <2>2 DEF TimerInv
<1>3. ASSUME NEW t \in Timers, NEW when \in 1..MaxNow,
             NEW i \in 0..MaxInterval, QueueAddTimer(t, when, i)
      PROVE  TimerInv'
  <2>1. <<"add", t>> \in Requests
    BY DEF Requests
  <2>2. t \notin activeTimers_ \cup BatchTimers \cup cancelled
    BY <1>3 DEF QueueAddTimer, NewTimer, TimerInv, QueueInv
  <2>3. timers_' = {<<expiration'[u], u>> : u \in activeTimers_'}
    <3>1. \A u \in activeTimers_ : expiration'[u] = expiration[u]
      BY <1>3, <2>2 DEF QueueAddTimer, NewTimer, TypeOK
    <3> QED
      BY <1>3, <3>1 DEF QueueAddTimer, setVars, TimerInv
  <2>4. TimerfdArmed' /\ CancelIsFinal' /\ BatchInv'
    BY <1>3
    DEF QueueAddTimer, loopVars, setVars, batchVars, TimerInv, TimerfdArmed,
        CancelIsFinal, BatchInv, BatchTimers
  <2>5. QueueInv'
    <3>1. \A k \in 1..Len(queue) : queue[k][2] # t
      BY <1>3 DEF QueueAddTimer, NewTimer, TimerInv, QueueInv
    <3>2. /\ Len(queue') = Len(queue) + 1
          /\ \A k \in 1..Len(queue) : queue'[k] = queue[k]
          /\ queue'[Len(queue) + 1] = <<"add", t>>
          /\ Len(queue) \in Nat
          /\ \A op, u : Queued(op, u)' => Queued(op, u) \/ t = u
      BY <1>3, <2>1, QueueAppend, LenProperties DEF QueueAddTimer, TypeOK
    <3>3. \A k \in 1..Len(queue') : queue'[k][2] \in created'
      <4> SUFFICES ASSUME NEW k \in 1..Len(queue')
                   PROVE  queue'[k][2] \in created'
        OBVIOUS
      <4>1. k \in 1..Len(queue) \/ k = Len(queue) + 1
        BY <3>2
      <4> QED
        BY <1>3, <3>2, <4>1
        DEF QueueAddTimer, NewTimer, TimerInv, QueueInv
    <3>4. \A k, j \in 1..Len(queue') :
            k < j /\ queue'[k][2] = queue'[j][2] => queue'[j][1] = "cancel"
      <4> SUFFICES ASSUME NEW k \in 1..Len(queue'), NEW j \in 1..Len(queue'),
                          k < j, queue'[k][2] = queue'[j][2]
                   PROVE  queue'[j][1] = "cancel"
        OBVIOUS
      <4>1. k \in 1..Len(queue) /\ (j \in 1..Len(queue) \/ j = Len(queue) + 1)
        BY <3>2
      <4> QED
        BY <3>1, <3>2, <4>1 DEF TimerInv, QueueInv
    <3>5. \A u \in (activeTimers_ \cup BatchTimers \cup cancelled)' :
            u \in created' /\ ~Queued("add", u)'
      BY <1>3, <2>2, <3>2
      DEF QueueAddTimer, NewTimer, setVars, batchVars, BatchTimers, TimerInv,
          QueueInv
    <3> QED
      BY <3>3, <3>4, <3>5 DEF QueueInv
  <2> QED
    BY <2>3, <2>4, <2>5 DEF TimerInv
<1>4. ASSUME NEW t \in Timers, QueueCancel(t) PROVE TimerInv'
  <2>1. <<"cancel", t>> \in Requests
    BY DEF Requests
  <2>2. /\ timers_' = {<<expiration'[u], u>> : u \in activeTimers_'}
        /\ TimerfdArmed'
        /\ CancelIsFinal'
        /\ BatchInv'
    BY <1>4
    DEF QueueCancel, loopVars, setVars, batchVars, objectVars, TimerInv,
        TimerfdArmed, CancelIsFinal, BatchInv, BatchTimers
  <2>3. QueueInv'
    <3>1. /\ Len(queue') = Len(queue) + 1
          /\ \A k \in 1..Len(queue) : queue'[k] = queue[k]
          /\ queue'[Len(queue) + 1] = <<"cancel", t>>
          /\ Len(queue) \in Nat
          /\ \A u : Queued("add", u)' => Queued("add", u)
      BY <1>4, <2>1, QueueAppend, LenProperties DEF QueueCancel, TypeOK
    <3>2. \A k \in 1..Len(queue') : queue'[k][2] \in created'
      <4> SUFFICES ASSUME NEW k \in 1..Len(queue')
                   PROVE  queue'[k][2] \in created'
        OBVIOUS
      <4>1. k \in 1..Len(queue) \/ k = Len(queue) + 1
        BY <3>1
      <4> QED
        BY <1>4, <3>1, <4>1 DEF QueueCancel, objectVars, TimerInv, QueueInv
    <3>3. \A k, j \in 1..Len(queue') :
            k < j /\ queue'[k][2] = queue'[j][2] => queue'[j][1] = "cancel"
      <4> SUFFICES ASSUME NEW k \in 1..Len(queue'), NEW j \in 1..Len(queue'),
                          k < j, queue'[k][2] = queue'[j][2]
                   PROVE  queue'[j][1] = "cancel"
        OBVIOUS
      <4>1. k \in 1..Len(queue) /\ (j \in 1..Len(queue) \/ j = Len(queue) + 1)
        BY <3>1
      <4> QED
        BY <3>1, <4>1 DEF TimerInv, QueueInv
    <3>4. \A u \in (activeTimers_ \cup BatchTimers \cup cancelled)' :
            u \in created' /\ ~Queued("add", u)'
      BY <1>4, <3>1
      DEF QueueCancel, setVars, batchVars, objectVars, BatchTimers, TimerInv,
          QueueInv
    <3> QED
      BY <3>2, <3>3, <3>4 DEF QueueInv
  <2> QED
    BY <2>2, <2>3 DEF TimerInv
<1>5. CASE Poll
  <2>1. QueueInv'
    BY <1>5, QueueInvStays
    DEF Poll, setVars, batchVars, objectVars, TimerInv
  <2>2. TimerfdArmed'
    BY <1>5 DEF Poll, setVars, TimerInv, TimerfdArmed, BatchInv
  <2> QED
    BY <1>5, <2>1, <2>2
    DEF Poll, setVars, batchVars, objectVars, TimerInv, CancelIsFinal,
        BatchInv, BatchTimers
<1>6. CASE HandleRead
  <2>1. CASE aborted' = "getExpired" /\ UNCHANGED <<phase, timerfd, setVars,
                                        cancelingTimers_, batchVars>>
    <3>1. QueueInv'
      BY <1>6, <2>1, QueueInvStays
      DEF HandleRead, setVars, batchVars, objectVars, TimerInv
    <3> QED
      BY <1>6, <2>1, <3>1
      DEF HandleRead, setVars, batchVars, objectVars, TimerInv, TimerfdArmed,
          CancelIsFinal, BatchInv, BatchTimers
  <2>2. CASE phase' = "calling" /\ aborted' = aborted
    <3>1. /\ timers_' = timers_ \ ExpiredAt(now)
          /\ expired' = ExpiredAt(now)
          /\ activeTimers_' = activeTimers_ \ {e[2] : e \in ExpiredAt(now)}
          /\ UNCHANGED <<expiration, created, queue, cancelled>>
      BY <1>6, <2>2, Zenon DEF HandleRead, setVars, batchVars, objectVars
    <3>2. BatchTimers' = {e[2] : e \in ExpiredAt(now)}
      BY <3>1 DEF BatchTimers
    <3>3. BatchTimers' \subseteq activeTimers_
      BY <3>2 DEF ExpiredAt, TimerInv
    <3>4. timers_' = {<<expiration'[u], u>> : u \in activeTimers_'}
      BY <3>1 DEF TimerInv, ExpiredAt
    <3>5. CancelIsFinal'
      BY <3>1 DEF CancelIsFinal, TimerInv
    <3>6. BatchInv'
      BY <2>2, <3>1, <3>2, <3>3 DEF BatchInv, TimerInv, CancelIsFinal
    <3>7. QueueInv'
      BY <3>1, <3>3 DEF QueueInv, TimerInv, Queued
    <3> QED
      BY <2>2, <3>4, <3>5, <3>6, <3>7 DEF TimerInv, TimerfdArmed
  <2> QED
    BY <1>6, <2>1, <2>2 DEF HandleRead
<1>7. CASE Run
  <2>1. QueueInv'
    BY <1>7, QueueInvStays DEF Run, setVars, objectVars, TimerInv
  <2> QED
    BY <1>7, <2>1
    DEF Run, loopVars, setVars, objectVars, TimerInv, TimerfdArmed,
        CancelIsFinal, BatchInv, BatchTimers
<1>8. CASE Reset
  <2>1. Restarted \subseteq BatchTimers \ cancelingTimers_
    BY DEF Restarted, BatchTimers
  <2>2. Restarted \cap (activeTimers_ \cup cancelled) = {}
    BY <2>1 DEF TimerInv, BatchInv
  <2>3. timers_' = {<<expiration'[u], u>> : u \in activeTimers_'}
    <3>1. \A u \in activeTimers_ : expiration'[u] = expiration[u]
      BY <1>8, <2>2 DEF Reset, TypeOK
    <3>2. Restarted \subseteq Timers
      BY DEF Restarted
    <3>3. \A u \in Restarted : expiration'[u] = batchNow + interval[u]
      BY <1>8, <3>2 DEF Reset
    <3> QED
      BY <1>8, <3>1, <3>3 DEF Reset, TimerInv
  <2>4. TimerfdArmed'
    <3> SUFFICES ASSUME NEW e \in timers_'
                 PROVE  /\ timerfd' # 0
                        /\ timerfd' <= e[1] \/ timerfd' <= now' + 1
      BY DEF TimerfdArmed
    <3>1. timers_' \subseteq (0..MaxTime) \X Timers
      BY TypeStep DEF TypeOK
    <3>2. timers_' \subseteq Nat \X Timers
      BY <3>1
    <3>3. First(timers_')[1] \in Nat /\ First(timers_')[1] <= e[1]
      BY <3>2, FirstIsLeast
    <3>4. timerfd' = TimerfdFor(First(timers_')[1])
      BY <1>8 DEF Reset, NextExpire
    <3> QED
      BY <1>8, <3>2, <3>3, <3>4 DEF Reset, TimerfdFor, TypeOK
  <2>5. CancelIsFinal'
    BY <1>8, <2>2 DEF Reset, TimerInv, CancelIsFinal
  <2>6. BatchTimers' = {}
    BY <1>8 DEF Reset, BatchTimers
  <2>7. BatchInv'
    BY <1>8, <2>6 DEF Reset, BatchInv
  <2>8. QueueInv'
    BY <1>8, <2>1, <2>6 DEF Reset, TimerInv, QueueInv, Queued
  <2> QED
    BY <2>3, <2>4, <2>5, <2>7, <2>8 DEF TimerInv
<1>9. CASE DispatchDone
  <2>1. QueueInv'
    BY <1>9, QueueInvStays
    DEF DispatchDone, setVars, batchVars, objectVars, TimerInv
  <2> QED
    BY <1>9, <2>1
    DEF DispatchDone, setVars, batchVars, objectVars, TimerInv, TimerfdArmed,
        CancelIsFinal, BatchInv, BatchTimers
<1>10. CASE RunFunctor
  <2>0. PICK t \in Timers : t = Head(queue)[2]
    BY <1>10, HeadType DEF RunFunctor
  <2>1. expiration[t] \in 0..MaxTime
    BY DEF TypeOK
  <2>2. /\ Len(queue) \in Nat \ {0}
        /\ Len(queue') = Len(queue) - 1
        /\ \A i \in 1..Len(queue') : queue'[i] = queue[i + 1]
        /\ \A u : Queued("add", u)' => Queued("add", u)
        /\ Head(queue) = queue[1]
    BY <1>10, QueueTail DEF RunFunctor
  <2>3. t \in created
    BY <2>0, <2>2 DEF TimerInv, QueueInv
  <2>4. ~Queued("add", t)'
    <3> SUFFICES ASSUME NEW i \in 1..Len(queue'), queue'[i] = <<"add", t>>
                 PROVE  FALSE
      BY DEF Queued
    <3>1. 1 \in 1..Len(queue) /\ i + 1 \in 1..Len(queue) /\ 1 < i + 1
      BY <2>2
    <3>2. queue[i + 1] = <<"add", t>>
      BY <2>2
    <3>3. queue[i + 1][1] = "cancel"
      BY <2>0, <2>2, <3>1, <3>2 DEF TimerInv, QueueInv
    <3> QED
      BY <3>2, <3>3
  <2>5. activeTimers_' \subseteq activeTimers_ \cup {t}
    BY <1>10, <2>0 DEF RunFunctor, AddTimerInLoop, CancelInLoop
  <2>6. cancelled' \subseteq cancelled \cup {t}
    BY <1>10, <2>0 DEF RunFunctor, AddTimerInLoop
  <2>7. QueueInv'
    <3>1. created' = created /\ BatchTimers' = BatchTimers
      BY <1>10 DEF RunFunctor, objectVars, batchVars, BatchTimers
    <3>2. \A k \in 1..Len(queue') : queue'[k][2] \in created'
      BY <2>2, <3>1 DEF TimerInv, QueueInv
    <3>3. \A k, j \in 1..Len(queue') :
            k < j /\ queue'[k][2] = queue'[j][2] => queue'[j][1] = "cancel"
      BY <2>2 DEF TimerInv, QueueInv
    <3>4. \A u \in (activeTimers_ \cup BatchTimers \cup cancelled)' :
            u \in created' /\ ~Queued("add", u)'
      BY <2>2, <2>3, <2>4, <2>5, <2>6, <3>1 DEF TimerInv, QueueInv
    <3> QED
      BY <3>2, <3>3, <3>4 DEF QueueInv
  <2>8. CASE Head(queue)[1] = "add" /\ AddTimerInLoop(t, expiration[t])
    <3>1. Head(queue) = <<"add", t>>
      BY <1>10, <2>0, <2>8, HeadType DEF RunFunctor, Requests
    <3>2. Queued("add", t)
      BY <2>2, <3>1 DEF Queued
    <3>3. t \notin activeTimers_ \cup BatchTimers \cup cancelled
      BY <3>2 DEF TimerInv, QueueInv
    <3>4. expiration' = expiration
      BY <1>10 DEF RunFunctor, objectVars
    <3> QED
      BY <1>10, <2>1, <2>7, <2>8, <3>3, <3>4, AddKeeps
      DEF RunFunctor, TimerInv, TypeOK
  <2>9. CASE CancelInLoop(t)
    BY <1>10, <2>1, <2>6, <2>7, <2>9, CancelKeeps DEF RunFunctor, TimerInv
  <2> QED
    BY <1>10, <2>0, <2>8, <2>9 DEF RunFunctor
<1>11. CASE Tick
  <2>1. QueueInv'
    BY <1>11, QueueInvStays
    DEF Tick, setVars, batchVars, objectVars, TimerInv
  <2>2. TimerfdArmed'
    BY <1>11 DEF Tick, loopVars, setVars, TimerInv, TimerfdArmed, TypeOK
  <2> QED
    BY <1>11, <2>1, <2>2
    DEF Tick, loopVars, setVars, batchVars, objectVars, TimerInv,
        CancelIsFinal, BatchInv, BatchTimers
<1>12. CASE UNCHANGED vars
  BY <1>12
  DEF vars, TimerInv, QueueInv, BatchInv, BatchTimers, Queued, TimerfdArmed,
      CancelIsFinal
<1> QED
  BY <1>1, <1>2, <1>3, <1>4, <1>5, <1>6, <1>7, <1>8, <1>9, <1>10, <1>11, <1>12
  DEF Next, Loop

LEMMA TimerInvariant == Spec => []TimerInv
<1>1. Init => TimerInv
  <2> SUFFICES ASSUME Init PROVE TimerInv
    OBVIOUS
  <2>1. BatchTimers = {} /\ activeTimers_ = {} /\ cancelled = {} /\ timers_ = {}
    BY DEF Init, BatchTimers
  <2>2. QueueInv
    BY <2>1 DEF Init, QueueInv
  <2> QED
    BY <2>1, <2>2 DEF Init, TimerInv, BatchInv, TimerfdArmed, CancelIsFinal
<1> QED
  BY <1>1, TypeCorrect, TimerInvStep, PTL DEF Spec

(* timers_ and activeTimers_ agree in every behaviour, so that none of the  *)
(* asserts on sizes, erase() and insert() can fail, whatever other threads  *)
(* queue and callbacks add or cancel.                                       *)
THEOREM SetsAgree == Spec => []TimerSetsAgree
<1>1. TypeOK /\ TimerInv => TimerSetsAgree
  <2> SUFFICES ASSUME TypeOK, TimerInv PROVE TimerSetsAgree
    OBVIOUS
  <2>1. \A t \in Timers : Queued("add", t) => t \notin activeTimers_
    BY DEF TimerInv, QueueInv
  <2>2. \A e \in expired : e[2] \notin activeTimers_
    BY DEF TimerInv, BatchInv, BatchTimers
  <2> QED
    BY <2>1, <2>2 DEF TimerInv, TimerSetsAgree
<1> QED
  BY <1>1, TypeCorrect, TimerInvariant, PTL

(* The timerfd is never left armed too late for the earliest timer.         *)
THEOREM TimerfdAlwaysArmed == Spec => []TimerfdArmed
<1>1. TimerInv => TimerfdArmed
  BY DEF TimerInv
<1> QED
  BY <1>1, TimerInvariant, PTL

(* A timer that was cancelled after it was added is never in the queue      *)
(* again: reset() does not restart it.                                      *)
THEOREM CancelAlwaysFinal == Spec => []CancelIsFinal
<1>1. TimerInv => CancelIsFinal
  BY DEF TimerInv
<1> QED
  BY <1>1, TimerInvariant, PTL
==============================================================================
