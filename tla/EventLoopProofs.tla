--------------------------- MODULE EventLoopProofs ---------------------------
(***************************************************************************)
(* Theorems about module EventLoop for any number of functors, threads and *)
(* channels: its type invariant, the absence of lost wakeups, and that it  *)
(* implements Mailbox.                                                     *)
(***************************************************************************)
EXTENDS EventLoop, SequenceTheorems, TLAPS

USE WakeupAssumption, SizeAssumption, EventfdAssumption

------------------------------------------------------------------------------
(* One step of the loop, or of a caller, keeps every variable of EventLoop  *)
(* in its type: the eventfd's count stays within its limit in particular.   *)
LEMMA TypeStep == TypeOK /\ [Next]_vars => TypeOK'
<1> SUFFICES ASSUME TypeOK, [Next]_vars PROVE TypeOK'
  OBVIOUS
<1> USE DEF TypeOK, LoopPC
<1>1. CASE Loop
  BY <1>1 DEF Loop, pollVars, queueVars
<1>2. CASE While
  BY <1>2 DEF While, queueVars
<1>3. ASSUME NEW io \in SUBSET IoChannels, PollEvents(io) PROVE TypeOK'
  <2> DEFINE ready == io \cup {c \in {WakeupChannel} : wakeupFd_ > 0}
  <2>1. PICK active \in (SUBSET ready) \ {{}} :
          /\ activeChannels_' = active
          /\ eventListSize' = GrownEventList(Cardinality(active))
    BY <1>3 DEF PollEvents
  <2>2. eventListSize' \in Nat \ {0}
    BY <2>1 DEF GrownEventList
  <2>3. activeChannels_' \subseteq IoChannels \cup {WakeupChannel}
    BY <2>1
  <2> QED
    BY <1>3, <2>2, <2>3 DEF PollEvents, queueVars
<1>4. CASE PollTimeout
  BY <1>4 DEF PollTimeout, pollVars, queueVars
<1>5. CASE HandleRead
  BY <1>5 DEF HandleRead, queueVars
<1>6. ASSUME NEW c \in IoChannels, HandleEvent(c) PROVE TypeOK'
  BY <1>6 DEF HandleEvent, queueVars
<1>7. CASE DoPendingFunctors
  BY <1>7 DEF DoPendingFunctors, Batch, pollVars
<1>8. CASE RunFunctor
  BY <1>8, HeadTailProperties DEF RunFunctor, pollVars
<1>9. CASE FunctorsDone
  BY <1>9 DEF FunctorsDone, pollVars
<1>10. ASSUME NEW f \in Functors, OwnerQueueInLoop(f) PROVE TypeOK'
  <2>1. pendingFunctors_' \in Seq(Functors)
    BY <1>10, AppendProperties DEF OwnerQueueInLoop
  <2>2. wakeupFd_' \in 0..EventfdMax
    BY <1>10 DEF OwnerQueueInLoop, AfterWrite, NeedsWakeup
  <2> QED
    BY <1>10, <2>1, <2>2 DEF OwnerQueueInLoop
<1>11. CASE OwnerQuit
  BY <1>11 DEF OwnerQuit, pollVars, queueVars
<1>12. ASSUME NEW t \in Threads, NEW f \in Functors, QueueInLoop(t, f)
       PROVE  TypeOK'
  BY <1>12, AppendProperties DEF QueueInLoop, pollVars
<1>13. ASSUME NEW t \in Threads, Quit(t) PROVE TypeOK'
  BY <1>13 DEF Quit, pollVars, queueVars
<1>14. ASSUME NEW t \in Threads, Wakeup(t) PROVE TypeOK'
  BY <1>14 DEF Wakeup, AfterWrite, queueVars
<1>15. CASE UNCHANGED vars
  BY <1>15 DEF vars
<1> QED
  BY <1>1, <1>2, <1>3, <1>4, <1>5, <1>6, <1>7, <1>8, <1>9, <1>10, <1>11,
     <1>12, <1>13, <1>14, <1>15 DEF Next, LoopThread

(* EventLoop's state keeps its type in every behaviour.                     *)
THEOREM TypeCorrect == Spec => []TypeOK
<1>1. Init => TypeOK
  <2> SUFFICES ASSUME Init PROVE TypeOK
    OBVIOUS
  <2>1. quit_ \in BOOLEAN /\ callingPendingFunctors_ \in BOOLEAN
    BY DEF Init
  <2>2. pendingFunctors_ \in Seq(Functors) /\ functors \in Seq(Functors)
    BY DEF Init
  <2>3. wakeupFd_ \in 0..EventfdMax /\ eventListSize \in Nat \ {0}
    BY DEF Init
  <2> QED
    BY <2>1, <2>2, <2>3 DEF Init, TypeOK, LoopPC
<1> QED
  BY <1>1, TypeStep, PTL DEF Spec

------------------------------------------------------------------------------
(* No lost wakeup.                                                          *)

(* Only appending to pendingFunctors_ can make a functor that was not       *)
(* queued early wait in it.                                                 *)
LEMMA LateStays ==
  ASSUME TypeOK, LateFunctorPending',
         pendingFunctors_' = pendingFunctors_, early' = early
  PROVE  LateFunctorPending
BY DEF LateFunctorPending

LEMMA LateAppend ==
  ASSUME TypeOK, NEW f \in Functors, LateFunctorPending',
         pendingFunctors_' = Append(pendingFunctors_, f),
         early \subseteq early'
  PROVE  LateFunctorPending \/ f \notin early'
<1> SUFFICES ASSUME f \in early' PROVE LateFunctorPending
  OBVIOUS
<1>1. PICK i \in 1..Len(pendingFunctors_') : pendingFunctors_'[i] \notin early'
  BY DEF LateFunctorPending
<1>2. i \in 1..Len(pendingFunctors_) /\ pendingFunctors_[i] \notin early
  BY <1>1, AppendProperties DEF TypeOK
<1> QED
  BY <1>2 DEF LateFunctorPending

LEMMA WakeupStep == TypeOK /\ WakeupInv /\ [Next]_vars => WakeupInv'
<1> SUFFICES ASSUME TypeOK, WakeupInv, [Next]_vars PROVE WakeupInv'
  OBVIOUS
<1> USE DEF WakeupInv
<1>1. CASE Loop
  <2>1. Signalled => Signalled'
    BY <1>1 DEF Loop, Signalled, pollVars
  <2> QED
    BY <1>1, <2>1, LateStays DEF Loop, queueVars
<1>2. CASE While
  <2>1. Signalled => Signalled'
    BY <1>2 DEF While, Signalled
  <2> QED
    BY <1>2, <2>1, LateStays DEF While, queueVars
<1>3. ASSUME NEW io \in SUBSET IoChannels, PollEvents(io) PROVE WakeupInv'
  BY <1>3 DEF PollEvents, queueVars
<1>4. CASE PollTimeout
  BY <1>4 DEF PollTimeout, queueVars
<1>5. CASE HandleRead
  BY <1>5 DEF HandleRead, queueVars
<1>6. ASSUME NEW c \in IoChannels, HandleEvent(c) PROVE WakeupInv'
  BY <1>6 DEF HandleEvent, queueVars
<1>7. CASE DoPendingFunctors
  <2>1. ~LateFunctorPending'
    BY <1>7 DEF DoPendingFunctors, LateFunctorPending
  <2> QED
    BY <1>7, <2>1 DEF DoPendingFunctors
<1>8. CASE RunFunctor
  <2>1. Signalled => Signalled'
    BY <1>8 DEF RunFunctor, Signalled, pollVars
  <2> QED
    BY <1>8, <2>1, LateStays DEF RunFunctor
<1>9. CASE FunctorsDone
  <2>1. Signalled => Signalled'
    BY <1>9 DEF FunctorsDone, Signalled, pollVars
  <2> QED
    BY <1>9, <2>1, LateStays DEF FunctorsDone
<1>10. ASSUME NEW f \in Functors, OwnerQueueInLoop(f) PROVE WakeupInv'
  <2>1. pc \in {"idle", "dispatch", "run"}
    BY <1>10 DEF OwnerQueueInLoop, InUserCode
  <2>2. CASE pc = "idle"
    <3>1. LateFunctorPending' => LateFunctorPending
      BY <1>10, <2>2, LateAppend DEF OwnerQueueInLoop
    <3>2. Signalled => Signalled'
      BY <1>10 DEF OwnerQueueInLoop, Signalled, AfterWrite, NeedsWakeup, TypeOK
    <3> QED
      BY <1>10, <2>2, <3>1, <3>2 DEF OwnerQueueInLoop
  <2>3. CASE pc = "dispatch"
    BY <1>10, <2>3 DEF OwnerQueueInLoop
  <2>4. CASE pc = "run"
    <3>1. Signalled'
      BY <1>10, <2>4
      DEF OwnerQueueInLoop, Signalled, AfterWrite, NeedsWakeup, TypeOK
    <3> QED
      BY <1>10, <2>4, <3>1 DEF OwnerQueueInLoop
  <2> QED
    BY <2>1, <2>2, <2>3, <2>4
<1>11. CASE OwnerQuit
  <2>1. pc # "poll"
    BY <1>11 DEF OwnerQuit, InUserCode
  <2>2. Signalled => Signalled'
    BY <1>11 DEF OwnerQuit, Signalled, pollVars
  <2> QED
    BY <1>11, <2>1, <2>2, LateStays DEF OwnerQuit, queueVars
<1>12. ASSUME NEW t \in Threads, NEW f \in Functors, QueueInLoop(t, f)
       PROVE  WakeupInv'
  <2>1. Signalled'
    BY <1>12 DEF QueueInLoop, Signalled, NeedsWakeup, TypeOK
  <2> QED
    BY <1>12, <2>1 DEF QueueInLoop
<1>13. ASSUME NEW t \in Threads, Quit(t) PROVE WakeupInv'
  <2>1. Signalled'
    BY <1>13 DEF Quit, Signalled, TypeOK
  <2> QED
    BY <1>13, <2>1 DEF Quit, queueVars
<1>14. ASSUME NEW t \in Threads, Wakeup(t) PROVE WakeupInv'
  <2>1. Signalled'
    BY <1>14 DEF Wakeup, AfterWrite, Signalled, TypeOK
  <2> QED
    BY <1>14, <2>1 DEF Wakeup, queueVars
<1>15. CASE UNCHANGED vars
  <2>1. Signalled' <=> Signalled
    BY <1>15 DEF vars, Signalled
  <2> QED
    BY <1>15, <2>1, LateStays DEF vars
<1> QED
  BY <1>1, <1>2, <1>3, <1>4, <1>5, <1>6, <1>7, <1>8, <1>9, <1>10, <1>11,
     <1>12, <1>13, <1>14, <1>15 DEF Next, LoopThread

LEMMA WakeupInvariant == Spec => []WakeupInv
<1>1. Init => WakeupInv
  BY DEF Init, WakeupInv, LateFunctorPending
<1> QED
  BY <1>1, TypeCorrect, WakeupStep, PTL DEF Spec

(* The loop never sleeps in epoll_wait on a quit() or on a functor it was   *)
(* handed while running, unless a write to wakeupFd_ is done or under way:  *)
(* queueInLoop(), quit(), handleRead() and doPendingFunctors() in any       *)
(* interleaving of any number of threads.                                   *)
THEOREM WakeupNeverLost == Spec => []NoLostWakeup
<1>1. WakeupInv => NoLostWakeup
  BY DEF WakeupInv, NoLostWakeup
<1> QED
  BY <1>1, WakeupInvariant, PTL

------------------------------------------------------------------------------
(* Refinement of Mailbox.                                                   *)

(* The running batch and the queue behind it behave as one sequence.        *)
LEMMA ConcatAppend ==
  ASSUME NEW S, NEW s \in Seq(S), NEW u \in Seq(S), NEW e \in S
  PROVE  s \o Append(u, e) = Append(s \o u, e)
OBVIOUS

LEMMA ConcatHeadTail ==
  ASSUME NEW S, NEW s \in Seq(S), NEW u \in Seq(S), s # <<>>
  PROVE  /\ s \o u # <<>>
         /\ Head(s \o u) = Head(s)
         /\ Tail(s \o u) = Tail(s) \o u
OBVIOUS

(* Every step of the loop or of a caller is a Submit, an Execute or no step *)
(* of the mailbox whose queue is functors \o pendingFunctors_.              *)
LEMMA MailboxStep ==
  TypeOK /\ WakeupInv /\ [Next]_vars => [MB!Next]_(MB!mailboxVars)
<1> SUFFICES ASSUME TypeOK, WakeupInv, [Next]_vars
             PROVE  MB!Next \/ UNCHANGED MB!mailboxVars
  OBVIOUS
<1> USE DEF MB!mailboxVars
<1>1. CASE Loop
  BY <1>1 DEF Loop, queueVars
<1>2. CASE While
  BY <1>2 DEF While, queueVars
<1>3. ASSUME NEW io \in SUBSET IoChannels, PollEvents(io)
      PROVE  UNCHANGED MB!mailboxVars
  BY <1>3 DEF PollEvents, queueVars
<1>4. CASE PollTimeout
  BY <1>4 DEF PollTimeout, queueVars
<1>5. CASE HandleRead
  BY <1>5 DEF HandleRead, queueVars
<1>6. ASSUME NEW c \in IoChannels, HandleEvent(c)
      PROVE  UNCHANGED MB!mailboxVars
  BY <1>6 DEF HandleEvent, queueVars
<1>7. CASE DoPendingFunctors
  <2>1. functors = <<>>
    BY <1>7 DEF DoPendingFunctors, WakeupInv
  <2>2. (functors \o pendingFunctors_)' = functors \o pendingFunctors_
    BY <1>7, <2>1, ConcatEmptySeq DEF DoPendingFunctors, Batch, TypeOK
  <2> QED
    BY <1>7, <2>2 DEF DoPendingFunctors
<1>8. CASE RunFunctor
  <2>1. MB!Execute
    BY <1>8, ConcatHeadTail DEF RunFunctor, MB!Execute, TypeOK
  <2> QED
    BY <2>1 DEF MB!Next
<1>9. CASE FunctorsDone
  BY <1>9 DEF FunctorsDone
<1>10. ASSUME NEW f \in Functors, OwnerQueueInLoop(f) PROVE MB!Next
  <2>1. MB!Submit(f)
    BY <1>10, ConcatAppend DEF OwnerQueueInLoop, MB!Submit, TypeOK
  <2> QED
    BY <2>1 DEF MB!Next
<1>11. CASE OwnerQuit
  BY <1>11 DEF OwnerQuit, queueVars
<1>12. ASSUME NEW t \in Threads, NEW f \in Functors, QueueInLoop(t, f)
       PROVE  MB!Next
  <2>1. MB!Submit(f)
    BY <1>12, ConcatAppend DEF QueueInLoop, MB!Submit, TypeOK
  <2> QED
    BY <2>1 DEF MB!Next
<1>13. ASSUME NEW t \in Threads, Quit(t) PROVE UNCHANGED MB!mailboxVars
  BY <1>13 DEF Quit, queueVars
<1>14. ASSUME NEW t \in Threads, Wakeup(t) PROVE UNCHANGED MB!mailboxVars
  BY <1>14 DEF Wakeup, queueVars
<1>15. CASE UNCHANGED vars
  BY <1>15 DEF vars
<1> QED
  BY <1>1, <1>2, <1>3, <1>4, <1>5, <1>6, <1>7, <1>8, <1>9, <1>10, <1>11,
     <1>12, <1>13, <1>14, <1>15 DEF Next, LoopThread

(* EventLoop implements Mailbox: functors handed to queueInLoop() by any    *)
(* thread run once each, in the order in which they were queued, however    *)
(* doPendingFunctors() cuts the queue into batches.                         *)
THEOREM LoopIsMailbox == Spec => MailboxSpec
<1>1. Init => MB!Init
  BY ConcatEmptySeq DEF Init, MB!Init
<1> QED
  BY <1>1, TypeCorrect, WakeupInvariant, MailboxStep, PTL
  DEF Spec, MailboxSpec, MB!Spec
==============================================================================
