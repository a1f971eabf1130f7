------------------------------ MODULE EventLoop ------------------------------
(***************************************************************************)
(* chaonet::EventLoop (EventLoop.cpp, EventLoop.h) with the poll step of   *)
(* its EPoller: one loop thread that polls, dispatches the active channels *)
(* and runs the pending functors, and other threads that hand functors to  *)
(* it and tell it to quit.                                                 *)
(*                                                                         *)
(* The loop thread sleeps in epoll_wait; what wakes it is the eventfd      *)
(* wakeupFd_.  A queueInLoop or a quit is two steps of its caller, the     *)
(* change of the loop's state and then the write to wakeupFd_, and every   *)
(* step of the loop thread can fall between them.  The critical sections   *)
(* of mutex_ hold one vector operation each, so each is one step.          *)
(***************************************************************************)
EXTENDS Naturals, Sequences, FiniteSets

CONSTANTS Functors,           \* tasks; each is handed to the loop at most once
          Threads,            \* the threads other than the loop's own
          IoChannels,         \* channels other than wakeupChannel_
          WakeupChannel,      \* wakeupChannel_
          InitEventListSize,  \* kInitEventListSize (16 in the code)
          EventfdMax          \* largest count an eventfd holds (2^64 - 2)

ASSUME WakeupAssumption == WakeupChannel \notin IoChannels
ASSUME SizeAssumption == InitEventListSize \in Nat \ {0}
ASSUME EventfdAssumption == EventfdMax \in Nat \ {0}

VARIABLES
  pc,                       \* where the loop thread is in loop()
  quit_,
  callingPendingFunctors_,
  pendingFunctors_,
  functors,                 \* doPendingFunctors' local vector; its head is running
  wakeupFd_,                \* count held by the eventfd
  eventListSize,            \* EPoller::events_.size()
  activeChannels_,          \* channels poll() returned whose handler has not returned
  caller,                   \* where every other thread is in queueInLoop() or quit()
  fresh, executed,          \* functors not handed over so far; functors that have run
  early                     \* functors queued by the loop thread outside loop()

vars == <<pc, quit_, callingPendingFunctors_, pendingFunctors_, functors,
          wakeupFd_, eventListSize, activeChannels_, caller, fresh, executed,
          early>>

pollVars == <<wakeupFd_, eventListSize, activeChannels_>>
queueVars == <<callingPendingFunctors_, pendingFunctors_, functors, fresh,
               executed, early>>

\* "idle" is outside loop(), "while" at the test of quit_, "poll" in epoll_wait.
LoopPC == {"idle", "while", "poll", "dispatch", "run"}

looping_ == pc # "idle"

Init == /\ pc = "idle"
        /\ quit_ = FALSE
        /\ callingPendingFunctors_ = FALSE
        /\ pendingFunctors_ = <<>>
        /\ functors = <<>>
        /\ wakeupFd_ = 0
        /\ eventListSize = InitEventListSize
        /\ activeChannels_ = {}
        /\ caller = [t \in Threads |-> "out"]
        /\ fresh = Functors
        /\ executed = {}
        /\ early = {}

------------------------------------------------------------------------------
(* Plausible mistakes in this code, each a variant of a definition below:   *)
(* every property is checked to fail under one of them.                     *)

NeedsWakeupOtherThreadsOnly(inLoopThread) == ~inLoopThread

NeedsWakeupLoopThreadOnly(inLoopThread) ==
  inLoopThread /\ callingPendingFunctors_

GrownEventListNever(n) == eventListSize

BatchNewestFirst(q) == [i \in 1..Len(q) |-> q[Len(q) + 1 - i]]

PollTimeoutSkipsFunctors == /\ pc = "poll"
                            /\ wakeupFd_ = 0
                            /\ pc' = "while"
                            /\ UNCHANGED <<quit_, pollVars, queueVars, caller>>

QuitNoWakeup(t) == /\ caller[t] = "out"
                   /\ quit_' = TRUE
                   /\ UNCHANGED <<pc, pollVars, queueVars, caller>>

------------------------------------------------------------------------------
(* Helpers.                                                                 *)

\* wakeup(): a write past the maximum fails and is only logged.
AfterWrite(n) == IF n < EventfdMax THEN n + 1 ELSE n

\* The condition under which queueInLoop() calls wakeup().
NeedsWakeup(inLoopThread) == ~inLoopThread \/ callingPendingFunctors_

\* poll(): events_ doubles when epoll_wait has filled it with n events.
GrownEventList(n) == IF n = eventListSize THEN 2 * eventListSize
                                          ELSE eventListSize

\* doPendingFunctors() runs the swapped-out vector in order.
Batch(q) == q

\* The loop thread is inside user code: before or after loop(), in the
\* callback of a channel, or in a functor.
InUserCode == \/ pc = "idle"
              \/ pc = "dispatch" /\ activeChannels_ \cap IoChannels # {}
              \/ pc = "run" /\ functors # <<>>

------------------------------------------------------------------------------
(* The loop thread.                                                         *)

\* Entry of loop(): a quit_ set before it is cleared.
Loop == /\ pc = "idle"
        /\ pc' = "while"
        /\ quit_' = FALSE
        /\ UNCHANGED <<pollVars, queueVars, caller>>

\* while (!quit_), and activeChannels_.clear() before the poll.
While == /\ pc = "while"
         /\ pc' = IF quit_ THEN "idle" ELSE "poll"
         /\ activeChannels_' = {}
         /\ UNCHANGED <<quit_, wakeupFd_, eventListSize, queueVars, caller>>

\* epoll_wait returns as many of the ready channels as events_ holds; io is
\* the set of other channels that are ready.
PollEvents(io) ==
  LET ready == io \cup {c \in {WakeupChannel} : wakeupFd_ > 0}
  IN  /\ pc = "poll"
      /\ \E active \in (SUBSET ready) \ {{}} :
           /\ \/ active = ready /\ Cardinality(ready) <= eventListSize
              \/ Cardinality(active) = eventListSize
           /\ activeChannels_' = active
           /\ eventListSize' = GrownEventList(Cardinality(active))
      /\ pc' = "dispatch"
      /\ UNCHANGED <<quit_, wakeupFd_, queueVars, caller>>

\* epoll_wait finds nothing ready and returns 0 after kPollTimeMs, or -1 on
\* a signal.
PollTimeout == /\ pc = "poll"
               /\ wakeupFd_ = 0
               /\ pc' = "dispatch"
               /\ UNCHANGED <<quit_, pollVars, queueVars, caller>>

\* wakeupChannel_'s callback reads the eventfd, which resets its count.
HandleRead == /\ pc = "dispatch"
              /\ WakeupChannel \in activeChannels_
              /\ wakeupFd_' = 0
              /\ activeChannels_' = activeChannels_ \ {WakeupChannel}
              /\ UNCHANGED <<pc, quit_, eventListSize, queueVars, caller>>

\* The callback of another channel returns.
HandleEvent(c) == /\ pc = "dispatch"
                  /\ c \in activeChannels_ \ {WakeupChannel}
                  /\ activeChannels_' = activeChannels_ \ {c}
                  /\ UNCHANGED <<pc, quit_, wakeupFd_, eventListSize,
                                 queueVars, caller>>

\* doPendingFunctors() up to the swap.  Only the loop thread reads
\* callingPendingFunctors_, so setting it and the swap are one step.
DoPendingFunctors == /\ pc = "dispatch"
                     /\ activeChannels_ = {}
                     /\ pc' = "run"
                     /\ callingPendingFunctors_' = TRUE
                     /\ functors' = Batch(pendingFunctors_)
                     /\ pendingFunctors_' = <<>>
                     /\ UNCHANGED <<quit_, pollVars, fresh, executed, early,
                                    caller>>

\* The running functor returns.
RunFunctor == /\ pc = "run"
              /\ functors # <<>>
              /\ executed' = executed \cup {Head(functors)}
              /\ functors' = Tail(functors)
              /\ UNCHANGED <<pc, quit_, pollVars, callingPendingFunctors_,
                             pendingFunctors_, fresh, early, caller>>

FunctorsDone == /\ pc = "run"
                /\ functors = <<>>
                /\ pc' = "while"
                /\ callingPendingFunctors_' = FALSE
                /\ UNCHANGED <<quit_, pollVars, pendingFunctors_, functors,
                               fresh, executed, early, caller>>

\* queueInLoop(f) called by user code on the loop thread.
OwnerQueueInLoop(f) ==
  /\ InUserCode
  /\ f \in fresh
  /\ fresh' = fresh \ {f}
  /\ pendingFunctors_' = Append(pendingFunctors_, f)
  /\ wakeupFd_' = IF NeedsWakeup(TRUE) THEN AfterWrite(wakeupFd_) ELSE wakeupFd_
  /\ early' = IF pc = "idle" THEN early \cup {f} ELSE early
  /\ UNCHANGED <<pc, quit_, eventListSize, activeChannels_,
                 callingPendingFunctors_, functors, executed, caller>>

\* quit() called by user code on the loop thread: no wakeup.
OwnerQuit == /\ InUserCode
             /\ quit_' = TRUE
             /\ UNCHANGED <<pc, pollVars, queueVars, caller>>

------------------------------------------------------------------------------
(* The other threads.                                                       *)

\* queueInLoop(f), or runInLoop(f) which ends there, up to the unlock.
QueueInLoop(t, f) ==
  /\ caller[t] = "out"
  /\ f \in fresh
  /\ fresh' = fresh \ {f}
  /\ pendingFunctors_' = Append(pendingFunctors_, f)
  /\ caller' = [caller EXCEPT ![t] = IF NeedsWakeup(FALSE) THEN "wakeup"
                                                           ELSE "out"]
  /\ UNCHANGED <<pc, quit_, pollVars, callingPendingFunctors_, functors,
                 executed, early>>

\* quit(), up to the test of the calling thread.
Quit(t) == /\ caller[t] = "out"
           /\ quit_' = TRUE
           /\ caller' = [caller EXCEPT ![t] = "wakeup"]
           /\ UNCHANGED <<pc, pollVars, queueVars>>

\* wakeup(), the last step of either.
Wakeup(t) == /\ caller[t] = "wakeup"
             /\ wakeupFd_' = AfterWrite(wakeupFd_)
             /\ caller' = [caller EXCEPT ![t] = "out"]
             /\ UNCHANGED <<pc, quit_, eventListSize, activeChannels_,
                            queueVars>>
------------------------------------------------------------------------------
LoopThread == \/ While
              \/ \E io \in SUBSET IoChannels : wakeupFd_ > 0 /\ PollEvents(io)
              \/ HandleRead
              \/ \E c \in IoChannels : HandleEvent(c)
              \/ DoPendingFunctors
              \/ RunFunctor
              \/ FunctorsDone

Next == \/ Loop
        \/ LoopThread
        \/ \E io \in SUBSET IoChannels : PollEvents(io)
        \/ PollTimeout
        \/ OwnerQuit
        \/ \E f \in Functors : OwnerQueueInLoop(f)
        \/ \E t \in Threads :
             \/ Quit(t)
             \/ Wakeup(t)
             \/ \E f \in Functors : QueueInLoop(t, f)

\* The loop thread is scheduled, epoll_wait returns once the eventfd is
\* readable, and a thread inside queueInLoop() or quit() finishes the call.
\* Nothing makes other channels ready, calls loop() or waits for the timeout.
Fairness == /\ WF_vars(LoopThread)
            /\ \A t \in Threads : WF_vars(Wakeup(t))

Spec == Init /\ [][Next]_vars /\ Fairness

------------------------------------------------------------------------------
TypeOK == /\ pc \in LoopPC
          /\ quit_ \in BOOLEAN
          /\ callingPendingFunctors_ \in BOOLEAN
          /\ pendingFunctors_ \in Seq(Functors)
          /\ functors \in Seq(Functors)
          /\ wakeupFd_ \in 0..EventfdMax
          /\ eventListSize \in Nat \ {0}
          /\ activeChannels_ \subseteq IoChannels \cup {WakeupChannel}
          /\ caller \in [Threads -> {"out", "wakeup"}]
          /\ fresh \subseteq Functors
          /\ executed \subseteq Functors
          /\ early \subseteq Functors

\* epoll_wait will return because of wakeupFd_: it is readable, or a thread
\* is about to write to it.
Signalled == wakeupFd_ > 0 \/ \E t \in Threads : caller[t] = "wakeup"

\* Some functor is waiting that was not queued before loop() was called.
LateFunctorPending ==
  \E i \in 1..Len(pendingFunctors_) : pendingFunctors_[i] \notin early

(* The loop never goes to sleep on work it has been given (no lost wakeup): *)
(* while it is in epoll_wait, a request to quit, or a functor queued by     *)
(* another thread, by a channel callback or by another functor, has a       *)
(* wakeup on its way.  The functors the loop thread queued outside loop()   *)
(* are the exception: queueInLoop() writes no wakeup for them.              *)
NoLostWakeup ==
  pc = "poll" /\ (quit_ \/ LateFunctorPending) => Signalled

(* What makes NoLostWakeup inductive.  A channel callback queues functors   *)
(* without a wakeup, so the claim is void while channels are dispatched,    *)
(* and doPendingFunctors() must then take the whole queue before the loop   *)
(* can sleep; nothing but the dispatch of wakeupChannel_ drains wakeupFd_.  *)
WakeupInv == /\ callingPendingFunctors_ <=> pc = "run"
             /\ pc # "run" => functors = <<>>
             /\ pc # "dispatch" /\ LateFunctorPending => Signalled
             /\ pc = "poll" /\ quit_ => Signalled

InQueue(f) == \/ \E i \in 1..Len(functors) : functors[i] = f
              \/ \E i \in 1..Len(pendingFunctors_) : pendingFunctors_[i] = f

(* Every functor handed to a running loop runs, or the loop returns from    *)
(* loop() first, with no help from the poll timeout: queueInLoop(),         *)
(* wakeup() and doPendingFunctors().                                        *)
FunctorsServed ==
  \A f \in Functors : (InQueue(f) /\ f \notin early)
                        ~> (f \in executed \/ ~looping_)

(* A ready channel is not starved: whatever subset of the ready channels    *)
(* the kernel reports when events_ is full, the doubling of events_ in      *)
(* poll() gets wakeupChannel_ dispatched in the end.                        *)
WakeupDispatched == (wakeupFd_ > 0 /\ looping_) ~> (wakeupFd_ = 0 \/ ~looping_)

(* A functor queued on the loop thread before loop() is served too, but     *)
(* only because epoll_wait times out after kPollTimeMs, as the kernel       *)
(* guarantees.                                                              *)
EarlyFunctorsServed ==
  WF_vars(PollTimeout) =>
    \A f \in Functors : InQueue(f) ~> (f \in executed \/ ~looping_)

(* quit(), from any thread, ends a running loop().                          *)
QuitStopsLoop == (quit_ /\ looping_) ~> ~looping_

(* What a loop owes to its users: functors, quits and wakeups are served.   *)
LoopServes == /\ FunctorsServed
              /\ EarlyFunctorsServed
              /\ QuitStopsLoop
              /\ WakeupDispatched

(* The loop is a mailbox: functors run once each in the order in which they *)
(* were queued, whichever threads queued them and however the swap in       *)
(* doPendingFunctors() cuts the queue into batches.                         *)
MB == INSTANCE Mailbox WITH queue <- functors \o pendingFunctors_
MailboxSpec == MB!Spec
==============================================================================
