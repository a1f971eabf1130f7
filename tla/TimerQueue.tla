------------------------------ MODULE TimerQueue ------------------------------
(***************************************************************************)
(* chaonet::TimerQueue (TimerQueue.cpp, Timer.h, TimerId.h): the timers of *)
(* one loop, kept twice, in timers_ by expiration and in activeTimers_ by  *)
(* address, behind one timerfd.                                            *)
(*                                                                         *)
(* User code on the loop's thread calls addTimer and cancel directly, in   *)
(* the middle of a batch of expired timers too; other threads' calls are   *)
(* functors of the loop, which module EventLoop shows to run in the order  *)
(* in which they were queued (Mailbox).  Time passes between any two steps.*)
(* The asserts are compiled in: the one that fails is kept in "aborted",   *)
(* after which the process takes no step.                                  *)
(***************************************************************************)
EXTENDS Naturals, Sequences, FiniteSets

CONSTANTS Timers,      \* Timer objects, as their addresses
          MaxInterval, \* bound on the interval of a timer; 0 is a one-shot timer
          MaxNow,      \* bound on the clock
          MaxQueue     \* bound on the functors waiting in the loop

ASSUME TimersAssumption == Timers \subseteq Nat
ASSUME BoundsAssumption == /\ MaxInterval \in Nat
                           /\ MaxNow \in Nat \ {0}
                           /\ MaxQueue \in Nat

VARIABLES
  now,               \* the clock, in ticks of the 100us minimal delay
  phase,             \* where the loop thread is
  reported,          \* timerfdChannel_ is active and its handler has not started
  timerfd,           \* time for which the timerfd is armed, 0 when it is not
  timers_,           \* set of <<expiration, timer>>
  activeTimers_,     \* set of timers
  cancelingTimers_,
  expired,           \* handleRead()'s local vector: the open batch
  toRun,             \* the part of the batch whose callbacks have not returned
  batchNow,          \* handleRead()'s local variable now
  expiration,        \* Timer::expiration_
  interval,          \* Timer::interval_
  created,           \* the Timer objects that exist
  queue,             \* add and cancel functors waiting in the loop
  cancelled,         \* timers for which cancelInLoop() has run since their add
  aborted            \* the function whose assert failed, or "no"

vars == <<now, phase, reported, timerfd, timers_, activeTimers_,
          cancelingTimers_, expired, toRun, batchNow, expiration, interval,
          created, queue, cancelled, aborted>>

loopVars == <<phase, reported>>
setVars == <<timers_, activeTimers_>>
batchVars == <<expired, toRun, batchNow>>
objectVars == <<expiration, interval, created>>

callingExpiredTimers_ == phase = "calling"

Init == /\ now = 1
        /\ phase = "poll"
        /\ reported = FALSE
        /\ timerfd = 0
        /\ timers_ = {} /\ activeTimers_ = {} /\ cancelingTimers_ = {}
        /\ expired = {} /\ toRun = {} /\ batchNow = 0
        /\ expiration = [t \in Timers |-> 0]
        /\ interval = [t \in Timers |-> 0]
        /\ created = {}
        /\ queue = <<>>
        /\ cancelled = {}
        /\ aborted = "no"

------------------------------------------------------------------------------
(* Plausible mistakes in this code, each a variant of a definition below.   *)

\* The delay is the expiration itself, not its distance from now.
TimerfdForAbsolute(when) == now + when

EarliestChangedOnlyIfEmpty(when) == timers_ = {}

\* The caller's timers are dropped from timers_ only.
CancelInLoopKeepsActive(t) ==
  /\ timers_' = timers_ \ {<<expiration[t], t>>}
  /\ UNCHANGED <<activeTimers_, aborted, cancelingTimers_, timerfd>>

\* reset() without the test of cancelingTimers_.
RestartedIfRepeat == {t \in Timers : /\ \E e \in expired : e[2] = t
                                    /\ interval[t] > 0}

\* reset() with a valid() that holds of times after now only.
TimerfdForFuture(when) == IF when <= now THEN 0 ELSE when

------------------------------------------------------------------------------
(* Helpers.                                                                 *)

\* std::pair's order on the entries of timers_.
Before(e, f) == e[1] < f[1] \/ (e[1] = f[1] /\ e[2] < f[2])

First(S) == CHOOSE e \in S : \A f \in S \ {e} : Before(e, f)

\* The timerfd has expired and its count has not been read.
Readable == timerfd # 0 /\ timerfd <= now

\* resetTimerfd(): howMuchTimeFromNow() is at least 100us, one tick.
\* timerfd_settime also makes an expired timerfd unreadable.
TimerfdFor(when) == IF when <= now THEN now + 1 ELSE when

\* insert()'s result: the new timer is before every other.
EarliestChanged(when) == \A e \in timers_ : when < e[1]

\* getExpired(): the entries before lower_bound(now, nullptr).
ExpiredAt(n) == {e \in timers_ : e[1] < n}

\* cancelInLoop(): activeTimers_.erase() returns end() for the last entry.
IsLastActive(t) == \A u \in activeTimers_ : u <= t

\* reset(): the timers of the batch that start over.
Restarted == {t \in Timers : /\ \E e \in expired : e[2] = t
                             /\ interval[t] > 0
                             /\ t \notin cancelingTimers_}

\* reset(): nextExpire stays Timestamp() when there is no timer.  That is
\* the epoch, which valid() accepts, so the timerfd is always armed again.
NextExpire(S) == IF S = {} THEN 0 ELSE First(S)[1]

\* No assert has failed.
Running == aborted = "no"

\* User code runs on the loop's thread: a callback of another channel, a
\* timer's callback, or a functor.
InUserCode == phase = "calling" => toRun # {}

------------------------------------------------------------------------------
(* What runs on the loop's thread on behalf of addTimer and cancel.         *)

AddTimerInLoop(t, when) ==
  /\ timers_' = timers_ \cup {<<when, t>>}
  /\ activeTimers_' = activeTimers_ \cup {t}
  /\ timerfd' = IF EarliestChanged(when) THEN TimerfdFor(when) ELSE timerfd
  /\ UNCHANGED <<cancelingTimers_, cancelled, aborted>>

CancelInLoop(t) ==
  /\ timers_' = timers_ \ {<<expiration[t], t>>}
  /\ activeTimers_' = activeTimers_ \ {t}
  /\ aborted' = IF t \in activeTimers_ /\ IsLastActive(t) THEN "cancelInLoop"
                                                          ELSE "no"
  /\ cancelingTimers_' = IF t \notin activeTimers_ /\ callingExpiredTimers_
                           THEN cancelingTimers_ \cup {t} ELSE cancelingTimers_
  /\ UNCHANGED timerfd

Queued(op, t) == \E i \in 1..Len(queue) : queue[i] = <<op, t>>

\* addTimer(): the constructor of Timer.
NewTimer(t, when, i) == /\ t \notin created
                        /\ created' = created \cup {t}
                        /\ expiration' = [expiration EXCEPT ![t] = when]
                        /\ interval' = [interval EXCEPT ![t] = i]

------------------------------------------------------------------------------
(* Calls by user code.                                                      *)

AddTimer(t, when, i) == /\ Running
                        /\ InUserCode
                        /\ now < MaxNow
                        /\ NewTimer(t, when, i)
                        /\ AddTimerInLoop(t, when)
                        /\ UNCHANGED <<now, loopVars, batchVars, queue>>

Cancel(t) == /\ Running
             /\ InUserCode
             /\ t \in created
             /\ CancelInLoop(t)
             /\ cancelled' = IF Queued("add", t) THEN cancelled
                                                 ELSE cancelled \cup {t}
             /\ UNCHANGED <<now, loopVars, batchVars, objectVars, queue>>

\* addTimer() and cancel() on another thread.
QueueAddTimer(t, when, i) ==
  /\ Running
  /\ Len(queue) < MaxQueue
  /\ NewTimer(t, when, i)
  /\ queue' = Append(queue, <<"add", t>>)
  /\ UNCHANGED <<now, loopVars, timerfd, setVars, cancelingTimers_, batchVars,
                 cancelled, aborted>>

QueueCancel(t) ==
  /\ Running
  /\ Len(queue) < MaxQueue
  /\ t \in created
  /\ queue' = Append(queue, <<"cancel", t>>)
  /\ UNCHANGED <<now, loopVars, timerfd, setVars, cancelingTimers_, batchVars,
                 objectVars, cancelled, aborted>>

------------------------------------------------------------------------------
(* The loop.                                                                *)

\* epoll_wait returns, because of the timerfd or of something else.
Poll == /\ Running
        /\ phase = "poll"
        /\ phase' = "dispatch"
        /\ reported' = Readable
        /\ UNCHANGED <<now, timerfd, setVars, cancelingTimers_, batchVars,
                       objectVars, queue, cancelled, aborted>>

\* handleRead() up to the first callback.  getExpired() asserts that the
\* first entry it leaves is after now.  A timerfd that was armed again since
\* it was reported is not readable: the read fails and is only logged.
HandleRead ==
  /\ Running
  /\ phase = "dispatch"
  /\ reported
  /\ \/ /\ \E e \in timers_ : e[1] = now
        /\ aborted' = "getExpired"
        /\ UNCHANGED <<phase, timerfd, setVars, cancelingTimers_, batchVars>>
     \/ /\ \A e \in timers_ : e[1] # now
        /\ phase' = "calling"
        /\ timerfd' = IF Readable THEN 0 ELSE timerfd
        /\ batchNow' = now
        /\ expired' = ExpiredAt(now)
        /\ toRun' = ExpiredAt(now)
        /\ timers_' = timers_ \ ExpiredAt(now)
        /\ activeTimers_' = activeTimers_ \ {e[2] : e \in ExpiredAt(now)}
        /\ cancelingTimers_' = {}
        /\ UNCHANGED aborted
  /\ UNCHANGED <<now, reported, objectVars, queue, cancelled>>

\* The callback of the next expired timer returns.
Run == /\ Running
       /\ phase = "calling"
       /\ toRun # {}
       /\ toRun' = toRun \ {First(toRun)}
       /\ UNCHANGED <<now, loopVars, timerfd, setVars, cancelingTimers_,
                      expired, batchNow, objectVars, queue, cancelled, aborted>>

\* reset() at the end of handleRead().
Reset ==
  /\ Running
  /\ phase = "calling"
  /\ toRun = {}
  /\ phase' = "dispatch"
  /\ reported' = FALSE
  /\ expiration' = [t \in Timers |-> IF t \in Restarted
                                       THEN batchNow + interval[t]
                                       ELSE expiration[t]]
  /\ timers_' = timers_ \cup {<<batchNow + interval[t], t>> : t \in Restarted}
  /\ activeTimers_' = activeTimers_ \cup Restarted
  /\ timerfd' = TimerfdFor(NextExpire(timers_'))
  /\ expired' = {}
  /\ UNCHANGED <<now, cancelingTimers_, toRun, batchNow, interval, created,
                 queue, cancelled, aborted>>

\* The other active channels are done; the functors run next.
DispatchDone == /\ Running
                /\ phase = "dispatch"
                /\ ~reported
                /\ phase' = "poll"
                /\ UNCHANGED <<now, reported, timerfd, setVars,
                               cancelingTimers_, batchVars, objectVars, queue,
                               cancelled, aborted>>

\* The loop runs the oldest functor before it polls again.
RunFunctor ==
  /\ Running
  /\ phase = "poll"
  /\ queue # <<>>
  /\ queue' = Tail(queue)
  /\ LET t == Head(queue)[2]
     IN  \/ /\ Head(queue)[1] = "add"
            /\ now < MaxNow
            /\ AddTimerInLoop(t, expiration[t])
         \/ /\ Head(queue)[1] = "cancel"
            /\ CancelInLoop(t)
            /\ cancelled' = cancelled \cup {t}
  /\ UNCHANGED <<now, loopVars, batchVars, objectVars>>

\* The clock; its last tick waits for the end of a batch, so that every
\* reset() that leaves a timer overdue is followed by another tick.
Tick == /\ Running
        /\ now < MaxNow
        /\ now + 1 = MaxNow => phase # "calling"
        /\ now' = now + 1
        /\ UNCHANGED <<loopVars, timerfd, setVars, cancelingTimers_, batchVars,
                       objectVars, queue, cancelled, aborted>>
------------------------------------------------------------------------------
Loop == Poll \/ HandleRead \/ Run \/ Reset \/ DispatchDone \/ RunFunctor

Next == \/ Loop
        \/ Tick
        \/ \E t \in Timers :
             \/ Cancel(t)
             \/ QueueCancel(t)
             \/ \E when \in 1..MaxNow, i \in 0..MaxInterval :
                  \/ AddTimer(t, when, i)
                  \/ QueueAddTimer(t, when, i)

\* Time passes, the loop's thread is scheduled, and it polls again after the
\* functors it took: those queued meanwhile wait for the next iteration.
Fairness == /\ WF_vars(Loop)
            /\ WF_vars(Poll)
            /\ WF_vars(Tick)

Spec == Init /\ [][Next]_vars /\ Fairness

------------------------------------------------------------------------------
MaxTime == MaxNow + MaxInterval + 1

Requests == {"add", "cancel"} \X Timers

TypeOK == /\ now \in 1..MaxNow
          /\ phase \in {"poll", "dispatch", "calling"}
          /\ reported \in BOOLEAN
          /\ timerfd \in 0..MaxTime
          /\ timers_ \subseteq (0..MaxTime) \X Timers
          /\ activeTimers_ \subseteq Timers
          /\ cancelingTimers_ \subseteq Timers
          /\ expired \subseteq (0..MaxTime) \X Timers
          /\ toRun \subseteq expired
          /\ batchNow \in 0..MaxNow
          /\ expiration \in [Timers -> 0..MaxTime]
          /\ interval \in [Timers -> 0..MaxInterval]
          /\ created \subseteq Timers
          /\ queue \in Seq(Requests)
          /\ cancelled \subseteq Timers
          /\ aborted \in {"no", "cancelInLoop", "getExpired"}

(* timers_ and activeTimers_ hold the same timers, each under its current   *)
(* expiration, whatever is added or cancelled in the middle of a batch, and *)
(* an inserted timer is in neither set: the asserts on their sizes, on      *)
(* erase() == 1 and on insert().second in cancelInLoop, getExpired and      *)
(* insert never fail.                                                       *)
TimerSetsAgree ==
  /\ timers_ = {<<expiration[t], t>> : t \in activeTimers_}
  /\ \A t \in Timers : Queued("add", t) => t \notin activeTimers_
  /\ phase = "calling" => \A e \in expired : e[2] \notin activeTimers_

(* No timer is forgotten: outside handleRead(), while there are timers, the *)
(* timerfd is about to be handled, or armed no later than the earliest      *)
(* expiration and the minimal delay allow.  addTimerInLoop() arms it only   *)
(* for a new earliest timer, and can disarm an expired timerfd after        *)
(* epoll_wait has reported it.                                              *)
TimerfdArmed ==
  phase # "calling" /\ ~reported =>
    \A e \in timers_ : /\ timerfd # 0
                       /\ timerfd <= e[1] \/ timerfd <= now + 1

(* cancel() is final: a timer that was cancelled after it was added is not  *)
(* in the queue again, even when it is cancelled by a callback of the batch *)
(* it is part of and would be restarted by reset().                         *)
CancelIsFinal == cancelled \cap activeTimers_ = {}

(* A timer due before the end of the modelled time expires or is cancelled, *)
(* unless an assert fails.                                                  *)
TimersExpire ==
  \A t \in Timers :
    (t \in activeTimers_ /\ expiration[t] < MaxNow /\ now < MaxNow)
      ~> (t \notin activeTimers_ \/ aborted # "no")

(* What makes the three invariants inductive.  A timer is never behind its  *)
(* own cancel in the loop's queue, so an add is never run after a cancel of *)
(* the same timer has, nor twice; and the timers of an open batch are in    *)
(* neither set, so a cancel of one of them is always in cancelingTimers_    *)
(* when reset() looks.                                                      *)
BatchTimers == {e[2] : e \in expired}

QueueInv ==
  /\ \A i \in 1..Len(queue) : queue[i][2] \in created
  /\ \A i, j \in 1..Len(queue) :
       i < j /\ queue[i][2] = queue[j][2] => queue[j][1] = "cancel"
  /\ \A t \in activeTimers_ \cup BatchTimers \cup cancelled :
       t \in created /\ ~Queued("add", t)

BatchInv == /\ phase # "calling" => expired = {}
            /\ phase = "poll" => ~reported
            /\ BatchTimers \cap activeTimers_ = {}
            /\ cancelled \cap BatchTimers \subseteq cancelingTimers_

TimerInv == /\ QueueInv
            /\ BatchInv
            /\ timers_ = {<<expiration[t], t>> : t \in activeTimers_}
            /\ TimerfdArmed
            /\ CancelIsFinal

(* cancelInLoop(), line 128: assert(itErase != activeTimers_.end()).        *)
CancelAssertHolds == aborted # "cancelInLoop"
==============================================================================
