--------------------------- MODULE EventLoopThread ---------------------------
(***************************************************************************)
(* chaonet::EventLoopThread (EventLoopThread.cpp, utils/Thread.h): a       *)
(* thread that runs one EventLoop, which lives on that thread's stack, and *)
(* the owner thread that starts it, uses the loop and destroys the object. *)
(* The loop is module EventLoop, whose only other thread is the owner.     *)
(***************************************************************************)
EXTENDS Naturals, Sequences, FiniteSets

CONSTANTS Functors, WakeupChannel, Owner

VARIABLES pc, quit_, callingPendingFunctors_, pendingFunctors_, functors,
          wakeupFd_, eventListSize, activeChannels_, caller, fresh, executed,
          early           \* the loop: see module EventLoop

VARIABLES
  threadPc,    \* where the new thread is in threadFunc()
  ownerPc,     \* where the owner is in startLoop() or in the destructor
  loop_,       \* whether loop_ points to the loop
  fault        \* the bad access that was made, or "none"

EL == INSTANCE EventLoop WITH Threads <- {Owner}, IoChannels <- {},
                              InitEventListSize <- 16, EventfdMax <- 2

eventLoopVars == <<pc, quit_, callingPendingFunctors_, pendingFunctors_, functors,
                   wakeupFd_, eventListSize, activeChannels_, caller, fresh,
                   executed, early>>
threadVars == <<threadPc, ownerPc, loop_, fault>>
allVars == <<eventLoopVars, threadVars>>

\* The EventLoop object exists.
Alive == threadPc \in {"publish", "call", "looping"}

ThreadInit == /\ EL!Init
              /\ threadPc = "none"
              /\ ownerPc = "new"
              /\ loop_ = FALSE
              /\ fault = "none"

------------------------------------------------------------------------------
(* Plausible mistakes in this code, each a variant of a definition below.   *)

\* threadFunc() does not notify cond_.
PublishNoNotify == /\ threadPc = "publish"
                   /\ threadPc' = "call"
                   /\ loop_' = TRUE
                   /\ UNCHANGED <<eventLoopVars, ownerPc, fault>>

\* threadFunc() makes loop_ known before the loop is constructed.
ThreadStartPublishes == /\ threadPc = "started"
                        /\ threadPc' = "started"
                        /\ loop_' = TRUE
                        /\ UNCHANGED <<eventLoopVars, ownerPc, fault>>

------------------------------------------------------------------------------
(* The owner.                                                               *)

\* Thread::start() creates the std::thread, once.
Start == threadPc = "none" /\ threadPc' = "started"

\* startLoop(): thread_.start().
StartLoop == /\ ownerPc = "new"
             /\ ownerPc' = "check"
             /\ Start
             /\ UNCHANGED <<eventLoopVars, loop_, fault>>

\* while (loop_ == nullptr) cond_.wait(lock): the test and the wait are one
\* step, because the lock is held until the owner is blocked.
CheckLoop == /\ ownerPc = "check"
             /\ ownerPc' = IF loop_ THEN "running" ELSE "blocked"
             /\ UNCHANGED <<eventLoopVars, threadPc, loop_, fault>>

\* A condition variable may wake up without a notification.
SpuriousWakeup == /\ ownerPc = "blocked"
                  /\ ownerPc' = "check"
                  /\ UNCHANGED <<eventLoopVars, threadPc, loop_, fault>>

\* The owner calls queueInLoop() or quit() on the loop startLoop() returned,
\* while the loop exists.
UseLoop == /\ ownerPc = "running"
           /\ Alive
           /\ EL!Quit(Owner) \/ \E f \in Functors : EL!QueueInLoop(Owner, f)
           /\ UNCHANGED threadVars

\* The end of queueInLoop() or quit(): wakeup().  By then the loop's thread
\* may have seen quit_ and destroyed the loop.
FinishCall == /\ caller[Owner] = "wakeup"
              /\ \/ /\ Alive
                    /\ EL!Wakeup(Owner)
                    /\ UNCHANGED fault
                 \/ /\ ~Alive
                    /\ caller' = [caller EXCEPT ![Owner] = "out"]
                    /\ fault' = "destroyed"
                    /\ UNCHANGED <<pc, quit_, callingPendingFunctors_,
                                   pendingFunctors_, functors, wakeupFd_,
                                   eventListSize, activeChannels_, fresh,
                                   executed, early>>
              /\ UNCHANGED <<threadPc, ownerPc, loop_>>

\* The destructor's loop_->quit(); loop_ is not reset when the loop ends.
Destroy == /\ ownerPc = "running"
           /\ caller[Owner] = "out"
           /\ ownerPc' = "join"
           /\ \/ /\ Alive
                 /\ EL!Quit(Owner)
                 /\ UNCHANGED fault
              \/ /\ ~Alive
                 /\ fault' = "destroyed"
                 /\ UNCHANGED eventLoopVars
           /\ UNCHANGED <<threadPc, loop_>>

\* The destructor of an object whose loop was never started.
DestroyUnstarted == /\ ownerPc = "new"
                    /\ ownerPc' = "crashed"
                    /\ fault' = "null"
                    /\ UNCHANGED <<eventLoopVars, threadPc, loop_>>

\* thread_.join() returns.
Join == /\ ownerPc = "join"
        /\ caller[Owner] = "out"
        /\ threadPc = "exited"
        /\ ownerPc' = "done"
        /\ UNCHANGED <<eventLoopVars, threadPc, loop_, fault>>

------------------------------------------------------------------------------
(* threadFunc().                                                            *)

\* EventLoop loop;
ThreadStart == /\ threadPc = "started"
               /\ threadPc' = "publish"
               /\ UNCHANGED <<eventLoopVars, ownerPc, loop_, fault>>

\* loop_ = &loop and cond_.notify_one(), under the lock.
Publish == /\ threadPc = "publish"
           /\ threadPc' = "call"
           /\ loop_' = TRUE
           /\ ownerPc' = IF ownerPc = "blocked" THEN "check" ELSE ownerPc
           /\ UNCHANGED <<eventLoopVars, fault>>

CallLoop == /\ threadPc = "call"
            /\ EL!Loop
            /\ threadPc' = "looping"
            /\ UNCHANGED <<ownerPc, loop_, fault>>

\* One step of loop(), or a functor that calls queueInLoop() or quit().
RunLoop == /\ threadPc = "looping"
           /\ EL!LoopThread
           /\ UNCHANGED threadVars

UserFunctor == /\ threadPc = "looping"
               /\ EL!looping_
               /\ EL!OwnerQuit \/ \E f \in Functors : EL!OwnerQueueInLoop(f)
               /\ UNCHANGED threadVars

PollTimeout == /\ threadPc = "looping"
               /\ EL!PollTimeout
               /\ UNCHANGED threadVars

\* loop() has returned: the loop is destroyed and the thread ends.
ThreadEnd == /\ threadPc = "looping"
             /\ ~EL!looping_
             /\ threadPc' = "exited"
             /\ UNCHANGED <<eventLoopVars, ownerPc, loop_, fault>>
------------------------------------------------------------------------------
Thread == ThreadStart \/ Publish \/ CallLoop \/ RunLoop \/ ThreadEnd

ThreadNext == \/ StartLoop \/ CheckLoop \/ SpuriousWakeup \/ UseLoop \/ FinishCall
              \/ Destroy \/ DestroyUnstarted \/ Join
              \/ Thread \/ PollTimeout \/ UserFunctor

\* Both threads are scheduled; the owner need not start, use or destroy the
\* loop, and spurious wakeups need not happen.
ThreadFairness == /\ WF_allVars(Thread)
                  /\ WF_allVars(CheckLoop \/ FinishCall \/ Join)

ThreadSpec == ThreadInit /\ [][ThreadNext]_allVars /\ ThreadFairness

------------------------------------------------------------------------------
ThreadTypeOK == /\ EL!TypeOK
                /\ threadPc \in {"none", "started", "publish", "call", "looping",
                                 "exited"}
                /\ ownerPc \in {"new", "check", "blocked", "running", "join", "done",
                                "crashed"}
                /\ loop_ \in BOOLEAN
                /\ fault \in {"none", "null", "destroyed"}

(* startLoop() returns only once the loop has been constructed, so that its *)
(* caller can use the loop at once: threadFunc() sets loop_ after the       *)
(* constructor, and the owner tests loop_ under the same lock.              *)
LoopExistsWhenStarted ==
  ownerPc \in {"running", "join"} => threadPc \notin {"none", "started"}

(* startLoop() returns, whether the owner waits on cond_ before or after    *)
(* threadFunc() notifies it.                                                *)
StartLoopReturns == (ownerPc = "check") ~> (ownerPc = "running")

(* A quit_ that is set while loop() runs ends the thread, so the            *)
(* destructor's join() returns, with no help from the poll timeout.         *)
QuitEndsThread ==
  (ownerPc = "join" /\ quit_ /\ threadPc = "looping") ~> (ownerPc = "done")
==============================================================================
