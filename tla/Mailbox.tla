------------------------------- MODULE Mailbox -------------------------------
(***************************************************************************)
(* What EventLoop::queueInLoop promises its callers: tasks handed to a     *)
(* loop form one first-in first-out queue, and the loop's own thread runs  *)
(* each of them once, in that order.  The modules that only need a loop to *)
(* run their callbacks are written against this specification; module      *)
(* EventLoop implements it.                                                *)
(***************************************************************************)
EXTENDS Sequences

CONSTANT Functors        \* the tasks that may be handed to the loop

VARIABLES queue,         \* tasks accepted and not yet finished
          fresh,         \* tasks not handed over so far
          executed       \* tasks whose call has returned

mailboxVars == <<queue, fresh, executed>>

Init == /\ queue = <<>>
        /\ fresh = Functors
        /\ executed = {}

\* queueInLoop(f), by any thread.
Submit(f) == /\ f \in fresh
             /\ fresh' = fresh \ {f}
             /\ queue' = Append(queue, f)
             /\ UNCHANGED executed

\* The loop's thread finishes the oldest task.
Execute == /\ queue # <<>>
           /\ executed' = executed \cup {Head(queue)}
           /\ queue' = Tail(queue)
           /\ UNCHANGED fresh

Next == (\E f \in Functors : Submit(f)) \/ Execute

Spec == Init /\ [][Next]_mailboxVars
==============================================================================
