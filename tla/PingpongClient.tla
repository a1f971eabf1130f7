---------------------------- MODULE PingpongClient ----------------------------
(***************************************************************************)
(* The pingpong client (examples/pingpong/client.cpp): sessions on the     *)
(* loops of a pool, the counter of those that are connected, and the       *)
(* timeout by which the base loop disconnects them all.  The session that  *)
(* brings the counter to zero reports the totals and has the base loop     *)
(* quit.  Loop 0 is the base loop, whose thread runs the constructor of    *)
(* Client before.  A session is its number; of its TcpClient there is what *)
(* disconnect() on the base loop's thread can meet (module TcpClient has   *)
(* the rest), and a loop's callbacks are cut where another thread can      *)
(* change what they read next.                                             *)
(***************************************************************************)
EXTENDS Integers, FiniteSets, FiniteSetsExt

CONSTANTS sessionCount_,
          MaxThreads,    \* bound on the threads of the pool
          MaxMessages    \* bound on the messages a session reads

ASSUME PingpongAssumption == /\ sessionCount_ \in Nat \ {0}
                             /\ MaxThreads \in Nat /\ MaxMessages \in Nat

VARIABLES
  numThreads_,     \* of threadPool_
  base,            \* what the base loop's thread is in
  made,            \* sessions that have been started
  sessions_,       \* and those in the vector
  stopped,         \* sessions that handleTimeout() has stopped
  conn,            \* per session: "none", "connecting", or the connection's state_
  at,              \* per loop: the session of the callback it is in, and where
  numConnected_,
  messagesRead_,   \* per session
  quits,           \* per loop: it has a Client::quit() to run; of the base loop,
                   \* also EventLoop::quit()
  reports,         \* the totals that were reported
  allUp,           \* numConnected_ has been sessionCount_
  everUp,          \* it has been counted up
  missed,          \* sessions that handleTimeout() did not find connected
  mistaken         \* sessions whose callback took the connection for closed

vars == <<numThreads_, base, made, sessions_, stopped, conn, at, numConnected_,
          messagesRead_, quits, reports, allUp, everUp, missed, mistaken>>
baseVars == <<numThreads_, base, made, sessions_, stopped, missed>>
countVars == <<numConnected_, allUp, everUp, reports>>

Base == 0
Sessions == 1..sessionCount_
Loops == 0..MaxThreads
Idle == [session |-> 0, pc |-> "idle"]
In(s, pc) == [session |-> s, pc |-> pc]

\* getNextLoop(), once per session.
LoopOf(s) == IF numThreads_ = 0 THEN Base ELSE ((s - 1) % numThreads_) + 1

\* setThreadNum() is called for more than one thread only.
Init == /\ numThreads_ \in (0..MaxThreads) \ {1}
        /\ base = "construct" /\ made = 0 /\ sessions_ = 0 /\ stopped = 0
        /\ conn = [s \in Sessions |-> "none"]
        /\ at = [l \in Loops |-> Idle]
        /\ numConnected_ = 0
        /\ messagesRead_ = [s \in Sessions |-> 0]
        /\ quits = [l \in Loops |-> FALSE]
        /\ reports = {} /\ allUp = FALSE /\ everUp = FALSE
        /\ missed = {} /\ mistaken = {}

\* A loop can start a callback or a functor; the base loop once it runs.
Free(l) == /\ at[l] = Idle /\ base # "ended"
           /\ l = Base => base = "loop"

------------------------------------------------------------------------------
(* The constructor of Client, on the base loop's thread: the pool's loops   *)
(* run already.                                                             *)

StartSession ==
  /\ base = "construct" /\ made = sessions_ /\ made < sessionCount_
  /\ made' = made + 1
  /\ conn' = [conn EXCEPT ![made + 1] = "connecting"]
  /\ UNCHANGED <<numThreads_, base, sessions_, stopped, missed, at, countVars,
                 messagesRead_, quits, mistaken>>

EmplaceSession ==
  /\ base = "construct" /\ sessions_ < made
  /\ sessions_' = sessions_ + 1
  /\ base' = IF sessions_ + 1 = sessionCount_ THEN "loop" ELSE base
  /\ UNCHANGED <<numThreads_, made, stopped, missed, conn, at, countVars,
                 messagesRead_, quits, mistaken>>

------------------------------------------------------------------------------
(* handleTimeout(), once, a session at a time.                              *)

HandleTimeout ==
  /\ Free(Base) /\ stopped = 0
  /\ base' = "timeout"
  /\ UNCHANGED <<numThreads_, made, sessions_, stopped, missed, conn, at,
                 countVars, messagesRead_, quits, mistaken>>

\* TcpConnection::shutdown() does nothing to a connection that is not
\* kConnected, and disconnect() nothing to a connector.
Shutdown(state) == IF state = "kConnected" THEN "kDisconnecting" ELSE state

\* A plausible mistake: the loop ends before the last session.
StopSessionButLast ==
  /\ base = "timeout"
  /\ stopped' = stopped + 1
  /\ base' = IF stopped + 1 = sessionCount_ THEN "loop" ELSE base
  /\ conn' = IF stopped + 1 = sessionCount_ THEN conn
             ELSE [conn EXCEPT ![stopped + 1] = Shutdown(@)]
  /\ missed' = IF conn[stopped + 1] \in {"connecting", "kConnecting"}
                 THEN missed \cup {stopped + 1} ELSE missed
  /\ UNCHANGED <<numThreads_, made, sessions_, at, countVars, messagesRead_,
                 quits, mistaken>>

StopSession ==
  /\ base = "timeout"
  /\ stopped' = stopped + 1
  /\ base' = IF stopped + 1 = sessionCount_ THEN "loop" ELSE base
  /\ conn' = [conn EXCEPT ![stopped + 1] = Shutdown(@)]
  /\ missed' = IF conn[stopped + 1] \in {"connecting", "kConnecting"}
                 THEN missed \cup {stopped + 1} ELSE missed
  /\ UNCHANGED <<numThreads_, made, sessions_, at, countVars, messagesRead_,
                 quits, mistaken>>

------------------------------------------------------------------------------
(* The callbacks of a session, on its loop.                                 *)

Goes(s, pc) == at' = [at EXCEPT ![LoopOf(s)] = IF pc = "idle" THEN Idle ELSE In(s, pc)]

\* newConnection(): connection_ is set, and the state is still kConnecting.
NewConnection(s) ==
  /\ Free(LoopOf(s)) /\ conn[s] = "connecting"
  /\ conn' = [conn EXCEPT ![s] = "kConnecting"]
  /\ Goes(s, "establish")
  /\ UNCHANGED <<baseVars, countVars, messagesRead_, quits, mistaken>>

ConnectionEstablished(s) ==
  /\ at[LoopOf(s)] = In(s, "establish")
  /\ conn' = [conn EXCEPT ![s] = "kConnected"]
  /\ Goes(s, "callback")
  /\ UNCHANGED <<baseVars, countVars, messagesRead_, quits, mistaken>>

\* Session::onConnection() asks connected(), also of a connection that has just
\* come up and that handleTimeout() has shut down since.
OnConnection(s) ==
  /\ at[LoopOf(s)] = In(s, "callback")
  /\ Goes(s, IF conn[s] = "kConnected" THEN "add" ELSE "subtract")
  /\ mistaken' = IF conn[s] = "kDisconnecting" THEN mistaken \cup {s} ELSE mistaken
  /\ UNCHANGED <<baseVars, conn, countVars, messagesRead_, quits>>

\* onConnect(); the test after fetch_add() is for the log only.
OnConnect(s) ==
  /\ at[LoopOf(s)] = In(s, "add")
  /\ numConnected_' = numConnected_ + 1
  /\ allUp' = (allUp \/ numConnected_' = sessionCount_)
  /\ everUp' = TRUE
  /\ Goes(s, "idle")
  /\ UNCHANGED <<baseVars, conn, reports, messagesRead_, quits, mistaken>>

\* What onDisconnect() does first ...
FetchSub(s) ==
  /\ at[LoopOf(s)] = In(s, "subtract")
  /\ numConnected_' = numConnected_ - 1
  /\ Goes(s, "test")
  /\ UNCHANGED <<baseVars, conn, allUp, everUp, reports, messagesRead_, quits,
                 mistaken>>

\* Plausible mistakes: one session may be left, or the value is that before
\* fetch_sub().
AllDisconnectedButOne == numConnected_ <= 1
AllDisconnectedBefore == numConnected_ + 1 = 0

\* ... then it reads the counter again ...
AllDisconnected == numConnected_ = 0

Test(s) ==
  /\ at[LoopOf(s)] = In(s, "test")
  /\ Goes(s, IF AllDisconnected THEN "report" ELSE "idle")
  /\ UNCHANGED <<baseVars, conn, countVars, messagesRead_, quits, mistaken>>

\* The sum over all sessions.
Total(read) == MapThenSumSet(LAMBDA s : read[s], Sessions)

\* ... and goes through sessions_.  While the constructor fills the vector that
\* is a data race, and the total means nothing.
Report(s) ==
  /\ at[LoopOf(s)] = In(s, "report")
  /\ reports' = reports \cup
       {[allUp |-> allUp, raced |-> base = "construct",
         total |-> IF base = "construct" THEN -1
                   ELSE Total(messagesRead_)]}
  /\ quits' = [quits EXCEPT ![LoopOf(s)] = TRUE]
  /\ Goes(s, "idle")
  /\ UNCHANGED <<baseVars, conn, numConnected_, allUp, everUp, messagesRead_,
                 mistaken>>

OnMessage(s) ==
  /\ Free(LoopOf(s)) /\ conn[s] \in {"kConnected", "kDisconnecting"}
  /\ messagesRead_[s] < MaxMessages
  /\ messagesRead_' = [messagesRead_ EXCEPT ![s] = @ + 1]
  /\ UNCHANGED <<baseVars, conn, at, countVars, quits, mistaken>>

\* The server ends the stream, of its own accord or as an answer to the end of
\* the client's; handleClose() calls onConnection() again.
HandleClose(s) ==
  /\ Free(LoopOf(s)) /\ conn[s] \in {"kConnected", "kDisconnecting"}
  /\ conn' = [conn EXCEPT ![s] = "kDisconnected"]
  /\ Goes(s, "callback")
  /\ UNCHANGED <<baseVars, countVars, messagesRead_, quits, mistaken>>

\* Client::quit(), a functor, queues EventLoop::quit() in the base loop.
ClientQuit(l) ==
  /\ l # Base /\ Free(l) /\ quits[l]
  /\ quits' = [quits EXCEPT ![l] = FALSE, ![Base] = TRUE]
  /\ UNCHANGED <<baseVars, conn, at, countVars, messagesRead_, mistaken>>

LoopQuit ==
  /\ Free(Base) /\ quits[Base]
  /\ base' = "ended"
  /\ UNCHANGED <<numThreads_, made, sessions_, stopped, missed, conn, at,
                 countVars, messagesRead_, quits, mistaken>>
------------------------------------------------------------------------------
Callback(s) == \/ ConnectionEstablished(s) \/ OnConnection(s) \/ OnConnect(s)
               \/ FetchSub(s) \/ Test(s) \/ Report(s)
BaseThread == StartSession \/ EmplaceSession \/ StopSession \/ LoopQuit

\* What a loop is sure to do; a server closes what was shut down.
LoopStep(l) ==
  \/ ClientQuit(l)
  \/ \E s \in Sessions : /\ LoopOf(s) = l
                          /\ \/ Callback(s)
                             \/ HandleClose(s) /\ conn[s] = "kDisconnecting"

Next == /\ base # "ended"
        /\ \/ BaseThread \/ HandleTimeout
           \/ \E s \in Sessions : \/ NewConnection(s) \/ Callback(s)
                                  \/ OnMessage(s) \/ HandleClose(s)
           \/ \E l \in Loops : ClientQuit(l)

\* Threads are scheduled and the timer expires.  A server need not accept.
Fairness == /\ WF_vars(BaseThread) /\ WF_vars(HandleTimeout)
            /\ \A l \in Loops : WF_vars(LoopStep(l))

Spec == Init /\ [][Next]_vars /\ Fairness
------------------------------------------------------------------------------
TypeOK ==
  /\ numThreads_ \in (0..MaxThreads) \ {1}
  /\ base \in {"construct", "loop", "timeout", "ended"}
  /\ sessions_ \in 0..sessionCount_ /\ made \in {sessions_, sessions_ + 1}
  /\ made <= sessionCount_ /\ stopped \in 0..sessionCount_
  /\ conn \in [Sessions -> {"none", "connecting", "kConnecting", "kConnected",
                            "kDisconnecting", "kDisconnected"}]
  /\ at \in [Loops -> [session : Sessions \cup {0}, pc : {"idle", "establish",
                       "callback", "add", "subtract", "test", "report"}]]
  /\ numConnected_ \in Int
  /\ messagesRead_ \in [Sessions -> 0..MaxMessages]
  /\ quits \in [Loops -> BOOLEAN] /\ allUp \in BOOLEAN /\ everUp \in BOOLEAN
  /\ missed \subseteq Sessions /\ mistaken \subseteq Sessions

(* The last one reports: when sessions have been counted up, all of them    *)
(* are counted down again and no callback is under way, somebody has seen   *)
(* zero and reported, although each subtracts and reads in two steps.  It   *)
(* does not hold once a callback has taken a session that came up for one   *)
(* that went down.                                                          *)
LastOneReports ==
  everUp /\ numConnected_ = 0 /\ mistaken = {} /\ (\A l \in Loops : at[l] = Idle)
    => reports # {}

(* A total reported after all sessions were up counts every message: none   *)
(* of them reads another one, on whatever loop.  A session that the server  *)
(* drops at once may report while the constructor still fills sessions_.    *)
TotalsExact ==
  \A r \in reports :
    r.allUp /\ ~r.raced /\ mistaken = {} => r.total = Total(messagesRead_)

(* Both: somebody reports, and what is reported is right.                   *)
ReportRight == LastOneReports /\ TotalsExact

(* After the timeout the program ends, unless handleTimeout() found a       *)
(* session that was still connecting, which nothing stops any more, or a    *)
(* callback was mistaken.                                                   *)
TimeoutEnds ==
  (stopped = sessionCount_) ~> (base = "ended" \/ missed # {} \/ mistaken # {})
==============================================================================
