------------------------------- MODULE Channel -------------------------------
(***************************************************************************)
(* chaonet::Channel and its registration by EPoller (Channel.h,            *)
(* Channel.cpp, EPoller.cpp), as operators on a record:                    *)
(*   events      the events the channel asks for                           *)
(*   index       EPoller's state of the channel                            *)
(*   mapped      EPoller::channels_ has the channel                        *)
(*   registered  the kernel's epoll set has its descriptor, and            *)
(*   interest    with these events                                         *)
(* A descriptor belongs to one channel, so epoll_ctl does not fail.        *)
(***************************************************************************)

\* kReadEvent and kWriteEvent; the kernel reports HUP and ERR unasked.
Events == {"IN", "OUT"}
Revents == Events \cup {"HUP", "ERR"}

Channels == [events : SUBSET Events, index : {"kNew", "kAdded", "kDeleted"},
             mapped : BOOLEAN, registered : BOOLEAN, interest : SUBSET Events]

NewChannel == [events |-> {}, index |-> "kNew", mapped |-> FALSE,
               registered |-> FALSE, interest |-> {}]

IsReading(ch) == "IN" \in ch.events
IsWriting(ch) == "OUT" \in ch.events
IsNoneEvent(ch) == ch.events = {}

\* A plausible mistake: EPOLL_CTL_DEL left out of updateChannel().
UpdateChannelKeepsInterest(ch) ==
  IF ch.index = "kAdded" /\ IsNoneEvent(ch)
    THEN [ch EXCEPT !.index = "kDeleted"]
    ELSE [ch EXCEPT !.index = "kAdded", !.mapped = TRUE, !.registered = TRUE,
                    !.interest = ch.events]

\* EPoller::updateChannel().  A channel with index kNew or kDeleted is added
\* even when it asks for no event.
UpdateChannel(ch) ==
  IF ch.index = "kAdded" /\ IsNoneEvent(ch)
    THEN [ch EXCEPT !.index = "kDeleted", !.registered = FALSE, !.interest = {}]
    ELSE [ch EXCEPT !.index = "kAdded", !.mapped = TRUE, !.registered = TRUE,
                    !.interest = ch.events]

EnableReading(ch) == UpdateChannel([ch EXCEPT !.events = @ \cup {"IN"}])
DisableReading(ch) == UpdateChannel([ch EXCEPT !.events = @ \ {"IN"}])

\* A plausible mistake: update() left out of enableWriting().
EnableWritingNoUpdate(ch) == [ch EXCEPT !.events = @ \cup {"OUT"}]

EnableWriting(ch) == UpdateChannel([ch EXCEPT !.events = @ \cup {"OUT"}])
DisableWriting(ch) == UpdateChannel([ch EXCEPT !.events = @ \ {"OUT"}])
DisableAll(ch) == UpdateChannel([ch EXCEPT !.events = {}])

\* EPoller::removeChannel() asserts that the channel asks for nothing.
RemoveChannel(ch) == [ch EXCEPT !.index = "kNew", !.mapped = FALSE,
                                !.registered = FALSE, !.interest = {}]

\* What epoll_wait reports of a descriptor with these conditions.
Reported(ch, conditions) ==
  IF ch.registered THEN conditions \cap (ch.interest \cup {"HUP", "ERR"})
                   ELSE {}

\* handleEvent(): a hang-up is passed over when there is input to read.
Handled(revents) == IF "IN" \in revents THEN revents \ {"HUP"} ELSE revents

(* EPoller's bookkeeping and the kernel's agree, so that the asserts on     *)
(* channels_ in updateChannel(), removeChannel() and fillActiveChannels()   *)
(* hold: a channel is in channels_ unless it is new, its descriptor is in   *)
(* the epoll set exactly while its index is kAdded, and with the events the *)
(* channel asks for.                                                        *)
Registration(ch) ==
  /\ ch.mapped <=> ch.index # "kNew"
  /\ ch.registered <=> ch.index = "kAdded"
  /\ ch.interest = IF ch.registered THEN ch.events ELSE {}
  /\ ch.index = "kDeleted" => IsNoneEvent(ch)
==============================================================================
