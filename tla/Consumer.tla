------------------------------ MODULE Consumer ------------------------------
(***************************************************************************)
(* The consumers of a mailbox that src/client.js makes, on the broker of   *)
(* module Broker: listeners, which register as the mailbox and stay, and   *)
(* pollInbox, which asks sessionState who holds the mailbox, registers if  *)
(* it is free, collects for a while and closes.  dropMailbox is there too; *)
(* of the other clients only their publishes matter.                       *)
(***************************************************************************)
EXTENDS Broker

VARIABLES
  holder,       (* who holds the session: "nobody", "listener" or "poll"   *)
  poll,         (* pollInbox: "idle", "asking" sessionState, told "free",  *)
                (* "collecting", or "kicked" by another connection         *)
  late,         (* the answer did not come within timeoutMs                *)
  yielded       (* history: since it asked, nobody held the session once   *)

pollVars     == <<poll, late, yielded>>
consumerVars == <<brokerVars, holder, pollVars>>

Unheld(c) == ~Persistent(c)

\* Bookkeeping of the history: the session is seen unheld after the step.
NoteUnheld == yielded' = [c \in Clients |-> yielded[c] \/ conn'[c] \notin {"opening", "open"}]

-----------------------------------------------------------------------------
\* register(name, {mailbox: true}) by a listener: whoever held the session
\* is disconnected.
Listen(c) ==
  /\ Connect(c)
  /\ holder' = [holder EXCEPT ![c] = "listener"]
  /\ poll' = [poll EXCEPT ![c] = IF @ = "collecting" THEN "kicked" ELSE @]
  /\ UNCHANGED <<late, yielded>>

\* pollInbox begins: sessionState subscribes to the retained topic.
AskSession(c) ==
  /\ poll[c] = "idle"
  /\ poll' = [poll EXCEPT ![c] = "asking"]
  /\ late' = [late EXCEPT ![c] = FALSE]
  /\ yielded' = [yielded EXCEPT ![c] = Unheld(c)]
  /\ UNCHANGED <<brokerVars, holder>>

\* Mutant of SessionAnswers: whatever the topic says, the poll goes on.
SessionAnswersFree(c) ==
  /\ poll[c] = "asking" /\ retained[c] # "absent"
  /\ poll' = [poll EXCEPT ![c] = "free"]
  /\ UNCHANGED <<brokerVars, holder, late, yielded>>

\* The retained message comes: a held mailbox is left alone.
SessionAnswers(c) ==
  /\ poll[c] = "asking" /\ retained[c] # "absent"
  /\ poll' = [poll EXCEPT ![c] = IF retained[c] = "connected" THEN "idle" ELSE "free"]
  /\ UNCHANGED <<brokerVars, holder, late, yielded>>

\* 700 ms without an answer: { connected: false }.
SessionTimesOut(c) ==
  /\ poll[c] = "asking"
  /\ poll' = [poll EXCEPT ![c] = "free"]
  /\ late' = [late EXCEPT ![c] = TRUE]
  /\ UNCHANGED <<brokerVars, holder, yielded>>

PollConnects(c) ==
  /\ poll[c] = "free"
  /\ Connect(c)
  /\ holder' = [holder EXCEPT ![c] = "poll"]
  /\ poll' = [poll EXCEPT ![c] = "collecting"]
  /\ UNCHANGED <<late, yielded>>

\* timeoutMs is over: close(), and the caller gets what was collected.  One
\* that was kicked has nothing left to close.
PollReturns(c) ==
  /\ poll[c] \in {"collecting", "kicked"}
  /\ \/ poll[c] = "collecting" /\ Gone(c) /\ holder' = [holder EXCEPT ![c] = "nobody"]
     \/ poll[c] = "kicked" /\ UNCHANGED <<connection, transit, retained, holder>>
  /\ poll' = [poll EXCEPT ![c] = "idle"]
  /\ NoteUnheld
  /\ UNCHANGED <<store, clearing, authorized, received, late>>

\* The listener closes, or a connection breaks.
Breaks(c) ==
  /\ Disconnect(c)
  /\ holder' = [holder EXCEPT ![c] = "nobody"]
  /\ poll' = [poll EXCEPT ![c] = IF @ = "collecting" THEN "kicked" ELSE @]
  /\ NoteUnheld
  /\ UNCHANGED <<late>>

DropMailbox(c, force) ==
  /\ Drop(c, force)
  /\ holder' = [holder EXCEPT ![c] = "nobody"]
  /\ poll' = [poll EXCEPT ![c] = IF @ = "collecting" THEN "kicked" ELSE @]
  /\ NoteUnheld
  /\ UNCHANGED <<late>>

\* A message is acknowledged as it is handed to the message handler.
Handled(c) ==
  /\ Ack(c)
  /\ UNCHANGED <<holder, poll, late, yielded>>

\* What the broker does by itself; its snapshots and restarts are left out.
BrokerStep ==
  /\ \/ \E t \in Topics : AuthorizePublish(t) \/ EnqueuePublish(t)
     \/ \E c \in Clients : Subscribe(c) \/ StartReplay(c) \/ Replay(c) \/ Deliver(c) \/ ClearSession(c)
  /\ UNCHANGED <<holder, pollVars>>

ConsumerInit ==
  /\ BrokerInit
  /\ holder = [c \in Clients |-> "nobody"]
  /\ poll = [c \in Clients |-> "idle"]
  /\ late = [c \in Clients |-> FALSE]
  /\ yielded = [c \in Clients |-> FALSE]

ConsumerNext ==
  \/ BrokerStep
  \/ \E c \in Clients :
       \/ Listen(c) \/ Breaks(c) \/ Handled(c)
       \/ AskSession(c) \/ SessionAnswers(c) \/ SessionTimesOut(c) \/ PollConnects(c) \/ PollReturns(c)
       \/ DropMailbox(c, TRUE) \/ DropMailbox(c, FALSE)

ConsumerSpec == ConsumerInit /\ [][ConsumerNext]_consumerVars

(* aedes drains what it has to write to a connection that stays, and the   *)
(* consumer acknowledges it; a connection that does not stay, such as a    *)
(* poll's, is not for ever too short for the next packet.                  *)
ConsumerFairness ==
  \A c \in Clients :
    /\ SF_consumerVars(StartReplay(c) /\ UNCHANGED <<holder, pollVars>>)
    /\ SF_consumerVars(Replay(c) /\ UNCHANGED <<holder, pollVars>>)
    /\ WF_consumerVars(Deliver(c) /\ UNCHANGED <<holder, pollVars>>)
    /\ SF_consumerVars(Handled(c))

ConsumerFairSpec == ConsumerSpec /\ ConsumerFairness
-----------------------------------------------------------------------------
(* A poll that got an answer in time, and was not told by an absent topic, *)
(* connects only if the mailbox was free at some moment since it asked: it *)
(* takes it from nobody who held it all the while (client.js:445-449).     *)
PollYields == \A c \in Clients : poll[c] = "free" /\ ~late[c] => yielded[c]

(* A mailbox that somebody connects to again and again, a poll now and a   *)
(* listener then, is drained however soon each is cut off or taken over.   *)
DrainedByPolls ==
  \A c \in Clients : []<>(conn[c] = "opening") =>
    \A n \in 0 .. MaxNow : n \in Counters(c) ~> n \notin Counters(c)
=============================================================================
