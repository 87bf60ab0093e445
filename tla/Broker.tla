------------------------------ MODULE Broker ------------------------------
(***************************************************************************)
(* The broker around the mailbox store: startBroker of src/broker.js (who  *)
(* is connected, what the retained session topic of each mailbox says, the *)
(* provisioning of mailboxes, the drop control) and, as far as it calls    *)
(* the store, aedes: connecting, replaying the backlog, delivering live    *)
(* messages, acknowledging.  One agent inbox or session inbox per client.  *)
(***************************************************************************)
EXTENDS Mailbox

CONSTANT
  IdsMayCollide (* a connection counts message ids on from a random one,   *)
                (* blind to those that queued packets hold already         *)

ASSUME IdsMayCollideAssumption == IdsMayCollide \in BOOLEAN
ASSUME OneInboxAssumption ==
  \A c \in Clients : \E t \in Topics : \A u \in Topics : Owner[u] = c <=> u = t

VARIABLES
  conn,         (* aedes.clients[c]: "off", "clean", or a persistent       *)
                (* session: "opening" before its backlog is read, "open"   *)
  liveSub,      (* this connection is subscribed to its inbox              *)
  gapless,      (* history: it has been since its CONNACK                  *)
  live,         (* publishes emitted to this connection, not yet delivered *)
  replay,       (* backlog read by outgoingStream, not yet delivered       *)
  inflight,     (* packets written to the consumer and not acknowledged    *)
  retained,     (* las/agent/<name>/session: "absent", "free", "connected" *)
  clearing,     (* pending setImmediate of a drop that clears the above    *)
  authorized,   (* inboxes of publishes authorized and not yet enqueued    *)
  received      (* history: messages the consumer has acknowledged         *)

connection == <<conn, liveSub, gapless>>
transit    == <<live, replay, inflight>>
notices    == <<retained, clearing>>
store      == <<memory, saving, clock>>
brokerVars == <<store, connection, transit, notices, authorized, received>>

Persistent(c) == conn[c] \in {"opening", "open"}
Registered(c) == conn[c] # "off"
Inbox(c)      == CHOOSE t \in Topics : Owner[t] = c
Oldest(S)     == CHOOSE n \in S : \A m \in S : n <= m

\* Mutant of NextIds: ids are counted without regard to the queue.
NextIdsBlind(c) == MessageIds

\* Ids that aedes may give the next packet written to c.
NextIds(c) ==
  IF IdsMayCollide THEN MessageIds
  ELSE MessageIds \ ({p.mid : p \in outgoing[c]} \cup {r.mid : r \in inflight[c]})

\* Nothing is on its way over c's connection any more (or yet).
ForgetTransit(c) ==
  /\ live'     = [live EXCEPT ![c] = {}]
  /\ replay'   = [replay EXCEPT ![c] = {}]
  /\ inflight' = [inflight EXCEPT ![c] = {}]

-----------------------------------------------------------------------------
(* Publishing to an inbox *)

\* Mutant of SessionState: a new mailbox is advertised as free, always.
SessionStateFree(c) == "free"

\* What publishSession says of the mailbox that a publish just created.
SessionState(c) == IF Registered(c) THEN "connected" ELSE "free"

AuthorizePublish(t) ==
  /\ now < MaxNow
  /\ t \notin authorized
  /\ authorized' = authorized \cup {t}
  /\ \/ /\ t \in AgentInbox
        /\ EnsureMailbox(t)
        /\ retained' = [retained EXCEPT ![Owner[t]] = SessionState(Owner[t])]
     \/ /\ t \in AgentInbox => HoldsSubscription(Owner[t], t)
        /\ UNCHANGED <<store, retained>>
  /\ UNCHANGED <<connection, transit, clearing, received>>

\* Later, aedes looks up the subscribers, queues, and emits to connections.
EnqueuePublish(t) ==
  /\ t \in authorized
  /\ authorized' = authorized \ {t}
  /\ \/ /\ Subscribers(t) # {}
        /\ OutgoingEnqueueCombi(Subscribers(t))
        /\ live' = [c \in Clients |->
                      IF t = Inbox(c) /\ liveSub[c] THEN live[c] \cup {now} ELSE live[c]]
     \/ /\ Subscribers(t) = {}
        /\ UNCHANGED <<store, live>>
  /\ UNCHANGED <<connection, replay, inflight, notices, received>>

-----------------------------------------------------------------------------
(* Delivery *)

\* aedes asks the store for packet (broker, n) under an id, and writes it to
\* the consumer if the store still knows it.
Write(c, broker, n, mid) ==
  /\ OutgoingUpdate(c, broker, n, mid)
  /\ inflight' = IF Matches(c, broker, n, mid) = {} THEN inflight
                 ELSE [inflight EXCEPT ![c] = @ \cup {[mid |-> mid, counter |-> n]}]

\* A live message reaches the connection: always with a new id.
Deliver(c) ==
  /\ live[c] # {}
  /\ LET n == Oldest(live[c])
     IN  /\ live' = [live EXCEPT ![c] = @ \ {n}]
         /\ \E mid \in NextIds(c) : Write(c, epoch, n, mid)
  /\ UNCHANGED <<connection, replay, notices, authorized, received>>

\* Mutant of StartReplay: what an earlier connection was sent is not sent again.
StartReplayOfUnsent(c) ==
  /\ conn[c] = "opening"
  /\ conn' = [conn EXCEPT ![c] = "open"]
  /\ OutgoingStream(c)
  /\ replay' = [replay EXCEPT ![c] = {p.counter : p \in {q \in outgoing'[c] : q.mid = NoId}}]
  /\ UNCHANGED <<liveSub, gapless, live, inflight, notices, authorized, received>>

\* After CONNACK aedes reads the backlog.
StartReplay(c) ==
  /\ conn[c] = "opening"
  /\ conn' = [conn EXCEPT ![c] = "open"]
  /\ OutgoingStream(c)
  /\ replay' = [replay EXCEPT ![c] = {p.counter : p \in outgoing'[c]}]
  /\ UNCHANGED <<liveSub, gapless, live, inflight, notices, authorized, received>>

\* The next packet of the backlog: one that has an id keeps it, one that has
\* left the queue meanwhile is skipped.
Replay(c) ==
  /\ replay[c] # {}
  /\ LET n == Oldest(replay[c])
     IN  /\ replay' = [replay EXCEPT ![c] = @ \ {n}]
         /\ \/ \E p \in outgoing[c] :
                 /\ p.counter = n
                 /\ \E mid \in IF p.mid = NoId THEN NextIds(c) ELSE {p.mid} :
                      Write(c, p.broker, n, mid)
            \/ /\ \A p \in outgoing[c] : p.counter # n
               /\ UNCHANGED <<store, inflight>>
  /\ UNCHANGED <<connection, live, notices, authorized, received>>

\* The consumer's message handler returns; its PUBACK reaches the store.
Ack(c) ==
  /\ \E r \in inflight[c] :
       /\ OutgoingClearMessageId(c, r.mid)
       /\ inflight' = [inflight EXCEPT ![c] = @ \ {r}]
       /\ received' = [received EXCEPT ![c] = @ \cup {r.counter}]
  /\ UNCHANGED <<connection, live, replay, notices, authorized>>

-----------------------------------------------------------------------------
(* Connecting and disconnecting *)

\* A persistent session of c, taken over from whoever holds it.
Connect(c) ==
  /\ conn'     = [conn EXCEPT ![c] = "opening"]
  /\ liveSub'  = [liveSub EXCEPT ![c] = HoldsSubscription(c, Inbox(c))]
  /\ gapless'  = [gapless EXCEPT ![c] = HoldsSubscription(c, Inbox(c))]
  /\ retained' = [retained EXCEPT ![c] = "connected"]
  /\ ForgetTransit(c)
  /\ UNCHANGED <<store, clearing, authorized, received>>

\* A clean session under the same client id discards the mailbox.  Only what
\* it takes over is a mailbox consumer, whose end is announced.
CleanConnect(c) ==
  /\ conn'     = [conn EXCEPT ![c] = "clean"]
  /\ liveSub'  = [liveSub EXCEPT ![c] = FALSE]
  /\ gapless'  = [gapless EXCEPT ![c] = FALSE]
  /\ retained' = [retained EXCEPT ![c] = IF Persistent(c) THEN "free" ELSE @]
  /\ ForgetTransit(c)
  /\ CleanSubscriptions(c)
  /\ UNCHANGED <<clearing, authorized, received>>

\* register() subscribes the inbox of a session that was not present.
Subscribe(c) ==
  /\ Persistent(c) /\ ~liveSub[c]
  /\ liveSub' = [liveSub EXCEPT ![c] = TRUE]
  /\ AddSubscriptions(c, {Inbox(c)}, "qos1")
  /\ UNCHANGED <<conn, gapless, transit, notices, authorized, received>>

\* Stops live delivery; Removable says that the store keeps the subscription.
Unsubscribe(c) ==
  /\ Persistent(c) /\ liveSub[c]
  /\ liveSub' = [liveSub EXCEPT ![c] = FALSE]
  /\ gapless' = [gapless EXCEPT ![c] = FALSE]
  /\ \/ RemoveSubscriptions(c, {Inbox(c)})
     \/ Removable(c, {Inbox(c)}) = {} /\ UNCHANGED store
  /\ UNCHANGED <<conn, transit, notices, authorized, received>>

\* The connection of c is gone: the client's doing, the network's, or close().
Gone(c) ==
  /\ conn'    = [conn EXCEPT ![c] = "off"]
  /\ liveSub' = [liveSub EXCEPT ![c] = FALSE]
  /\ gapless' = [gapless EXCEPT ![c] = FALSE]
  /\ retained' = [retained EXCEPT ![c] = IF Persistent(c) THEN "free" ELSE @]
  /\ ForgetTransit(c)

Disconnect(c) ==
  /\ Registered(c)
  /\ Gone(c)
  /\ UNCHANGED <<store, clearing, authorized, received>>

-----------------------------------------------------------------------------
(* The drop control *)

\* Mutant of DropAllowed: a live consumer is no obstacle.
DropAllowedAlways(c, force) == TRUE

DropAllowed(c, force) == ~Registered(c) \/ force

\* dropMailbox: a live consumer is refused, or disconnected first.  The
\* session topic of an agent inbox is cleared in a later turn of the loop.
Drop(c, force) ==
  /\ HasMailbox(c)
  /\ DropAllowed(c, force)
  /\ \/ Registered(c) /\ force /\ Gone(c)
     \/ ~(Registered(c) /\ force) /\ UNCHANGED <<connection, transit, retained>>
  /\ CleanSubscriptions(c)
  /\ clearing' = IF Inbox(c) \in AgentInbox /\ subs[c][Inbox(c)] # "none"
                 THEN clearing \cup {c} ELSE clearing
  /\ UNCHANGED <<authorized, received>>

ClearSession(c) ==
  /\ c \in clearing
  /\ clearing' = clearing \ {c}
  /\ retained' = [retained EXCEPT ![c] = "absent"]
  /\ UNCHANGED <<store, connection, transit, authorized, received>>

-----------------------------------------------------------------------------
(* Time, crashes and restarts *)

\* Nothing but the snapshot survives; the sessions restored from it are
\* announced as free.
Restarted ==
  /\ conn'       = [c \in Clients |-> "off"]
  /\ liveSub'    = [c \in Clients |-> FALSE]
  /\ gapless'    = [c \in Clients |-> FALSE]
  /\ live'       = [c \in Clients |-> {}]
  /\ replay'     = [c \in Clients |-> {}]
  /\ inflight'   = [c \in Clients |-> {}]
  /\ retained'   = [c \in Clients |-> IF c \in sessions' THEN "free" ELSE "absent"]
  /\ clearing'   = {}
  /\ authorized' = {}
  /\ UNCHANGED received

BrokerCrash == CrashRestart(now) /\ Restarted
BrokerStop(ok) == StopRestart(now, ok) /\ Restarted

WriteSnapshot(ok) ==
  /\ FlushTimer(ok)
  /\ UNCHANGED <<connection, transit, notices, authorized, received>>

BrokerInit ==
  /\ Init
  /\ conn = [c \in Clients |-> "off"]
  /\ liveSub = [c \in Clients |-> FALSE] /\ gapless = [c \in Clients |-> FALSE]
  /\ live = [c \in Clients |-> {}] /\ replay = [c \in Clients |-> {}]
  /\ inflight = [c \in Clients |-> {}]
  /\ retained = [c \in Clients |-> "absent"] /\ clearing = {}
  /\ authorized = {}
  /\ received = [c \in Clients |-> {}]

BrokerNext ==
  \/ \E t \in Topics : AuthorizePublish(t) \/ EnqueuePublish(t)
  \/ \E c \in Clients :
       \/ Connect(c) \/ CleanConnect(c) \/ Subscribe(c) \/ Unsubscribe(c) \/ Disconnect(c)
       \/ StartReplay(c) \/ Replay(c) \/ Deliver(c) \/ Ack(c)
       \/ Drop(c, TRUE) \/ Drop(c, FALSE) \/ ClearSession(c)
  \/ \E ok \in BOOLEAN : WriteSnapshot(ok) \/ BrokerStop(ok)
  \/ BrokerCrash

BrokerSpec == BrokerInit /\ [][BrokerNext]_brokerVars

-----------------------------------------------------------------------------
(* Properties *)

Counters(c) == {p.counter : p \in outgoing[c]}

BrokerTypeOK ==
  /\ TypeOK
  /\ conn \in [Clients -> {"off", "clean", "opening", "open"}]
  /\ liveSub \in [Clients -> BOOLEAN] /\ gapless \in [Clients -> BOOLEAN]
  /\ live \in [Clients -> SUBSET Nat] /\ replay \in [Clients -> SUBSET Nat]
  /\ inflight \in [Clients -> SUBSET [mid: MessageIds, counter: Nat]]
  /\ retained \in [Clients -> {"absent", "free", "connected"}]
  /\ clearing \subseteq Clients
  /\ authorized \subseteq Topics
  /\ received \in [Clients -> SUBSET Nat]

(* While a consumer holds a mailbox its session topic never invites a poll *)
(* to take it over (publishSession, broker.js:93-97), in whatever order    *)
(* takeovers, drops, provisioning and restarts come.                       *)
NeverAdvertisedFree == \A c \in Clients : Persistent(c) => retained[c] # "free"

(* A subscribed consumer always has a stored subscription behind it: no    *)
(* drop, provisioning or unsubscribe takes the mailbox from under it       *)
(* (dropMailbox, broker.js:142-167; removeSubscriptions).                  *)
ConsumerHasMailbox ==
  \A c \in Clients : Persistent(c) /\ liveSub[c] => HoldsSubscription(c, Inbox(c))

(* Every message queued for a consumer that subscribed at its CONNACK and  *)
(* has stayed is on its way to it: no publish falls between the backlog    *)
(* that outgoingStream read and the live messages.                         *)
OnItsWay(c) == live[c] \cup replay[c] \cup {r.counter : r \in inflight[c]}
NothingStranded ==
  \A c \in Clients : conn[c] = "open" /\ liveSub[c] /\ gapless[c] => Counters(c) \subseteq OnItsWay(c)

(* A delivery changes no more than a message id: it neither removes nor    *)
(* overwrites what is queued (outgoingUpdate; mailbox.js:12-13 "each one   *)
(* acknowledged individually, none overwriting another").                  *)
NothingOverwritten ==
  [][\A c \in Clients :
       (live'[c] # live[c] \/ replay'[c] # replay[c]) /\ conn' = conn /\ now' = now =>
          Counters(c) \subseteq Counters(c)']_brokerVars

(* The broker keeps the promise of PROTOCOL.md: see DurableMailbox.        *)
Promise == INSTANCE DurableMailbox WITH
  Mailboxes <- Clients,
  Messages  <- 0 .. MaxNow,
  Limit     <- Cap,
  held      <- [c \in Clients |-> Counters(c)],
  saved     <- [c \in Clients |-> {p.counter : p \in disk.queue[c]}],
  handed    <- received

PromiseKept == Promise!Spec

(* A message queued for a consumer that stays connected is consumed: what  *)
(* waits never waits for ever (outgoingStream, outgoingUpdate, Clear).     *)
BacklogConsumed ==
  \A c \in Clients : <>[](conn[c] = "open" /\ gapless[c]) =>
    \A n \in 0 .. MaxNow : n \in Counters(c) ~> n \notin Counters(c)
=============================================================================
