------------------------------ MODULE Mailbox ------------------------------
(***************************************************************************)
(* The mailbox store of the broker: class MailboxPersistence of            *)
(* src/mailbox.js.  It keeps, in memory, the stored subscriptions and the  *)
(* queue of every persistent session, and a snapshot of both on disk that  *)
(* a restarted broker loads.                                               *)
(*                                                                         *)
(* A queue (Packet[] in the code) is a set of packets ordered by `at`, the *)
(* enqueuedAt stamp: every publish advances the clock, so `at` is unique   *)
(* in a queue; packets enter at the young end, an update is made in place, *)
(* and a replacement keeps the stamp of the packet it replaces.            *)
(***************************************************************************)
EXTENDS Integers, FiniteSets

CONSTANTS
  Clients,      (* MQTT client ids of persistent sessions                  *)
  NoClient,     (* mailboxOwnerOf(topic) = null                            *)
  Topics,       (* topics the sessions subscribe to                        *)
  Owner,        (* Owner[t]: the client id whose mailbox inbox t is        *)
  AgentInbox,   (* the topics las/agent/<name>/inbox: provisioned on demand*)
  MessageIds,   (* MQTT message ids, 1..65535 in the code                  *)
  NoId,         (* a packet that was never sent has no message id          *)
  Cap,          (* max packets per queue; 0 is unlimited                   *)
  TTL,          (* max age of a packet; 0 is unlimited                     *)
  MaxNow,       (* bound of the clock                                      *)
  MaxEpoch      (* bound of the number of broker starts                    *)

ASSUME ClientsAssumption == NoClient \notin Clients
ASSUME TopicsAssumption  == /\ Owner \in [Topics -> Clients \cup {NoClient}]
                            /\ AgentInbox \subseteq {t \in Topics : Owner[t] # NoClient}
ASSUME IdsAssumption     == NoId \notin MessageIds
ASSUME BoundsAssumption  == /\ Cap \in Nat /\ TTL \in Nat
                            /\ MaxNow \in Nat /\ MaxEpoch \in Nat

VARIABLES
  subs,         (* inner persistence: stored QoS of each subscription      *)
  sessions,     (* this.sessions                                           *)
  entries,      (* the keys of the Map this.outgoing                       *)
  outgoing,     (* its values; {} for a client that is no key              *)
  dirty,        (* this._dirty                                             *)
  timer,        (* this._flushTimer is pending                             *)
  disk,         (* contents of data/mailboxes.json                         *)
  now,          (* Date.now()                                              *)
  epoch,        (* number of the broker start: stands for brokerId         *)
  writeFailed   (* history: the last snapshot write failed and nothing has *)
                (* changed since                                           *)

memory == <<subs, sessions, entries, outgoing>>
saving == <<dirty, timer, disk, writeFailed>>
clock  == <<now, epoch>>
vars   == <<memory, saving, clock>>

QoS    == {"none", "qos0", "qos1"}
NoSubs == [t \in Topics |-> "none"]
Held   == [Topics -> QoS]

(* brokerCounter is the clock of the publish: unique in the whole run.     *)
Packet == [broker: Nat, counter: Nat, mid: MessageIds \cup {NoId}, at: Nat]

EmptyDisk == [subs  |-> [c \in Clients |-> NoSubs],
              queue |-> [c \in Clients |-> {}]]

-----------------------------------------------------------------------------
(* Queues *)

\* _prune: what of queue q has not expired at time t.
LiveAt(q, t) == IF TTL = 0 THEN q ELSE {p \in q : p.at >= t - TTL}

\* Mutant of DropOldest: takes from the tail (queue.slice(0, -n)).
DropNewest(q, n) == {p \in q : Cardinality({r \in q : r.at > p.at}) >= n}

\* queue.slice(n): q without its n oldest packets.
DropOldest(q, n) == {p \in q : Cardinality({r \in q : r.at < p.at}) >= n}

\* The packet of q that a loop over it from the head meets first.
First(q) == CHOOSE p \in q : \A r \in q : p.at <= r.at

\* Mutant of NewPacket: the copy gets no enqueuedAt stamp.
UnstampedPacket == [broker |-> epoch, counter |-> now, mid |-> NoId]

\* The copy of the packet published at the present time.
NewPacket == [broker |-> epoch, counter |-> now, mid |-> NoId, at |-> now]

\* Mutant of Enqueued: makes no room for the packet it adds.
EnqueuedOffByOne(q) ==
  LET live == LiveAt(q, now)
      over == Cardinality(live) - Cap
      kept == IF Cap > 0 /\ over > 0 THEN DropOldest(live, over) ELSE live
  IN  kept \cup {NewPacket}

\* _enqueueOne: the queue after the publish made at the present time.
Enqueued(q) ==
  LET live == LiveAt(q, now)
      over == Cardinality(live) - Cap + 1
      kept == IF Cap > 0 /\ over > 0 THEN DropOldest(live, over) ELSE live
  IN  kept \cup {NewPacket}

\* Mutant of Replacement: the enqueuedAt stamp is not copied.
UnstampedReplacement(old, broker, counter, mid) ==
  [broker |-> broker, counter |-> counter, mid |-> mid]

\* A packet takes the place, and the age, of old.
Replacement(old, broker, counter, mid) ==
  [broker |-> broker, counter |-> counter, mid |-> mid, at |-> old.at]

-----------------------------------------------------------------------------
(* The snapshot *)

\* Mutant of Snapshot: saves only the sessions that have a queue.
SnapshotOfQueues ==
  [subs  |-> [c \in Clients |-> IF c \in entries THEN subs[c] ELSE NoSubs],
   queue |-> outgoing]

\* snapshot(): the sessions and queues the store knows of.
Snapshot ==
  LET ids == sessions \cup entries
  IN  [subs  |-> [c \in Clients |-> IF c \in ids THEN subs[c] ELSE NoSubs],
       queue |-> [c \in Clients |-> IF c \in ids THEN outgoing[c] ELSE {}]]

\* Debounced: a pending timer is left alone.
ScheduleFlush ==
  /\ dirty' = TRUE
  /\ timer' = TRUE
  /\ writeFailed' = FALSE
  /\ UNCHANGED disk

\* Mutant of Flush: dirty is reset before the write is known to be good.
FlushForgets(ok) ==
  /\ timer' = FALSE
  /\ dirty' = FALSE
  /\ disk'  = IF dirty /\ ok THEN Snapshot ELSE disk
  /\ writeFailed' = (dirty /\ ~ok)

\* The write goes to a temporary file that is renamed, so it is all or
\* nothing; a failure is logged and leaves dirty set.
Flush(ok) ==
  /\ timer' = FALSE
  /\ \/ ~dirty /\ UNCHANGED <<dirty, disk, writeFailed>>
     \/ dirty /\ ok /\ dirty' = FALSE /\ disk' = Snapshot /\ writeFailed' = FALSE
     \/ dirty /\ ~ok /\ writeFailed' = TRUE /\ UNCHANGED <<dirty, disk>>

FlushTimer(ok) ==
  /\ timer
  /\ Flush(ok)
  /\ UNCHANGED <<memory, clock>>

\* The constructor and load() of the next broker, at a later time, from
\* snapshot d.
Load(d, later) ==
  LET live == [c \in Clients |-> LiveAt(d.queue[c], later)]
  IN  /\ subs'     = d.subs
      /\ sessions' = {c \in Clients : d.subs[c] # NoSubs}
      /\ outgoing' = live
      /\ entries'  = {c \in Clients : live[c] # {}}
      /\ disk'     = d
      /\ dirty' = FALSE /\ timer' = FALSE /\ writeFailed' = FALSE
      /\ now' = later
      /\ epoch' = epoch + 1

\* The process dies without a word, and a new one starts.
CrashRestart(later) ==
  /\ epoch < MaxEpoch
  /\ Load(disk, later)

\* startBroker().close() flushes before the process ends.
StopRestart(later, ok) ==
  /\ epoch < MaxEpoch
  /\ Load(IF dirty /\ ok THEN Snapshot ELSE disk, later)

-----------------------------------------------------------------------------
(* Subscriptions *)

HoldsSubscription(c, t) == subs[c][t] = "qos1"

\* The broker provisions the inbox of an agent on a publish to it.
EnsureMailbox(t) ==
  LET c == Owner[t]
  IN  /\ ~HoldsSubscription(c, t)
      /\ subs' = [subs EXCEPT ![c][t] = "qos1"]
      /\ sessions' = sessions \cup {c}
      /\ ScheduleFlush
      /\ UNCHANGED <<entries, outgoing, clock>>

\* Mutant of StoredQoS: mqtt.js's default QoS 0 is stored as asked.
StoredQoSAsAsked(c, t, qos) == qos

\* A session never stores its own inbox below QoS 1.
StoredQoS(c, t, qos) == IF Owner[t] = c THEN "qos1" ELSE qos

AddSubscriptions(c, ts, qos) ==
  /\ subs' = [subs EXCEPT ![c] =
                [t \in Topics |-> IF t \in ts THEN StoredQoS(c, t, qos) ELSE @[t]]]
  /\ sessions' = sessions \cup {c}
  /\ ScheduleFlush
  /\ UNCHANGED <<entries, outgoing, clock>>

\* The inbox of a mailbox is not its consumer's to remove.
Removable(c, ts) == {t \in ts : Owner[t] # c}

RemoveSubscriptions(c, ts) ==
  /\ Removable(c, ts) # {}
  /\ subs' = [subs EXCEPT ![c] =
                [t \in Topics |-> IF t \in Removable(c, ts) THEN "none" ELSE @[t]]]
  /\ ScheduleFlush
  /\ UNCHANGED <<sessions, entries, outgoing, clock>>

HasMailbox(c) == c \in sessions \cup entries

\* A clean-session connect, or dropMailbox.
CleanSubscriptions(c) ==
  /\ subs'     = [subs EXCEPT ![c] = NoSubs]
  /\ sessions' = sessions \ {c}
  /\ entries'  = entries \ {c}
  /\ outgoing' = [outgoing EXCEPT ![c] = {}]
  /\ ScheduleFlush
  /\ UNCHANGED clock

-----------------------------------------------------------------------------
(* Outgoing packets *)

\* subscriptionsByTopic: only QoS > 0 subscriptions are matched.
Subscribers(t) == {c \in Clients : HoldsSubscription(c, t)}

OutgoingEnqueueCombi(targets) ==
  /\ now < MaxNow
  /\ targets # {}
  /\ outgoing' = [c \in Clients |->
                    IF c \in targets THEN Enqueued(outgoing[c]) ELSE outgoing[c]]
  /\ entries'  = entries \cup targets
  /\ now' = now + 1
  /\ ScheduleFlush
  /\ UNCHANGED <<subs, sessions, epoch>>

\* The packets of c's queue that outgoingUpdate takes for the packet in hand:
\* itself, and any packet of another broker run that holds its message id.
Matches(c, broker, counter, mid) ==
  {p \in outgoing[c] : IF p.broker = broker THEN p.counter = counter ELSE p.mid = mid}

\* The packet in hand (it may have left the queue since it was read) gets
\* message id mid.  One of another run is replaced, as if it were a stale copy.
OutgoingUpdate(c, broker, counter, mid) ==
  LET matches == Matches(c, broker, counter, mid)
      old     == First(matches)
      new     == IF old.broker = broker THEN [old EXCEPT !.mid = mid]
                                        ELSE Replacement(old, broker, counter, mid)
  IN  /\ entries' = entries \cup {c}
      /\ \/ matches = {} /\ UNCHANGED <<outgoing, saving>>    \* 'no such packet'
         \/ /\ matches # {}
            /\ outgoing' = [outgoing EXCEPT ![c] = (@ \ {old}) \cup {new}]
            /\ ScheduleFlush
      /\ UNCHANGED <<subs, sessions, clock>>

\* Mutant of OutgoingClearMessageId: takes the acknowledged packet for the head.
OutgoingClearHead(c, mid) ==
  LET matches == {p \in outgoing[c] : p.mid = mid}
      rest    == outgoing[c] \ {First(outgoing[c])}
  IN  /\ \/ matches = {} /\ entries' = entries \cup {c} /\ UNCHANGED <<outgoing, saving>>
         \/ /\ matches # {}
            /\ outgoing' = [outgoing EXCEPT ![c] = rest]
            /\ entries'  = IF rest = {} THEN entries \ {c} ELSE entries \cup {c}
            /\ ScheduleFlush
      /\ UNCHANGED <<subs, sessions, clock>>

\* The oldest packet with message id mid leaves the queue.
OutgoingClearMessageId(c, mid) ==
  LET matches == {p \in outgoing[c] : p.mid = mid}
      rest    == outgoing[c] \ {First(matches)}
  IN  /\ \/ matches = {} /\ entries' = entries \cup {c} /\ UNCHANGED <<outgoing, saving>>
         \/ /\ matches # {}
            /\ outgoing' = [outgoing EXCEPT ![c] = rest]
            /\ entries'  = IF rest = {} THEN entries \ {c} ELSE entries \cup {c}
            /\ ScheduleFlush
      /\ UNCHANGED <<subs, sessions, clock>>

\* Reading the queue prunes it, and that alone is not worth a write.
OutgoingStream(c) ==
  /\ outgoing' = [outgoing EXCEPT ![c] = LiveAt(@, now)]
  /\ entries'  = entries \cup {c}
  /\ UNCHANGED <<subs, sessions, saving, clock>>

Tick ==
  /\ now < MaxNow
  /\ now' = now + 1
  /\ UNCHANGED <<memory, saving, epoch>>

-----------------------------------------------------------------------------
Init ==
  /\ subs = [c \in Clients |-> NoSubs]
  /\ sessions = {} /\ entries = {}
  /\ outgoing = [c \in Clients |-> {}]
  /\ dirty = FALSE /\ timer = FALSE /\ writeFailed = FALSE
  /\ disk = EmptyDisk
  /\ now = 0 /\ epoch = 0

Next ==
  \/ \E t \in AgentInbox : EnsureMailbox(t)
  \/ \E c \in Clients, ts \in SUBSET Topics, qos \in {"qos0", "qos1"} :
        ts # {} /\ AddSubscriptions(c, ts, qos)
  \/ \E c \in Clients, ts \in SUBSET Topics : RemoveSubscriptions(c, ts)
  \/ \E c \in Clients : CleanSubscriptions(c)
  \/ \E t \in Topics : OutgoingEnqueueCombi(Subscribers(t))
  \/ \E c \in Clients, b \in 0 .. epoch, n \in 0 .. now, mid \in MessageIds :
        OutgoingUpdate(c, b, n, mid)
  \/ \E c \in Clients, mid \in MessageIds : OutgoingClearMessageId(c, mid)
  \/ \E c \in Clients : OutgoingStream(c)
  \/ \E ok \in BOOLEAN : FlushTimer(ok)
  \/ \E later \in now .. MaxNow : CrashRestart(later)
  \/ \E later \in now .. MaxNow, ok \in BOOLEAN : StopRestart(later, ok)
  \/ Tick

Spec == Init /\ [][Next]_vars
-----------------------------------------------------------------------------
(* Properties *)

TypeOK ==
  /\ subs \in [Clients -> Held]
  /\ sessions \subseteq Clients
  /\ entries \subseteq Clients
  /\ outgoing \in [Clients -> SUBSET Packet]
  /\ disk \in [subs: [Clients -> Held], queue: [Clients -> SUBSET Packet]]
  /\ dirty \in BOOLEAN /\ timer \in BOOLEAN /\ writeFailed \in BOOLEAN
  /\ now \in Nat /\ epoch \in Nat

(* No mailbox is ever over its cap, in memory or on disk, whatever expiry, *)
(* replacement and restart did to it before the publish (_enqueueOne).     *)
CapRespected ==
  Cap > 0 => \A c \in Clients : /\ Cardinality(outgoing[c]) <= Cap
                                /\ Cardinality(disk.queue[c]) <= Cap

(* A store that is not dirty is the one a crash would restore: every       *)
(* operation that changes what is worth keeping schedules a write, and the *)
(* snapshot leaves no session out.  (Expired packets may differ: reading a *)
(* queue prunes it without a write.)                                       *)
SavedWhenClean ==
  ~dirty => \A c \in Clients :
              /\ disk.subs[c] = subs[c]
              /\ LiveAt(disk.queue[c], now) = LiveAt(outgoing[c], now)

(* An unsaved change always has a write coming, unless the last write      *)
(* failed: _scheduleFlush and flush never leave the two out of step.       *)
UnsavedHasTimer == dirty => timer \/ writeFailed

(* A broker that starts again after a quiet moment restores every          *)
(* subscription and every unexpired packet, message ids included (load).   *)
QuietRestartKeepsAll ==
  [][epoch' # epoch /\ ~dirty =>
       /\ subs' = subs
       /\ \A c \in Clients : outgoing'[c] = LiveAt(outgoing[c], now')]_vars

(* Once the inbox of a mailbox is stored at QoS 1, no subscribe, unsubscribe*)
(* or delivery of its consumer lowers or removes it: only discarding the    *)
(* session does, or a crash that loses the unsaved subscription.            *)
InboxNeverDowngraded ==
  [][\A t \in Topics : Owner[t] # NoClient =>
       LET c == Owner[t]
       IN  HoldsSubscription(c, t) =>
             \/ subs'[c][t] = "qos1"
             \/ c \notin sessions'
             \/ epoch' # epoch /\ disk.subs[c][t] # "qos1"]_vars

(* Whatever leaves a queue when a message enters it is older than whatever *)
(* stays: the cap and the TTL both take from the head.                     *)
OldestGoFirst ==
  [][\A c \in Clients :
       (\E p \in outgoing'[c] : p.counter = now /\ now' = now + 1 /\ epoch' = epoch) =>
         \A p \in outgoing[c] \ outgoing'[c], r \in outgoing[c] \cap outgoing'[c] :
           p.at < r.at]_vars
=============================================================================
