--------------------------- MODULE MailboxProofs ---------------------------
(* Theorems about the mailbox store, the broker over it and the consumers  *)
(* of its mailboxes, for every set of clients, topics and message ids,     *)
(* every cap and TTL, and every bound.  Hypotheses of a theorem on TTL and *)
(* IdsMayCollide are the ones its property needs.                          *)
EXTENDS Consumer, TLAPS, FiniteSetTheorems, WellFoundedInduction

USE DEF QoS, Held

(***************************************************************************)
(* Queues: what the operators on them return.                              *)
(***************************************************************************)

\* Pruning keeps a part of the queue.
LEMMA LiveIsPart == \A q, t : LiveAt(q, t) \subseteq q
BY DEF LiveAt

\* So does dropping from its head.
LEMMA DropIsPart == \A q, n : DropOldest(q, n) \subseteq q
BY DEF DropOldest

\* A publish adds one packet to a part of the queue.
LEMMA EnqueuedShape ==
  ASSUME NEW q
  PROVE  \E kept \in SUBSET q : Enqueued(q) = kept \cup {NewPacket}
BY LiveIsPart, DropIsPart DEF Enqueued

\* The packet a publish adds is a packet.
LEMMA NewPacketType ==
  ASSUME TypeOK
  PROVE  NewPacket \in Packet
BY DEF TypeOK, NewPacket, Packet

\* So a publish leaves a queue of packets.
LEMMA EnqueuedType ==
  ASSUME TypeOK, NEW q \in SUBSET Packet
  PROVE  Enqueued(q) \in SUBSET Packet
BY EnqueuedShape, NewPacketType

-----------------------------------------------------------------------------
(***************************************************************************)
(* Type correctness.                                                       *)
(***************************************************************************)

\* A session without subscriptions is a value of subs[c].
LEMMA NoSubsType == NoSubs \in Held
BY DEF NoSubs

\* What snapshot() returns is a value of the disk.
LEMMA SnapshotType ==
  ASSUME TypeOK
  PROVE  Snapshot \in [subs: [Clients -> Held], queue: [Clients -> SUBSET Packet]]
BY NoSubsType DEF TypeOK, Snapshot

\* A broker that loads a well-typed snapshot starts well-typed.
LEMMA LoadType ==
  ASSUME TypeOK, NEW d \in [subs: [Clients -> Held], queue: [Clients -> SUBSET Packet]],
         NEW later \in now .. MaxNow, Load(d, later)
  PROVE  TypeOK'
<1>1. \A c \in Clients : LiveAt(d.queue[c], later) \in SUBSET Packet
  BY LiveIsPart
<1>2. later \in Nat
  BY BoundsAssumption DEF TypeOK
<1>3. outgoing' \in [Clients -> SUBSET Packet]
  BY <1>1 DEF Load
<1>4. subs' \in [Clients -> Held]
  BY DEF Load
<1>5. sessions' \subseteq Clients /\ entries' \subseteq Clients
  BY DEF Load
<1>6. disk' = d /\ dirty' = FALSE /\ timer' = FALSE /\ writeFailed' = FALSE
  BY DEF Load
<1>7. now' \in Nat /\ epoch' \in Nat
  BY <1>2 DEF Load, TypeOK
<1>. QED BY <1>3, <1>4, <1>5, <1>6, <1>7 DEF TypeOK

\* The packet that an update leaves in the queue is a packet.
LEMMA UpdateType ==
  ASSUME TypeOK, NEW old \in Packet, NEW b \in Nat, NEW n \in Nat, NEW mid \in MessageIds
  PROVE  /\ [old EXCEPT !.mid = mid] \in Packet
         /\ Replacement(old, b, n, mid) \in Packet
BY DEF Packet, Replacement

\* Every nonempty set of naturals has a least element.
LEMMA LeastNatural ==
  ASSUME NEW S \in SUBSET Nat, S # {}
  PROVE  \E x \in S : \A y \in S : x <= y
<1>. DEFINE less == {ss \in Nat \X Nat : ss[1] < ss[2]}
<1>1. IsWellFoundedOn(less, Nat)
  BY NatLessThanWellFounded DEF OpToRel
<1>2. PICK x \in S : \A y \in S : ~ (<<y, x>> \in less)
  BY <1>1, WFMin
<1>3. ASSUME NEW y \in S PROVE x <= y
  <2>1. x \in Nat /\ y \in Nat /\ <<y, x>> \notin less
    BY <1>2
  <2>. QED BY <2>1
<1>. QED BY <1>3

\* A queue that is not empty has a head.
LEMMA HeadExists ==
  ASSUME NEW q \in SUBSET Packet, q # {}
  PROVE  First(q) \in q /\ \A r \in q : First(q).at <= r.at
<1>. DEFINE ages == {p.at : p \in q}
<1>1. ages \in SUBSET Nat /\ ages # {}
  BY DEF Packet
<1>3. \E a \in ages : \A b \in ages : a <= b
  BY ONLY <1>1, LeastNatural
<1>4. \E p \in q : \A r \in q : p.at <= r.at
  BY <1>3
<1>. QED BY <1>4 DEF First

\* The store starts well-typed.
LEMMA InitType == Init => TypeOK
<1>1. EmptyDisk \in [subs: [Clients -> Held], queue: [Clients -> SUBSET Packet]]
  BY NoSubsType DEF EmptyDisk
<1>2. [c \in Clients |-> NoSubs] \in [Clients -> Held]
  BY NoSubsType
<1>3. [c \in Clients |-> {}] \in [Clients -> SUBSET Packet]
  OBVIOUS
<1>. SUFFICES ASSUME Init PROVE TypeOK
  OBVIOUS
<1>4. subs \in [Clients -> Held] /\ outgoing \in [Clients -> SUBSET Packet]
  BY <1>2, <1>3 DEF Init
<1>5. sessions \subseteq Clients /\ entries \subseteq Clients
  BY DEF Init
<1>6. dirty = FALSE /\ timer = FALSE /\ writeFailed = FALSE
  BY DEF Init
<1>7. disk = EmptyDisk /\ now = 0 /\ epoch = 0
  BY DEF Init
<1>. QED BY <1>1, <1>4, <1>5, <1>6, <1>7 DEF TypeOK

\* Every step of the store keeps them.
LEMMA TypeStep == TypeOK /\ [Next]_vars => TypeOK'
<1>. SUFFICES ASSUME TypeOK, [Next]_vars PROVE TypeOK'
  OBVIOUS
<1>. USE DEF memory, saving, clock
<1>1. ASSUME NEW t \in AgentInbox, EnsureMailbox(t) PROVE TypeOK'
  <2>1. Owner[t] \in Clients /\ t \in Topics
    BY TopicsAssumption
  <2>2. subs' \in [Clients -> Held] /\ sessions' \subseteq Clients
    BY <1>1, <2>1 DEF EnsureMailbox, TypeOK
  <2>. QED BY <1>1, <2>2 DEF EnsureMailbox, ScheduleFlush, TypeOK
<1>2. ASSUME NEW c \in Clients, NEW ts \in SUBSET Topics,
             NEW qos \in {"qos0", "qos1"}, AddSubscriptions(c, ts, qos)
      PROVE  TypeOK'
  BY <1>2 DEF AddSubscriptions, StoredQoS, ScheduleFlush, TypeOK
<1>3. ASSUME NEW c \in Clients, NEW ts \in SUBSET Topics, RemoveSubscriptions(c, ts)
      PROVE  TypeOK'
  BY <1>3 DEF RemoveSubscriptions, ScheduleFlush, TypeOK
<1>4. ASSUME NEW c \in Clients, CleanSubscriptions(c) PROVE TypeOK'
  BY <1>4, NoSubsType DEF CleanSubscriptions, ScheduleFlush, TypeOK
<1>5. ASSUME NEW t \in Topics, OutgoingEnqueueCombi(Subscribers(t)) PROVE TypeOK'
  <2>1. outgoing' \in [Clients -> SUBSET Packet]
    BY <1>5, EnqueuedType DEF OutgoingEnqueueCombi, TypeOK
  <2>2. entries' \subseteq Clients /\ now' \in Nat
    BY <1>5 DEF OutgoingEnqueueCombi, Subscribers, TypeOK
  <2>. QED BY <1>5, <2>1, <2>2 DEF OutgoingEnqueueCombi, ScheduleFlush, TypeOK
<1>6. ASSUME NEW c \in Clients, NEW b \in 0 .. epoch, NEW n \in 0 .. now,
             NEW mid \in MessageIds, OutgoingUpdate(c, b, n, mid)
      PROVE  TypeOK'
  <2>. DEFINE matches == Matches(c, b, n, mid)
              old     == First(matches)
              new     == IF old.broker = b THEN [old EXCEPT !.mid = mid]
                                           ELSE Replacement(old, b, n, mid)
  <2>1. CASE matches = {}
    BY <1>6, <2>1 DEF OutgoingUpdate, TypeOK
  <2>2. CASE matches # {}
    <3>1. matches \in SUBSET Packet
      BY DEF TypeOK, Matches
    <3>2. old \in Packet
      BY <2>2, <3>1, HeadExists
    <3>3. b \in Nat /\ n \in Nat
      BY DEF TypeOK
    <3>4. new \in Packet
      BY <3>2, <3>3, UpdateType
    <3>. HIDE DEF matches, new
    <3>5. outgoing' = [outgoing EXCEPT ![c] = (@ \ {First(matches)}) \cup {new}]
      BY <1>6, <2>2 DEF OutgoingUpdate, matches, new
    <3>6. outgoing' \in [Clients -> SUBSET Packet]
      BY <3>4, <3>5 DEF TypeOK
    <3>7. ScheduleFlush /\ UNCHANGED <<subs, sessions, now, epoch>>
          /\ entries' = entries \cup {c}
      BY <1>6, <2>2 DEF OutgoingUpdate, matches
    <3>. QED BY <3>6, <3>7 DEF ScheduleFlush, TypeOK
  <2>. QED BY <2>1, <2>2
<1>7. ASSUME NEW c \in Clients, NEW mid \in MessageIds, OutgoingClearMessageId(c, mid)
      PROVE  TypeOK'
  BY <1>7 DEF OutgoingClearMessageId, ScheduleFlush, TypeOK
<1>8. ASSUME NEW c \in Clients, OutgoingStream(c) PROVE TypeOK'
  BY <1>8, LiveIsPart DEF OutgoingStream, TypeOK
<1>9. ASSUME NEW ok \in BOOLEAN, FlushTimer(ok) PROVE TypeOK'
  BY <1>9, SnapshotType DEF FlushTimer, Flush, TypeOK
<1>10. ASSUME NEW later \in now .. MaxNow, CrashRestart(later) PROVE TypeOK'
  <2>1. disk \in [subs: [Clients -> Held], queue: [Clients -> SUBSET Packet]]
    BY DEF TypeOK
  <2>. QED BY <1>10, <2>1, LoadType DEF CrashRestart
<1>11. ASSUME NEW later \in now .. MaxNow, NEW ok \in BOOLEAN, StopRestart(later, ok)
       PROVE  TypeOK'
  <2>1. (IF dirty /\ ok THEN Snapshot ELSE disk)
          \in [subs: [Clients -> Held], queue: [Clients -> SUBSET Packet]]
    BY SnapshotType DEF TypeOK
  <2>. QED BY <1>11, <2>1, LoadType DEF StopRestart
<1>12. CASE Tick
  BY <1>12 DEF Tick, TypeOK
<1>13. CASE UNCHANGED vars
  BY <1>13 DEF vars, TypeOK
<1>. QED
  BY <1>1, <1>2, <1>3, <1>4, <1>5, <1>6, <1>7, <1>8, <1>9, <1>10, <1>11, <1>12, <1>13
  DEF Next

\* The types hold at every moment of every run of the store.
THEOREM Typing == Spec => []TypeOK
BY InitType, TypeStep, PTL DEF Spec
-----------------------------------------------------------------------------
(***************************************************************************)
(* What a crash restores.                                                  *)
(***************************************************************************)

\* The snapshot leaves nothing out: what is not a session has no stored
\* subscription, and what has no entry has no queue.
Covered ==
  \A c \in Clients : /\ c \notin sessions => subs[c] = NoSubs
                     /\ c \notin entries => outgoing[c] = {}

\* The strengthening of SavedWhenClean and UnsavedHasTimer that a step keeps.
DurableInv == TypeOK /\ Covered /\ SavedWhenClean /\ UnsavedHasTimer

\* Expiry is for good: what is live later was live before.
LEMMA LiveLive ==
  ASSUME NEW q \in SUBSET Packet, NEW t \in Nat, NEW u \in Nat, t <= u
  PROVE  LiveAt(LiveAt(q, t), u) = LiveAt(q, u)
<1>1. CASE TTL = 0
  BY <1>1 DEF LiveAt
<1>2. CASE TTL # 0
  <2>1. \A p \in q : p.at \in Int
    BY DEF Packet
  <2>2. \A p \in q : p.at >= u - TTL => p.at >= t - TTL
    BY <2>1, BoundsAssumption
  <2>. QED BY <1>2, <2>2 DEF LiveAt
<1>. QED BY <1>1, <1>2

\* Two queues that agree on what is live go on agreeing.
LEMMA LiveLater ==
  ASSUME NEW q \in SUBSET Packet, NEW r \in SUBSET Packet,
         NEW t \in Nat, NEW u \in Nat, t <= u, LiveAt(q, t) = LiveAt(r, t)
  PROVE  LiveAt(q, u) = LiveAt(r, u)
BY LiveLive

\* The snapshot of a covered store is what it holds in memory.
LEMMA SnapshotIsMemory ==
  ASSUME TypeOK, Covered, NEW c \in Clients
  PROVE  Snapshot.subs[c] = subs[c] /\ Snapshot.queue[c] = outgoing[c]
<1>1. CASE c \in sessions \cup entries
  BY <1>1 DEF Snapshot
<1>2. CASE c \notin sessions \cup entries
  <2>1. subs[c] = NoSubs /\ outgoing[c] = {}
    <3>1. c \notin sessions /\ c \notin entries
      BY <1>2
    <3>. QED BY <3>1, Zenon DEF Covered
  <2>. QED BY <1>2, <2>1 DEF Snapshot
<1>. QED BY <1>1, <1>2

\* A broker that has just loaded a snapshot holds what is live in it.
LEMMA LoadDurable ==
  ASSUME TypeOK, NEW d \in [subs: [Clients -> Held], queue: [Clients -> SUBSET Packet]],
         NEW later \in now .. MaxNow, Load(d, later)
  PROVE  Covered' /\ SavedWhenClean' /\ UnsavedHasTimer'
<1>1. later \in Nat /\ now' = later
  BY BoundsAssumption DEF TypeOK, Load
<1>2. \A c \in Clients : outgoing'[c] = LiveAt(d.queue[c], later)
  BY DEF Load
<1>3. \A c \in Clients : LiveAt(outgoing'[c], now') = LiveAt(d.queue[c], now')
  BY <1>1, <1>2, LiveLive
<1>4. Covered'
  BY <1>2 DEF Load, Covered
<1>5. SavedWhenClean'
  <2>1. disk' = d /\ subs' = d.subs
    BY DEF Load
  <2>. QED BY <2>1, <1>3 DEF SavedWhenClean
<1>6. UnsavedHasTimer'
  BY DEF Load, UnsavedHasTimer
<1>. QED BY <1>4, <1>5, <1>6

\* The strengthened invariant holds at every moment (_scheduleFlush, flush,
\* snapshot, load).
LEMMA DurableInvariant == Spec => []DurableInv
<1>1. Init => DurableInv
  <2>. SUFFICES ASSUME Init PROVE Covered /\ SavedWhenClean /\ UnsavedHasTimer
    BY InitType DEF DurableInv
  <2>1. subs = [c \in Clients |-> NoSubs] /\ outgoing = [c \in Clients |-> {}]
        /\ dirty = FALSE /\ disk = EmptyDisk
    BY DEF Init
  <2>2. Covered /\ UnsavedHasTimer
    BY <2>1 DEF Covered, UnsavedHasTimer
  <2>3. SavedWhenClean
    BY <2>1 DEF SavedWhenClean, EmptyDisk
  <2>. QED BY <2>2, <2>3
<1>2. DurableInv /\ TypeOK' /\ [Next]_vars => DurableInv'
  <2>. SUFFICES ASSUME DurableInv, TypeOK', [Next]_vars
                PROVE  Covered' /\ SavedWhenClean' /\ UnsavedHasTimer'
    BY DEF DurableInv
  <2>. USE DEF memory, saving, clock
  <2>a. TypeOK /\ Covered /\ SavedWhenClean /\ UnsavedHasTimer
    BY DEF DurableInv
  \* A step that schedules a write has only the coverage to keep.
  <2>b. ASSUME ScheduleFlush PROVE SavedWhenClean' /\ UnsavedHasTimer'
    BY <2>b DEF ScheduleFlush, SavedWhenClean, UnsavedHasTimer
  \* Neither has one that leaves the store alone for a while.
  <2>c. ASSUME UNCHANGED <<memory, saving>>, now <= now'
        PROVE  Covered' /\ SavedWhenClean' /\ UnsavedHasTimer'
    <3>1. Covered' /\ UnsavedHasTimer'
      BY <2>a, <2>c DEF Covered, UnsavedHasTimer
    <3>2. ASSUME ~dirty, NEW c \in Clients
          PROVE  LiveAt(disk.queue[c], now') = LiveAt(outgoing[c], now')
      <4>1. disk.queue[c] \in SUBSET Packet /\ outgoing[c] \in SUBSET Packet
            /\ now \in Nat /\ now' \in Nat
        BY <2>a DEF TypeOK
      <4>2. LiveAt(disk.queue[c], now) = LiveAt(outgoing[c], now)
        BY <2>a, <3>2 DEF SavedWhenClean
      <4>. QED BY <2>c, <4>1, <4>2, LiveLater
    <3>. QED BY <2>a, <2>c, <3>1, <3>2 DEF SavedWhenClean
  <2>1. ASSUME NEW t \in AgentInbox, EnsureMailbox(t)
        PROVE  Covered' /\ SavedWhenClean' /\ UnsavedHasTimer'
    <3>1. Owner[t] \in Clients /\ t \in Topics
      BY TopicsAssumption
    <3>2. \A d \in Clients \ {Owner[t]} : subs'[d] = subs[d]
      BY <2>1, <2>a, <3>1 DEF EnsureMailbox, TypeOK
    <3>3. sessions' = sessions \cup {Owner[t]} /\ UNCHANGED <<entries, outgoing>>
          /\ ScheduleFlush
      BY <2>1 DEF EnsureMailbox
    <3>4. ASSUME NEW d \in Clients, d \notin sessions'
          PROVE  subs'[d] = NoSubs
      <4>1. d # Owner[t] /\ d \notin sessions
        BY <3>3, <3>4
      <4>. QED BY <2>a, <3>2, <4>1, Zenon DEF Covered
    <3>5. Covered'
      BY <2>a, <3>3, <3>4, Zenon DEF Covered
    <3>. QED BY <2>b, <3>3, <3>5
  <2>2. ASSUME NEW c \in Clients, NEW ts \in SUBSET Topics,
               NEW qos \in {"qos0", "qos1"}, AddSubscriptions(c, ts, qos)
        PROVE  Covered' /\ SavedWhenClean' /\ UnsavedHasTimer'
    <3>1. \A d \in Clients \ {c} : subs'[d] = subs[d]
      BY <2>2, <2>a DEF AddSubscriptions, TypeOK
    <3>2. sessions' = sessions \cup {c} /\ UNCHANGED <<entries, outgoing>>
          /\ ScheduleFlush
      BY <2>2 DEF AddSubscriptions
    <3>3. ASSUME NEW d \in Clients, d \notin sessions'
          PROVE  subs'[d] = NoSubs
      <4>1. d # c /\ d \notin sessions
        BY <3>2, <3>3
      <4>. QED BY <2>a, <3>1, <4>1, Zenon DEF Covered
    <3>4. Covered'
      BY <2>a, <3>2, <3>3, Zenon DEF Covered
    <3>. QED BY <2>b, <3>2, <3>4
  <2>3. ASSUME NEW c \in Clients, NEW ts \in SUBSET Topics, RemoveSubscriptions(c, ts)
        PROVE  Covered' /\ SavedWhenClean' /\ UnsavedHasTimer'
    <3>. DEFINE left == [t \in Topics |-> IF t \in Removable(c, ts) THEN "none" ELSE subs[c][t]]
    <3>1. \A d \in Clients : subs'[d] = IF d = c THEN left ELSE subs[d]
      BY <2>3, <2>a DEF RemoveSubscriptions, TypeOK
    <3>2. subs[c] = NoSubs => left = NoSubs
      BY DEF NoSubs
    <3>3. UNCHANGED <<sessions, entries, outgoing>> /\ ScheduleFlush
      BY <2>3 DEF RemoveSubscriptions
    <3>. HIDE DEF left
    <3>4. ASSUME NEW d \in Clients, d \notin sessions'
          PROVE  subs'[d] = NoSubs
      <4>1. d \notin sessions
        BY <3>3, <3>4
      <4>2. subs[d] = NoSubs
        BY <2>a, <4>1, Zenon DEF Covered
      <4>. QED BY <3>1, <3>2, <4>2, Zenon
    <3>5. Covered'
      BY <2>a, <3>3, <3>4, Zenon DEF Covered
    <3>. QED BY <2>b, <3>3, <3>5
  <2>4. ASSUME NEW c \in Clients, CleanSubscriptions(c)
        PROVE  Covered' /\ SavedWhenClean' /\ UnsavedHasTimer'
    BY <2>4, <2>a, <2>b DEF CleanSubscriptions, Covered, TypeOK
  <2>5. ASSUME NEW t \in Topics, OutgoingEnqueueCombi(Subscribers(t))
        PROVE  Covered' /\ SavedWhenClean' /\ UnsavedHasTimer'
    BY <2>5, <2>a, <2>b DEF OutgoingEnqueueCombi, Covered, TypeOK
  <2>6. ASSUME NEW c \in Clients, NEW b \in 0 .. epoch, NEW n \in 0 .. now,
               NEW mid \in MessageIds, OutgoingUpdate(c, b, n, mid)
        PROVE  Covered' /\ SavedWhenClean' /\ UnsavedHasTimer'
    <3>1. /\ \A d \in Clients \ {c} : outgoing'[d] = outgoing[d]
          /\ entries' = entries \cup {c}
          /\ subs' = subs /\ sessions' = sessions /\ now' = now
      BY <2>6, <2>a DEF OutgoingUpdate, TypeOK
    <3>2. Covered'
      BY <3>1, <2>a DEF Covered
    <3>3. ScheduleFlush \/ UNCHANGED <<outgoing, saving>>
      BY <2>6 DEF OutgoingUpdate
    <3>4. CASE UNCHANGED <<outgoing, saving>>
      BY <2>a, <3>1, <3>2, <3>4 DEF SavedWhenClean, UnsavedHasTimer
    <3>. QED BY <2>b, <3>2, <3>3, <3>4
  <2>7. ASSUME NEW c \in Clients, NEW mid \in MessageIds, OutgoingClearMessageId(c, mid)
        PROVE  Covered' /\ SavedWhenClean' /\ UnsavedHasTimer'
    <3>1. subs' = subs /\ sessions' = sessions /\ now' = now
      BY <2>7 DEF OutgoingClearMessageId
    <3>2. Covered'
      BY <2>7, <2>a DEF OutgoingClearMessageId, Covered, TypeOK
    <3>3. ScheduleFlush \/ UNCHANGED <<outgoing, saving>>
      BY <2>7 DEF OutgoingClearMessageId
    <3>4. CASE UNCHANGED <<outgoing, saving>>
      BY <2>a, <3>1, <3>2, <3>4 DEF SavedWhenClean, UnsavedHasTimer
    <3>. QED BY <2>b, <3>2, <3>3, <3>4
  <2>8. ASSUME NEW c \in Clients, OutgoingStream(c)
        PROVE  Covered' /\ SavedWhenClean' /\ UnsavedHasTimer'
    <3>1. \A d \in Clients : LiveAt(outgoing'[d], now) = LiveAt(outgoing[d], now)
      BY <2>8, <2>a, LiveLive DEF OutgoingStream, TypeOK
    <3>2. Covered'
      BY <2>8, <2>a DEF OutgoingStream, Covered, TypeOK
    <3>. QED BY <2>8, <2>a, <3>1, <3>2
             DEF OutgoingStream, SavedWhenClean, UnsavedHasTimer
  <2>9. ASSUME NEW ok \in BOOLEAN, FlushTimer(ok)
        PROVE  Covered' /\ SavedWhenClean' /\ UnsavedHasTimer'
    <3>1. UNCHANGED <<memory, clock>> /\ Flush(ok)
      BY <2>9 DEF FlushTimer
    <3>2. Covered'
      BY <2>a, <3>1 DEF Covered
    <3>3. CASE ~dirty /\ UNCHANGED <<dirty, disk, writeFailed>>
      BY <2>a, <3>1, <3>2, <3>3, Zenon DEF SavedWhenClean, UnsavedHasTimer
    <3>4. CASE disk' = Snapshot /\ dirty' = FALSE
      BY <2>a, <3>1, <3>2, <3>4, SnapshotIsMemory, Zenon DEF SavedWhenClean, UnsavedHasTimer
    <3>5. CASE dirty /\ writeFailed' = TRUE /\ UNCHANGED <<dirty, disk>>
      BY <3>2, <3>5, Zenon DEF SavedWhenClean, UnsavedHasTimer
    <3>6. \/ ~dirty /\ UNCHANGED <<dirty, disk, writeFailed>>
          \/ disk' = Snapshot /\ dirty' = FALSE
          \/ dirty /\ writeFailed' = TRUE /\ UNCHANGED <<dirty, disk>>
      BY <3>1, Zenon DEF Flush
    <3>. QED BY <3>2, <3>3, <3>4, <3>5, <3>6
  <2>10. ASSUME NEW later \in now .. MaxNow, CrashRestart(later)
         PROVE  Covered' /\ SavedWhenClean' /\ UnsavedHasTimer'
    <3>1. disk \in [subs: [Clients -> Held], queue: [Clients -> SUBSET Packet]]
      BY <2>a DEF TypeOK
    <3>. QED BY <2>10, <2>a, <3>1, LoadDurable DEF CrashRestart
  <2>11. ASSUME NEW later \in now .. MaxNow, NEW ok \in BOOLEAN, StopRestart(later, ok)
         PROVE  Covered' /\ SavedWhenClean' /\ UnsavedHasTimer'
    <3>1. (IF dirty /\ ok THEN Snapshot ELSE disk)
            \in [subs: [Clients -> Held], queue: [Clients -> SUBSET Packet]]
      BY <2>a, SnapshotType DEF TypeOK
    <3>. QED BY <2>11, <2>a, <3>1, LoadDurable DEF StopRestart
  <2>12. CASE Tick
    <3>1. now \in Nat
      BY <2>a DEF TypeOK
    <3>. QED BY <2>12, <2>c, <3>1 DEF Tick
  <2>13. CASE UNCHANGED vars
    <3>1. now \in Nat
      BY <2>a DEF TypeOK
    <3>. QED BY <2>13, <2>c, <3>1 DEF vars
  <2>. QED
    BY <2>1, <2>2, <2>3, <2>4, <2>5, <2>6, <2>7, <2>8, <2>9, <2>10, <2>11, <2>12, <2>13
    DEF Next
<1>. QED BY <1>1, <1>2, Typing, PTL DEF Spec

\* A crash after a quiet moment loses nothing: SavedWhenClean and
\* UnsavedHasTimer hold at every moment.
THEOREM Durable == Spec => [](SavedWhenClean /\ UnsavedHasTimer)
<1>1. DurableInv => SavedWhenClean /\ UnsavedHasTimer
  BY DEF DurableInv
<1>. QED BY <1>1, DurableInvariant, PTL
-----------------------------------------------------------------------------
(***************************************************************************)
(* What a step may do.                                                     *)
(***************************************************************************)

\* A step to another broker run loads the disk, or what a stop saved last.
LEMMA RestartLoads ==
  ASSUME [Next]_vars, epoch' # epoch
  PROVE  \E later \in now .. MaxNow, d \in {disk, Snapshot} :
           /\ Load(d, later)
           /\ ~dirty => d = disk
<1>1. CASE \E later \in now .. MaxNow : CrashRestart(later)
  BY <1>1 DEF CrashRestart
<1>2. CASE \E later \in now .. MaxNow, ok \in BOOLEAN : StopRestart(later, ok)
  BY <1>2 DEF StopRestart
<1>3. ~ UNCHANGED epoch
  OBVIOUS
<1>. QED
  BY <1>1, <1>2, <1>3
  DEF Next, vars, memory, clock, EnsureMailbox, AddSubscriptions, RemoveSubscriptions,
      CleanSubscriptions, OutgoingEnqueueCombi, OutgoingUpdate, OutgoingClearMessageId,
      OutgoingStream, FlushTimer, Tick

\* A broker that starts again after a quiet moment has every subscription and
\* every unexpired packet (load, snapshot).
THEOREM QuietRestart == Spec => QuietRestartKeepsAll
<1>1. DurableInv /\ [Next]_vars =>
        (epoch' # epoch /\ ~dirty =>
           /\ subs' = subs
           /\ \A c \in Clients : outgoing'[c] = LiveAt(outgoing[c], now'))
  <2>. SUFFICES ASSUME DurableInv, [Next]_vars, epoch' # epoch, ~dirty
                PROVE  /\ subs' = subs
                       /\ \A c \in Clients : outgoing'[c] = LiveAt(outgoing[c], now')
    OBVIOUS
  <2>1. TypeOK /\ SavedWhenClean
    BY DEF DurableInv
  <2>2. PICK later \in now .. MaxNow : Load(disk, later)
    BY RestartLoads
  <2>3. subs' = subs
    <3>1. \A c \in Clients : disk.subs[c] = subs[c]
      BY <2>1 DEF SavedWhenClean
    <3>2. disk.subs \in [Clients -> Held] /\ subs \in [Clients -> Held]
      BY <2>1 DEF TypeOK
    <3>. QED BY <2>2, <3>1, <3>2 DEF Load
  <2>4. ASSUME NEW c \in Clients
        PROVE  outgoing'[c] = LiveAt(outgoing[c], now')
    <3>1. LiveAt(disk.queue[c], now) = LiveAt(outgoing[c], now)
      BY <2>1 DEF SavedWhenClean
    <3>2. disk.queue[c] \in SUBSET Packet /\ outgoing[c] \in SUBSET Packet
      BY <2>1 DEF TypeOK
    <3>3. now \in Nat /\ later \in Nat /\ now <= later
      BY <2>1, BoundsAssumption DEF TypeOK
    <3>4. LiveAt(disk.queue[c], later) = LiveAt(outgoing[c], later)
      BY <3>1, <3>2, <3>3, LiveLater
    <3>5. outgoing'[c] = LiveAt(disk.queue[c], later) /\ now' = later
      BY <2>2 DEF Load
    <3>. QED BY <3>4, <3>5
  <2>. QED BY <2>3, <2>4
<1>. QED BY <1>1, DurableInvariant, PTL DEF Spec, QuietRestartKeepsAll

\* Nothing but discarding the session, or a crash that loses the unsaved
\* subscription, lowers or removes the inbox of a mailbox (ensureMailbox,
\* addSubscriptions, removeSubscriptions, load).
THEOREM InboxKept == Spec => InboxNeverDowngraded
<1>. DEFINE Kept(t) ==
       LET c == Owner[t]
       IN  HoldsSubscription(c, t) =>
             \/ subs'[c][t] = "qos1"
             \/ c \notin sessions'
             \/ epoch' # epoch /\ disk.subs[c][t] # "qos1"
<1>1. DurableInv /\ [Next]_vars => \A t \in Topics : Owner[t] # NoClient => Kept(t)
  <2>. SUFFICES ASSUME DurableInv, [Next]_vars, NEW t \in Topics, Owner[t] # NoClient,
                       HoldsSubscription(Owner[t], t)
                PROVE  \/ subs'[Owner[t]][t] = "qos1"
                       \/ Owner[t] \notin sessions'
                       \/ epoch' # epoch /\ disk.subs[Owner[t]][t] # "qos1"
    OBVIOUS
  <2>. DEFINE me == Owner[t]
  <2>1. TypeOK /\ Covered
    BY DEF DurableInv
  <2>2. me \in Clients /\ subs[me][t] = "qos1"
    BY TopicsAssumption DEF HoldsSubscription
  <2>3. subs \in [Clients -> [Topics -> QoS]]
    BY <2>1 DEF TypeOK
  <2>4. CASE epoch' # epoch
    <3>1. PICK later \in now .. MaxNow, d \in {disk, Snapshot} : Load(d, later)
      BY <2>4, RestartLoads
    <3>2. subs' = d.subs
      BY <3>1 DEF Load
    <3>3. Snapshot.subs[me] = subs[me]
      BY <2>1, <2>2, SnapshotIsMemory
    <3>. QED BY <2>2, <2>4, <3>2, <3>3
  <2>5. ASSUME NEW u \in AgentInbox, EnsureMailbox(u)
        PROVE  subs'[me][t] = "qos1"
    <3>1. Owner[u] \in Clients /\ u \in Topics
      BY TopicsAssumption
    <3>2. subs' = [subs EXCEPT ![Owner[u]][u] = "qos1"]
      BY <2>5 DEF EnsureMailbox
    <3>. QED BY <2>2, <2>3, <3>1, <3>2
  <2>6. ASSUME NEW c \in Clients, NEW ts \in SUBSET Topics,
               NEW qos \in {"qos0", "qos1"}, AddSubscriptions(c, ts, qos)
        PROVE  subs'[me][t] = "qos1"
    BY <2>2, <2>3, <2>6 DEF AddSubscriptions, StoredQoS
  <2>7. ASSUME NEW c \in Clients, NEW ts \in SUBSET Topics, RemoveSubscriptions(c, ts)
        PROVE  subs'[me][t] = "qos1"
    BY <2>2, <2>3, <2>7 DEF RemoveSubscriptions, Removable
  <2>8. ASSUME NEW c \in Clients, CleanSubscriptions(c)
        PROVE  subs'[me][t] = "qos1" \/ me \notin sessions'
    BY <2>2, <2>3, <2>8 DEF CleanSubscriptions
  <2>9. CASE UNCHANGED subs
    BY <2>2, <2>9
  <2>10. CASE \E d \in {disk, Snapshot}, later \in now .. MaxNow : Load(d, later)
    <3>1. epoch' # epoch
      BY <2>1, <2>10 DEF Load, TypeOK
    <3>. QED BY <2>4, <3>1
  <2>11. CASE \E later \in now .. MaxNow :
                CrashRestart(later) \/ \E ok \in BOOLEAN : StopRestart(later, ok)
    BY <2>10, <2>11 DEF CrashRestart, StopRestart
  <2>. QED
    BY <2>5, <2>6, <2>7, <2>8, <2>9, <2>11
    DEF Next, vars, memory, OutgoingEnqueueCombi, OutgoingUpdate, OutgoingClearMessageId,
        OutgoingStream, FlushTimer, Tick
<1>. QED BY <1>1, DurableInvariant, PTL DEF Spec, InboxNeverDowngraded
-----------------------------------------------------------------------------
(***************************************************************************)
(* What a queue holds.                                                     *)
(***************************************************************************)

\* A queue at time t: its packets were stamped one after the other, all of
\* them before t, and there are no more of them than the cap allows.
Queue(q, t) ==
  /\ IsFiniteSet(q)
  /\ \A p, r \in q : p.at = r.at => p = r
  /\ \A p \in q : p.at < t
  /\ Cap > 0 => Cardinality(q) <= Cap

Queues == \A c \in Clients : Queue(outgoing[c], now) /\ Queue(disk.queue[c], now)

\* A queue without packets is one.
LEMMA EmptyQueue == \A t : Queue({}, t)
BY FS_EmptySet, BoundsAssumption DEF Queue

\* So is a part of a queue, later.
LEMMA PartOfQueue ==
  ASSUME NEW t \in Nat, NEW later \in Nat, t <= later,
         NEW q \in SUBSET Packet, Queue(q, t), NEW part \in SUBSET q
  PROVE  Queue(part, later)
<1>1. IsFiniteSet(part) /\ Cardinality(part) <= Cardinality(q)
  BY FS_Subset DEF Queue
<1>2. Cardinality(q) \in Nat /\ Cardinality(part) \in Nat
  BY <1>1, FS_CardinalityType DEF Queue
<1>3. Cap > 0 => Cardinality(part) <= Cap
  BY <1>1, <1>2, BoundsAssumption DEF Queue
<1>4. \A p \in part : p.at < later
  BY DEF Queue, Packet
<1>. QED BY <1>1, <1>3, <1>4 DEF Queue

\* DropOldest takes n packets at least: what it leaves has n or more packets
\* that are older, and that number tells the packets of a queue apart.
LEMMA DropsEnough ==
  ASSUME NEW q \in SUBSET Packet, IsFiniteSet(q), \A p, r \in q : p.at = r.at => p = r,
         NEW n \in Nat, n <= Cardinality(q)
  PROVE  /\ IsFiniteSet(DropOldest(q, n))
         /\ Cardinality(DropOldest(q, n)) <= Cardinality(q) - n
<1>. DEFINE older(p) == {r \in q : r.at < p.at}
            rest == DropOldest(q, n)
            m == Cardinality(q)
            places == n .. (m - 1)
            place == [p \in rest |-> Cardinality(older(p))]
<1>1. \A p \in q : p.at \in Nat
  BY DEF Packet
<1>2. m \in Nat
  BY FS_CardinalityType
<1>3. \A p \in q : /\ IsFiniteSet(older(p)) /\ Cardinality(older(p)) \in Nat
                   /\ Cardinality(older(p)) < m
  <2>. SUFFICES ASSUME NEW p \in q
                PROVE  /\ IsFiniteSet(older(p)) /\ Cardinality(older(p)) \in Nat
                       /\ Cardinality(older(p)) < m
    OBVIOUS
  <2>1. older(p) \in SUBSET q /\ older(p) # q
    BY <1>1
  <2>2. IsFiniteSet(older(p)) /\ Cardinality(older(p)) <= m /\ Cardinality(older(p)) # m
    BY <2>1, FS_Subset
  <2>3. Cardinality(older(p)) \in Nat
    BY <2>2, FS_CardinalityType
  <2>. HIDE DEF older, m
  <2>. QED BY <2>2, <2>3, <1>2
<1>4. \A p, r \in q : p.at < r.at => Cardinality(older(p)) # Cardinality(older(r))
  <2>. SUFFICES ASSUME NEW p \in q, NEW r \in q, p.at < r.at
                PROVE  Cardinality(older(p)) # Cardinality(older(r))
    OBVIOUS
  <2>1. older(p) \in SUBSET older(r)
    BY <1>1
  <2>2. p \in older(r) /\ p \notin older(p)
    BY <1>1
  <2>3. IsFiniteSet(older(r))
    BY <1>3
  <2>. HIDE DEF older
  <2>. QED BY <2>1, <2>2, <2>3, FS_Subset
<1>5. rest \in SUBSET q
  BY DropIsPart
<1>6. \A p \in rest : Cardinality(older(p)) >= n
  BY DEF DropOldest
<1>7. place \in [rest -> places]
  <2>. SUFFICES ASSUME NEW p \in rest PROVE Cardinality(older(p)) \in places
    OBVIOUS
  <2>1. Cardinality(older(p)) \in Nat /\ Cardinality(older(p)) < m /\ Cardinality(older(p)) >= n
    BY <1>3, <1>5, <1>6
  <2>. HIDE DEF older, m
  <2>. QED BY <2>1, <1>2
<1>8. \A p, r \in rest : place[p] = place[r] => p = r
  <2>. SUFFICES ASSUME NEW p \in rest, NEW r \in rest, p # r
                PROVE  Cardinality(older(p)) # Cardinality(older(r))
    OBVIOUS
  <2>1. p \in q /\ r \in q /\ p.at # r.at
    BY <1>5
  <2>2. p.at < r.at \/ r.at < p.at
    BY <1>1, <2>1
  <2>. HIDE DEF older
  <2>. QED BY <1>4, <2>1, <2>2
<1>9. place \in Injection(rest, places)
  BY <1>7, <1>8 DEF Injection, IsInjective
<1>10. IsFiniteSet(places) /\ Cardinality(places) = m - n
  <2>. HIDE DEF m
  <2>1. n \in Int /\ m - 1 \in Int
    BY <1>2
  <2>2. IsFiniteSet(places) /\ Cardinality(places) = IF n > m - 1 THEN 0 ELSE (m - 1) - n + 1
    BY <2>1, FS_Interval
  <2>3. n <= m
    BY DEF m
  <2>. QED BY <2>2, <2>3, <1>2
<1>. HIDE DEF places, place, rest, m, older
<1>11. IsFiniteSet(rest) /\ Cardinality(rest) <= Cardinality(places)
  BY <1>9, <1>10, FS_Injection
<1>. QED BY <1>10, <1>11 DEF rest, m

\* A publish makes room, and its packet is the youngest.
LEMMA EnqueuedQueue ==
  ASSUME TypeOK, NEW q \in SUBSET Packet, Queue(q, now)
  PROVE  Queue(Enqueued(q), now + 1)
<1>. DEFINE fresh == LiveAt(q, now)
            n == Cardinality(fresh)
            over == n - Cap + 1
            kept == IF Cap > 0 /\ over > 0 THEN DropOldest(fresh, over) ELSE fresh
<1>1. now \in Nat /\ Cap \in Nat
  BY BoundsAssumption DEF TypeOK
<1>2. fresh \in SUBSET q /\ fresh \in SUBSET Packet
  BY LiveIsPart
<1>3. Queue(fresh, now)
  BY <1>1, <1>2, PartOfQueue
<1>4. IsFiniteSet(fresh) /\ n \in Nat /\ (Cap > 0 => n <= Cap)
  BY <1>3, FS_CardinalityType DEF Queue
<1>. HIDE DEF fresh, n
<1>5. kept \in SUBSET fresh
  BY DropIsPart
<1>6. IsFiniteSet(kept) /\ (Cap > 0 => Cardinality(kept) <= Cap - 1)
  <2>1. CASE Cap > 0 /\ over > 0
    <3>1. over \in Nat /\ over <= n
      BY <1>1, <1>4, <2>1
    <3>2. \A p, r \in fresh : p.at = r.at => p = r
      BY <1>3 DEF Queue
    <3>3. IsFiniteSet(DropOldest(fresh, over)) /\ Cardinality(DropOldest(fresh, over)) <= n - over
      BY <1>2, <1>4, <3>1, <3>2, DropsEnough DEF n
    <3>4. n - over = Cap - 1
      BY <1>1, <1>4
    <3>. QED BY <2>1, <3>3, <3>4
  <2>2. CASE ~(Cap > 0 /\ over > 0)
    <3>1. kept = fresh
      BY <2>2
    <3>2. Cap > 0 => n <= Cap - 1
      BY <1>1, <1>4, <2>2
    <3>. QED BY <1>4, <3>1, <3>2 DEF n
  <2>. QED BY <2>1, <2>2
<1>7. Enqueued(q) = kept \cup {NewPacket}
  BY DEF Enqueued, fresh, n
<1>8. Queue(kept, now)
  BY <1>1, <1>2, <1>3, <1>5, PartOfQueue
<1>9. NewPacket.at = now /\ NewPacket \notin kept
  <2>1. \A p \in kept : p.at < now /\ p \in Packet
    BY <1>2, <1>5, <1>8 DEF Queue
  <2>2. NewPacket.at = now
    BY DEF NewPacket
  <2>. QED BY <1>1, <2>1, <2>2
<1>. HIDE DEF kept
<1>10. /\ IsFiniteSet(kept \cup {NewPacket})
       /\ Cardinality(kept \cup {NewPacket}) = Cardinality(kept) + 1
       /\ Cardinality(kept) \in Nat
  BY <1>6, <1>9, FS_AddElement, FS_CardinalityType
<1>11. Cap > 0 => Cardinality(kept \cup {NewPacket}) <= Cap
  BY <1>1, <1>6, <1>10
<1>12. \A p \in kept : p.at \in Nat /\ p.at < now
  BY <1>2, <1>5, <1>8 DEF Queue, Packet
<1>13. \A p \in kept \cup {NewPacket} : p.at < now + 1
  BY <1>1, <1>9, <1>12
<1>14. \A p, r \in kept \cup {NewPacket} : p.at = r.at => p = r
  BY <1>1, <1>8, <1>9, <1>12 DEF Queue
<1>. QED BY <1>7, <1>10, <1>11, <1>13, <1>14 DEF Queue

\* A packet that takes the place and the age of another leaves a queue.
LEMMA ReplacedQueue ==
  ASSUME NEW t \in Nat, NEW q \in SUBSET Packet, Queue(q, t),
         NEW old \in q, NEW new, new.at = old.at
  PROVE  Queue((q \ {old}) \cup {new}, t)
<1>. DEFINE rest == q \ {old}
<1>1. IsFiniteSet(q) /\ Cardinality(q) \in Nat
  BY FS_CardinalityType DEF Queue
<1>2. IsFiniteSet(rest) /\ Cardinality(rest) = Cardinality(q) - 1
  BY <1>1, FS_RemoveElement
<1>3. \A p \in rest : p.at < t /\ p.at # new.at
  BY DEF Queue
<1>4. new \notin rest
  BY <1>3
<1>5. new.at < t
  BY DEF Queue
<1>6. \A p, r \in rest : p.at = r.at => p = r
  BY DEF Queue
<1>. HIDE DEF rest
<1>7. IsFiniteSet(rest \cup {new}) /\ Cardinality(rest \cup {new}) = Cardinality(q)
  <2>1. IsFiniteSet(rest)
    BY <1>2
  <2>2. /\ IsFiniteSet(rest \cup {new})
        /\ Cardinality(rest \cup {new}) = Cardinality(rest) + 1
    BY <1>4, <2>1, FS_AddElement
  <2>. QED BY <1>1, <1>2, <2>2
<1>8. \A p, r \in rest \cup {new} : p.at = r.at => p = r
  BY <1>3, <1>6
<1>9. \A p \in rest \cup {new} : p.at < t
  BY <1>3, <1>5
<1>10. Cap > 0 => Cardinality(rest \cup {new}) <= Cap
  BY <1>7 DEF Queue
<1>11. Queue(rest \cup {new}, t)
  BY <1>7, <1>8, <1>9, <1>10 DEF Queue
<1>. QED BY <1>11 DEF rest

\* A restart loads queues.
LEMMA LoadQueues ==
  ASSUME TypeOK, NEW d \in [subs: [Clients -> Held], queue: [Clients -> SUBSET Packet]],
         \A c \in Clients : Queue(d.queue[c], now),
         NEW later \in now .. MaxNow, Load(d, later)
  PROVE  Queues'
<1>1. now \in Nat /\ later \in Nat /\ now <= later
  BY BoundsAssumption DEF TypeOK
<1>2. ASSUME NEW c \in Clients
      PROVE  Queue(LiveAt(d.queue[c], later), later) /\ Queue(d.queue[c], later)
  <2>1. d.queue[c] \in SUBSET Packet /\ LiveAt(d.queue[c], later) \in SUBSET d.queue[c]
    BY LiveIsPart
  <2>. QED BY <1>1, <2>1, PartOfQueue
<1>3. ASSUME NEW c \in Clients
      PROVE  outgoing'[c] = LiveAt(d.queue[c], later) /\ disk'.queue[c] = d.queue[c] /\ now' = later
  BY DEF Load
<1>4. ASSUME NEW c \in Clients PROVE Queue(outgoing'[c], now') /\ Queue(disk'.queue[c], now')
  BY <1>2, <1>3
<1>. QED BY <1>4 DEF Queues, Queue

\* Every queue of a snapshot is one in memory, or empty.
LEMMA SnapshotQueues ==
  ASSUME TypeOK, Queues
  PROVE  \A c \in Clients : Queue(Snapshot.queue[c], now)
<1>1. ASSUME NEW c \in Clients
      PROVE  Snapshot.queue[c] = outgoing[c] \/ Snapshot.queue[c] = {}
  BY DEF Snapshot
<1>. QED BY <1>1, EmptyQueue DEF Queues

\* Every step keeps the queues of memory and disk.
LEMMA QueuesInvariant == Spec => [](TypeOK /\ Queues)
<1>1. Init => Queues
  <2>. SUFFICES ASSUME Init, NEW c \in Clients
                PROVE  Queue(outgoing[c], now) /\ Queue(disk.queue[c], now)
    BY DEF Queues
  <2>1. outgoing[c] = {} /\ disk.queue[c] = {}
    BY DEF Init, EmptyDisk
  <2>. QED BY <2>1, EmptyQueue
<1>2. TypeOK /\ Queues /\ [Next]_vars => Queues'
  <2>. SUFFICES ASSUME TypeOK, Queues, [Next]_vars PROVE Queues'
    OBVIOUS
  <2>t. now \in Nat /\ \A c \in Clients : outgoing[c] \in SUBSET Packet /\ disk.queue[c] \in SUBSET Packet
    BY DEF TypeOK
  <2>q. \A c \in Clients : Queue(outgoing[c], now) /\ Queue(disk.queue[c], now)
    BY DEF Queues
  \* What most steps do: memory and disk keep their queues, or one changes.
  <2>s. ASSUME now' = now, UNCHANGED disk,
               \A c \in Clients : outgoing'[c] = outgoing[c] \/ Queue(outgoing'[c], now)
        PROVE  Queues'
    <3>1. ASSUME NEW c \in Clients
          PROVE  Queue(outgoing'[c], now') /\ Queue(disk'.queue[c], now')
      BY <2>s, <2>q
    <3>. QED BY <3>1 DEF Queues, Queue
  <2>1. ASSUME NEW t \in AgentInbox, EnsureMailbox(t) PROVE Queues'
    BY <2>1, <2>s DEF EnsureMailbox, ScheduleFlush, clock
  <2>2. ASSUME NEW c \in Clients, NEW ts \in SUBSET Topics,
               NEW qos \in {"qos0", "qos1"}, AddSubscriptions(c, ts, qos)
        PROVE  Queues'
    BY <2>2, <2>s DEF AddSubscriptions, ScheduleFlush, clock
  <2>3. ASSUME NEW c \in Clients, NEW ts \in SUBSET Topics, RemoveSubscriptions(c, ts)
        PROVE  Queues'
    BY <2>3, <2>s DEF RemoveSubscriptions, ScheduleFlush, clock
  <2>4. ASSUME NEW c \in Clients, CleanSubscriptions(c) PROVE Queues'
    <3>1. \A e \in Clients : outgoing'[e] = outgoing[e] \/ outgoing'[e] = {}
      BY <2>4 DEF CleanSubscriptions, TypeOK
    <3>2. \A e \in Clients : outgoing'[e] = outgoing[e] \/ Queue(outgoing'[e], now)
      BY <3>1, EmptyQueue
    <3>. QED BY <2>4, <3>2, <2>s DEF CleanSubscriptions, ScheduleFlush, clock
  <2>5. ASSUME NEW t \in Topics, OutgoingEnqueueCombi(Subscribers(t)) PROVE Queues'
    <3>1. now' = now + 1 /\ disk' = disk
      BY <2>5 DEF OutgoingEnqueueCombi, ScheduleFlush
    <3>2. ASSUME NEW c \in Clients
          PROVE  Queue(outgoing'[c], now + 1) /\ Queue(disk.queue[c], now + 1)
      <4>1. outgoing'[c] = Enqueued(outgoing[c]) \/ outgoing'[c] = outgoing[c]
        BY <2>5 DEF OutgoingEnqueueCombi
      <4>2. now + 1 \in Nat /\ now <= now + 1
        BY <2>t
      <4>3. Queue(outgoing[c], now + 1) /\ Queue(disk.queue[c], now + 1)
        BY <2>t, <2>q, <4>2, PartOfQueue
      <4>4. Queue(Enqueued(outgoing[c]), now + 1)
        BY <2>t, <2>q, EnqueuedQueue
      <4>. QED BY <4>1, <4>3, <4>4
    <3>3. ASSUME NEW c \in Clients PROVE Queue(outgoing'[c], now') /\ Queue(disk'.queue[c], now')
      BY <3>1, <3>2
    <3>. QED BY <3>3 DEF Queues, Queue
  <2>6. ASSUME NEW c \in Clients, NEW b \in 0 .. epoch, NEW n \in 0 .. now,
               NEW mid \in MessageIds, OutgoingUpdate(c, b, n, mid)
        PROVE  Queues'
    <3>. DEFINE matches == Matches(c, b, n, mid)
                old     == First(matches)
                new     == IF old.broker = b THEN [old EXCEPT !.mid = mid]
                                             ELSE Replacement(old, b, n, mid)
    <3>0. now' = now
      BY <2>6 DEF OutgoingUpdate, clock
    <3>1. CASE matches = {}
      BY <2>6, <3>0, <3>1, <2>s DEF OutgoingUpdate, saving
    <3>2. CASE matches # {}
      <4>1. matches \in SUBSET outgoing[c] /\ matches \in SUBSET Packet
        BY <2>t DEF Matches
      <4>2. old \in outgoing[c] /\ old \in Packet
        BY <3>2, <4>1, HeadExists
      <4>3. new.at = old.at
        BY <4>2 DEF Replacement, Packet
      <4>. HIDE DEF matches, old, new
      <4>4. outgoing' = [outgoing EXCEPT ![c] = (outgoing[c] \ {old}) \cup {new}] /\ disk' = disk
        BY <2>6, <3>2 DEF OutgoingUpdate, ScheduleFlush, matches, old, new
      <4>5. Queue((outgoing[c] \ {old}) \cup {new}, now)
        BY <2>t, <2>q, <4>2, <4>3, ReplacedQueue
      <4>6. \A e \in Clients : outgoing'[e] = outgoing[e] \/ Queue(outgoing'[e], now)
        BY <4>4, <4>5 DEF TypeOK
      <4>. QED BY <3>0, <4>4, <4>6, <2>s
    <3>. QED BY <3>1, <3>2
  <2>7. ASSUME NEW c \in Clients, NEW mid \in MessageIds, OutgoingClearMessageId(c, mid)
        PROVE  Queues'
    <3>1. \A e \in Clients : outgoing'[e] \in SUBSET outgoing[e]
      BY <2>7 DEF OutgoingClearMessageId, TypeOK
    <3>2. ASSUME NEW e \in Clients PROVE Queue(outgoing'[e], now)
      <4>1. now <= now /\ Queue(outgoing[e], now) /\ outgoing[e] \in SUBSET Packet
        BY <2>t, <2>q
      <4>. QED BY <2>t, <3>1, <4>1, PartOfQueue
    <3>. QED BY <2>7, <3>2, <2>s DEF OutgoingClearMessageId, ScheduleFlush, clock, saving
  <2>8. ASSUME NEW c \in Clients, OutgoingStream(c) PROVE Queues'
    <3>1. \A e \in Clients : outgoing'[e] \in SUBSET outgoing[e]
      BY <2>8, LiveIsPart DEF OutgoingStream, TypeOK
    <3>2. ASSUME NEW e \in Clients PROVE Queue(outgoing'[e], now)
      <4>1. now <= now /\ Queue(outgoing[e], now) /\ outgoing[e] \in SUBSET Packet
        BY <2>t, <2>q
      <4>. QED BY <2>t, <3>1, <4>1, PartOfQueue
    <3>. QED BY <2>8, <3>2, <2>s DEF OutgoingStream, clock, saving
  <2>9. ASSUME NEW ok \in BOOLEAN, FlushTimer(ok) PROVE Queues'
    <3>1. outgoing' = outgoing /\ now' = now /\ (disk' = disk \/ disk' = Snapshot)
      BY <2>9 DEF FlushTimer, Flush, memory, clock
    <3>2. ASSUME NEW c \in Clients PROVE Queue(outgoing'[c], now') /\ Queue(disk'.queue[c], now')
      BY <3>1, <2>q, SnapshotQueues
    <3>. QED BY <3>2 DEF Queues, Queue
  <2>d. disk \in [subs: [Clients -> Held], queue: [Clients -> SUBSET Packet]]
    BY DEF TypeOK
  <2>10. ASSUME NEW later \in now .. MaxNow, CrashRestart(later) PROVE Queues'
    BY <2>10, <2>d, <2>q, LoadQueues DEF CrashRestart
  <2>11. ASSUME NEW later \in now .. MaxNow, NEW ok \in BOOLEAN, StopRestart(later, ok)
         PROVE  Queues'
    <3>1. CASE dirty /\ ok
      <4>1. Load(Snapshot, later)
        BY <2>11, <3>1 DEF StopRestart
      <4>. QED BY <4>1, SnapshotType, SnapshotQueues, LoadQueues
    <3>2. CASE ~(dirty /\ ok)
      <4>1. Load(disk, later)
        BY <2>11, <3>2 DEF StopRestart
      <4>. QED BY <4>1, <2>d, <2>q, LoadQueues
    <3>. QED BY <3>1, <3>2
  <2>12. CASE Tick
    <3>1. outgoing' = outgoing /\ disk' = disk /\ now' = now + 1
      BY <2>12 DEF Tick, memory, saving
    <3>2. now + 1 \in Nat /\ now <= now + 1
      BY <2>t
    <3>3. ASSUME NEW c \in Clients PROVE Queue(outgoing'[c], now') /\ Queue(disk'.queue[c], now')
      BY <3>1, <3>2, <2>t, <2>q, PartOfQueue
    <3>. QED BY <3>3 DEF Queues, Queue
  <2>13. CASE UNCHANGED vars
    BY <2>13, <2>s DEF vars, memory, saving, clock
  <2>. QED
    BY <2>1, <2>2, <2>3, <2>4, <2>5, <2>6, <2>7, <2>8, <2>9, <2>10, <2>11, <2>12, <2>13
    DEF Next
<1>. QED BY <1>1, <1>2, Typing, PTL DEF Spec

\* No mailbox is ever over its cap, in memory or on disk (_enqueueOne).
THEOREM WithinCap == Spec => []CapRespected
<1>1. TypeOK /\ Queues => CapRespected
  BY DEF Queues, Queue, CapRespected
<1>. QED BY <1>1, QueuesInvariant, PTL

\* A publish takes from a queue only what is older than what it leaves.
LEMMA OldestLeave ==
  ASSUME TypeOK, NEW q \in SUBSET Packet, Queue(q, now),
         NEW p \in q \ Enqueued(q), NEW r \in q \cap Enqueued(q)
  PROVE  p.at < r.at
<1>. DEFINE fresh == LiveAt(q, now)
            n == Cardinality(fresh) - Cap + 1
            older(x) == {y \in fresh : y.at < x.at}
<1>1. p \in Packet /\ r \in Packet /\ p.at \in Nat /\ r.at \in Nat
  BY DEF Packet
<1>2. r # NewPacket
  <2>1. r.at < now
    BY DEF Queue
  <2>. QED BY <2>1, <1>1 DEF NewPacket
<1>3. r \in fresh /\ fresh \in SUBSET q /\ IsFiniteSet(fresh)
  <2>1. fresh \in SUBSET q
    BY LiveIsPart
  <2>2. r \in fresh
    BY <1>2, DropIsPart DEF Enqueued
  <2>. QED BY <2>1, <2>2, FS_Subset DEF Queue
<1>4. CASE p \notin fresh
  <2>1. TTL # 0 /\ ~(p.at >= now - TTL) /\ r.at >= now - TTL
    BY <1>3, <1>4 DEF LiveAt
  <2>2. now \in Nat /\ TTL \in Nat
    BY BoundsAssumption DEF TypeOK
  <2>. QED BY <1>1, <2>1, <2>2
<1>5. CASE p \in fresh
  <2>1. /\ Cap > 0 /\ n > 0 /\ r \in DropOldest(fresh, n) /\ p \notin DropOldest(fresh, n)
    BY <1>2, <1>5 DEF Enqueued
  <2>2. Cardinality(older(r)) >= n /\ ~(Cardinality(older(p)) >= n)
    BY <1>3, <1>5, <2>1 DEF DropOldest
  <2>3. SUFFICES ASSUME r.at <= p.at PROVE FALSE
    BY <1>1
  <2>4. older(r) \in SUBSET older(p) /\ older(p) \in SUBSET fresh
    BY <1>1, <1>3, <2>3 DEF Packet
  <2>5. IsFiniteSet(older(p)) /\ IsFiniteSet(older(r))
    BY <1>3, <2>4, FS_Subset
  <2>6. Cardinality(older(r)) <= Cardinality(older(p))
    BY <2>4, <2>5, FS_Subset
  <2>7. Cardinality(older(p)) \in Nat /\ Cardinality(older(r)) \in Nat
    BY <2>5, FS_CardinalityType
  <2>8. n \in Int
    BY <1>3, FS_CardinalityType, BoundsAssumption
  <2>. HIDE DEF older, n
  <2>. QED BY <2>2, <2>6, <2>7, <2>8
<1>. QED BY <1>4, <1>5

\* The cap and the TTL both take from the head of a queue.
THEOREM OldestFirst == Spec => OldestGoFirst
<1>1. TypeOK /\ Queues /\ [Next]_vars =>
        [\A c \in Clients :
           (\E p \in outgoing'[c] : p.counter = now /\ now' = now + 1 /\ epoch' = epoch) =>
             \A p \in outgoing[c] \ outgoing'[c], r \in outgoing[c] \cap outgoing'[c] :
               p.at < r.at]_vars
  <2>. SUFFICES ASSUME TypeOK, Queues, Next, now' = now + 1, epoch' = epoch, NEW c \in Clients,
                       NEW p \in outgoing[c] \ outgoing'[c], NEW r \in outgoing[c] \cap outgoing'[c]
                PROVE  p.at < r.at
    OBVIOUS
  <2>0. now \in Nat /\ epoch \in Nat /\ now' # now /\ epoch' # epoch + 1
    BY DEF TypeOK
  <2>1. (\E t \in Topics : OutgoingEnqueueCombi(Subscribers(t))) \/ Tick
    BY <2>0 DEF Next, EnsureMailbox, AddSubscriptions, RemoveSubscriptions, CleanSubscriptions,
                OutgoingUpdate, OutgoingClearMessageId, OutgoingStream, FlushTimer, CrashRestart,
                StopRestart, Load, clock
  <2>2. outgoing'[c] # outgoing[c]
    OBVIOUS
  <2>3. outgoing'[c] = Enqueued(outgoing[c])
    BY <2>1, <2>2 DEF OutgoingEnqueueCombi, Tick, memory
  <2>4. outgoing[c] \in SUBSET Packet /\ Queue(outgoing[c], now)
    BY DEF TypeOK, Queues
  <2>. QED BY <2>3, <2>4, OldestLeave
<1>. QED BY <1>1, QueuesInvariant, PTL DEF Spec, OldestGoFirst

-----------------------------------------------------------------------------
(***************************************************************************)
(* The broker over the store: types.                                       *)
(***************************************************************************)

\* Every mailbox has an inbox, and it is the only topic the mailbox owns.
LEMMA InboxOwned ==
  ASSUME NEW c \in Clients
  PROVE  Inbox(c) \in Topics /\ \A t \in Topics : Owner[t] = c <=> t = Inbox(c)
BY OneInboxAssumption DEF Inbox

\* Of what waits to be delivered there is an oldest.
LEMMA OldestExists ==
  ASSUME NEW S \in SUBSET Nat, S # {}
  PROVE  Oldest(S) \in S
<1>1. \E n \in S : \A m \in S : n <= m
  BY LeastNatural
<1>. QED BY <1>1 DEF Oldest

\* What the connections, the broker's messages and its memory of them are.
ConnectionTypeOK ==
  /\ conn \in [Clients -> {"off", "clean", "opening", "open"}]
  /\ liveSub \in [Clients -> BOOLEAN] /\ gapless \in [Clients -> BOOLEAN]
  /\ live \in [Clients -> SUBSET Nat] /\ replay \in [Clients -> SUBSET Nat]
  /\ inflight \in [Clients -> SUBSET [mid: MessageIds, counter: Nat]]
  /\ retained \in [Clients -> {"absent", "free", "connected"}]
  /\ clearing \subseteq Clients
  /\ authorized \subseteq Topics
  /\ received \in [Clients -> SUBSET Nat]

\* Nothing that the broker holds comes from the future: neither the run nor
\* the moment of a packet's publish.
Stamped ==
  \A c \in Clients : \A p \in outgoing[c] \cup disk.queue[c] : p.broker <= epoch /\ p.counter < now
OnTime ==
  \A c \in Clients : /\ \A n \in live[c] \cup replay[c] : n < now
                     /\ \A r \in inflight[c] : r.counter < now
Past == Stamped /\ OnTime /\ now <= MaxNow

\* The broker starts with them.
LEMMA BrokerInitType == BrokerInit => TypeOK /\ ConnectionTypeOK /\ Past
<1>. SUFFICES ASSUME BrokerInit PROVE TypeOK /\ ConnectionTypeOK /\ Past
  OBVIOUS
<1>1. TypeOK
  BY InitType DEF BrokerInit
<1>2. ConnectionTypeOK
  BY DEF BrokerInit, ConnectionTypeOK
<1>3. /\ now = 0 /\ \A c \in Clients : outgoing[c] = {} /\ disk.queue[c] = {}
      /\ \A c \in Clients : live[c] = {} /\ replay[c] = {} /\ inflight[c] = {}
  BY DEF BrokerInit, Init, EmptyDisk
<1>. QED BY <1>1, <1>2, <1>3, BoundsAssumption DEF Past, Stamped, OnTime

\* Whatever the broker does to the store is an operation of the store
\* (every call that startBroker and aedes make of MailboxPersistence).
LEMMA StoreStep ==
  ASSUME TypeOK, ConnectionTypeOK, Past, [BrokerNext]_brokerVars
  PROVE  [Next]_vars
<1>. USE DEF store, vars
<1>0. now \in Nat /\ epoch \in Nat /\ now \in now .. MaxNow
  BY BoundsAssumption DEF TypeOK, Past
\* The packet that a delivery is about was published in the past.
<1>w. ASSUME NEW c \in Clients, NEW b \in Nat, NEW n \in Nat, NEW mid \in MessageIds,
             b <= epoch, n < now, Write(c, b, n, mid)
      PROVE  Next
  <2>1. b \in 0 .. epoch /\ n \in 0 .. now
    BY <1>0, <1>w
  <2>. QED BY <1>w, <2>1 DEF Write, Next
<1>1. ASSUME NEW t \in Topics, AuthorizePublish(t) PROVE [Next]_vars
  BY <1>1 DEF AuthorizePublish, Next
<1>2. ASSUME NEW t \in Topics, EnqueuePublish(t) PROVE [Next]_vars
  BY <1>2 DEF EnqueuePublish, Next
<1>3. ASSUME NEW c \in Clients, Subscribe(c) PROVE [Next]_vars
  <2>1. {Inbox(c)} \in SUBSET Topics /\ {Inbox(c)} # {}
    BY InboxOwned
  <2>. QED BY <1>3, <2>1 DEF Subscribe, Next
<1>4. ASSUME NEW c \in Clients, Unsubscribe(c) PROVE [Next]_vars
  <2>1. {Inbox(c)} \in SUBSET Topics
    BY InboxOwned
  <2>. QED BY <1>4, <2>1 DEF Unsubscribe, Next
<1>5. ASSUME NEW c \in Clients, Connect(c) \/ Disconnect(c) \/ ClearSession(c) PROVE [Next]_vars
  BY <1>5 DEF Connect, Disconnect, ClearSession
<1>6. ASSUME NEW c \in Clients, CleanConnect(c) \/ Drop(c, TRUE) \/ Drop(c, FALSE) PROVE [Next]_vars
  BY <1>6 DEF CleanConnect, Drop, Next
<1>7. ASSUME NEW c \in Clients, StartReplay(c) PROVE [Next]_vars
  BY <1>7 DEF StartReplay, Next
<1>8. ASSUME NEW c \in Clients, Replay(c) PROVE [Next]_vars
  <2>. DEFINE n == Oldest(replay[c])
  <2>1. CASE UNCHANGED store
    BY <2>1
  <2>2. CASE \E p \in outgoing[c], mid \in MessageIds : p.counter = n /\ Write(c, p.broker, n, mid)
    <3>1. PICK p \in outgoing[c], mid \in MessageIds : p.counter = n /\ Write(c, p.broker, n, mid)
      BY <2>2
    <3>2. p \in Packet /\ p.broker <= epoch /\ p.counter < now
      BY DEF TypeOK, Past, Stamped
    <3>3. p.broker \in Nat /\ p.counter \in Nat
      BY <3>2 DEF Packet
    <3>. HIDE DEF n
    <3>. QED BY <1>w, <3>1, <3>2, <3>3
  <2>3. \A p \in outgoing[c] : p.mid # NoId => p.mid \in MessageIds
    BY DEF TypeOK, Packet
  <2>4. NextIds(c) \subseteq MessageIds
    BY DEF NextIds
  <2>. QED BY <1>8, <2>1, <2>2, <2>3, <2>4 DEF Replay
<1>9. ASSUME NEW c \in Clients, Deliver(c) PROVE [Next]_vars
  <2>. DEFINE n == Oldest(live[c])
  <2>1. PICK mid \in NextIds(c) : Write(c, epoch, n, mid)
    BY <1>9 DEF Deliver
  <2>2. n \in live[c] /\ live[c] \in SUBSET Nat
    BY <1>9, OldestExists DEF Deliver, ConnectionTypeOK
  <2>3. n \in Nat /\ n < now /\ mid \in MessageIds /\ epoch <= epoch
    BY <1>0, <2>2 DEF Past, OnTime, NextIds
  <2>. HIDE DEF n
  <2>. QED BY <1>0, <1>w, <2>1, <2>3
<1>10. ASSUME NEW c \in Clients, Ack(c) PROVE [Next]_vars
  BY <1>10 DEF Ack, ConnectionTypeOK, Next
<1>11. ASSUME NEW ok \in BOOLEAN, WriteSnapshot(ok) PROVE [Next]_vars
  BY <1>11 DEF WriteSnapshot, Next
<1>12. ASSUME NEW ok \in BOOLEAN, BrokerStop(ok) PROVE [Next]_vars
  BY <1>0, <1>12 DEF BrokerStop, Next
<1>13. CASE BrokerCrash
  BY <1>0, <1>13 DEF BrokerCrash, Next
<1>14. CASE UNCHANGED brokerVars
  BY <1>14 DEF brokerVars
<1>. QED
  BY <1>1, <1>2, <1>3, <1>4, <1>5, <1>6, <1>7, <1>8, <1>9, <1>10, <1>11, <1>12, <1>13, <1>14
  DEF BrokerNext

\* Forgetting what is on its way keeps the types.
LEMMA ForgetType ==
  ASSUME ConnectionTypeOK, NEW c \in Clients, ForgetTransit(c)
  PROVE  /\ live' \in [Clients -> SUBSET Nat] /\ replay' \in [Clients -> SUBSET Nat]
         /\ inflight' \in [Clients -> SUBSET [mid: MessageIds, counter: Nat]]
BY DEF ForgetTransit, ConnectionTypeOK

\* So does the end of a connection.
LEMMA GoneType ==
  ASSUME ConnectionTypeOK, NEW c \in Clients, Gone(c), clearing' \subseteq Clients,
         UNCHANGED <<authorized, received>>
  PROVE  ConnectionTypeOK'
<1>1. /\ conn' \in [Clients -> {"off", "clean", "opening", "open"}]
      /\ liveSub' \in [Clients -> BOOLEAN] /\ gapless' \in [Clients -> BOOLEAN]
      /\ retained' \in [Clients -> {"absent", "free", "connected"}]
  BY DEF Gone, ConnectionTypeOK
<1>2. ForgetTransit(c)
  BY DEF Gone
<1>. QED BY <1>1, <1>2, ForgetType DEF ConnectionTypeOK

\* What the next connection finds, and what a delivery writes.
LEMMA WriteType ==
  ASSUME ConnectionTypeOK, NEW c \in Clients, NEW b, NEW n \in Nat, NEW mid \in MessageIds,
         Write(c, b, n, mid)
  PROVE  inflight' \in [Clients -> SUBSET [mid: MessageIds, counter: Nat]]
BY DEF Write, ConnectionTypeOK

\* Every step of the broker keeps the types of its connections.
LEMMA ConnectionTypeStep ==
  ASSUME TypeOK, ConnectionTypeOK, [BrokerNext]_brokerVars
  PROVE  ConnectionTypeOK'
<1>. USE DEF connection, transit, notices
<1>0. now \in Nat /\ epoch \in Nat
  BY DEF TypeOK
<1>1. ASSUME NEW t \in Topics, AuthorizePublish(t) PROVE ConnectionTypeOK'
  <2>1. Owner[t] \in Clients => SessionState(Owner[t]) \in {"free", "connected"}
    BY DEF SessionState
  <2>2. retained' \in [Clients -> {"absent", "free", "connected"}]
    BY <1>1, <2>1 DEF AuthorizePublish, ConnectionTypeOK
  <2>. QED BY <1>1, <2>2 DEF AuthorizePublish, ConnectionTypeOK
<1>2. ASSUME NEW t \in Topics, EnqueuePublish(t) PROVE ConnectionTypeOK'
  <2>1. live' \in [Clients -> SUBSET Nat]
    BY <1>0, <1>2 DEF EnqueuePublish, ConnectionTypeOK
  <2>. QED BY <1>2, <2>1 DEF EnqueuePublish, ConnectionTypeOK
<1>3. ASSUME NEW c \in Clients, Subscribe(c) PROVE ConnectionTypeOK'
  BY <1>3 DEF Subscribe, ConnectionTypeOK
<1>4. ASSUME NEW c \in Clients, Unsubscribe(c) PROVE ConnectionTypeOK'
  BY <1>4 DEF Unsubscribe, ConnectionTypeOK
<1>5. ASSUME NEW c \in Clients, Connect(c) PROVE ConnectionTypeOK'
  <2>1. HoldsSubscription(c, Inbox(c)) \in BOOLEAN
    BY DEF HoldsSubscription
  <2>2. /\ conn' \in [Clients -> {"off", "clean", "opening", "open"}]
        /\ liveSub' \in [Clients -> BOOLEAN] /\ gapless' \in [Clients -> BOOLEAN]
        /\ retained' \in [Clients -> {"absent", "free", "connected"}]
    BY <1>5, <2>1 DEF Connect, ConnectionTypeOK
  <2>3. ForgetTransit(c) /\ UNCHANGED <<clearing, authorized, received>>
    BY <1>5 DEF Connect
  <2>. QED BY <2>2, <2>3, ForgetType DEF ConnectionTypeOK
<1>6. ASSUME NEW c \in Clients, CleanConnect(c) PROVE ConnectionTypeOK'
  <2>1. /\ conn' \in [Clients -> {"off", "clean", "opening", "open"}]
        /\ liveSub' \in [Clients -> BOOLEAN] /\ gapless' \in [Clients -> BOOLEAN]
        /\ retained' \in [Clients -> {"absent", "free", "connected"}]
    BY <1>6 DEF CleanConnect, ConnectionTypeOK
  <2>2. ForgetTransit(c) /\ UNCHANGED <<clearing, authorized, received>>
    BY <1>6 DEF CleanConnect
  <2>. QED BY <2>1, <2>2, ForgetType DEF ConnectionTypeOK
<1>7. ASSUME NEW c \in Clients, Disconnect(c) PROVE ConnectionTypeOK'
  <2>1. Gone(c) /\ UNCHANGED <<authorized, received>> /\ clearing' \subseteq Clients
    BY <1>7 DEF Disconnect, ConnectionTypeOK
  <2>. QED BY <2>1, GoneType
<1>8. ASSUME NEW c \in Clients, NEW force \in BOOLEAN, Drop(c, force) PROVE ConnectionTypeOK'
  <2>1. clearing' \subseteq Clients /\ UNCHANGED <<authorized, received>>
    BY <1>8 DEF Drop, ConnectionTypeOK
  <2>2. CASE Gone(c)
    BY <2>1, <2>2, GoneType
  <2>3. CASE UNCHANGED <<connection, transit, retained>>
    BY <2>1, <2>3 DEF ConnectionTypeOK
  <2>. QED BY <1>8, <2>2, <2>3 DEF Drop
<1>9. ASSUME NEW c \in Clients, ClearSession(c) PROVE ConnectionTypeOK'
  BY <1>9 DEF ClearSession, ConnectionTypeOK
<1>10. ASSUME NEW c \in Clients, StartReplay(c) PROVE ConnectionTypeOK'
  <2>1. outgoing'[c] \in SUBSET Packet
    BY <1>10, LiveIsPart DEF StartReplay, OutgoingStream, TypeOK
  <2>2. {p.counter : p \in outgoing'[c]} \in SUBSET Nat
    BY <2>1 DEF Packet
  <2>. QED BY <1>10, <2>2 DEF StartReplay, ConnectionTypeOK
<1>11. ASSUME NEW c \in Clients, Replay(c) PROVE ConnectionTypeOK'
  <2>. DEFINE n == Oldest(replay[c])
  <2>1. n \in Nat
    BY <1>11, OldestExists DEF Replay, ConnectionTypeOK
  <2>2. NextIds(c) \subseteq MessageIds /\ \A p \in outgoing[c] : p.mid \in MessageIds \cup {NoId}
    BY DEF NextIds, TypeOK, Packet
  <2>3. inflight' \in [Clients -> SUBSET [mid: MessageIds, counter: Nat]]
    <3>1. CASE UNCHANGED inflight
      BY <3>1 DEF ConnectionTypeOK
    <3>2. CASE \E b, mid : mid \in MessageIds /\ Write(c, b, n, mid)
      BY <2>1, <3>2, WriteType
    <3>. QED BY <1>11, <2>2, <3>1, <3>2 DEF Replay
  <2>4. /\ replay' \in [Clients -> SUBSET Nat]
        /\ UNCHANGED <<conn, liveSub, gapless, live, retained, clearing, authorized, received>>
    BY <1>11 DEF Replay, ConnectionTypeOK
  <2>. QED BY <2>3, <2>4 DEF ConnectionTypeOK
<1>12. ASSUME NEW c \in Clients, Deliver(c) PROVE ConnectionTypeOK'
  <2>. DEFINE n == Oldest(live[c])
  <2>1. n \in Nat
    BY <1>12, OldestExists DEF Deliver, ConnectionTypeOK
  <2>2. \E mid \in MessageIds : Write(c, epoch, n, mid)
    BY <1>12 DEF Deliver, NextIds
  <2>3. inflight' \in [Clients -> SUBSET [mid: MessageIds, counter: Nat]]
    BY <2>1, <2>2, WriteType
  <2>4. /\ live' \in [Clients -> SUBSET Nat]
        /\ UNCHANGED <<conn, liveSub, gapless, replay, retained, clearing, authorized, received>>
    BY <1>12 DEF Deliver, ConnectionTypeOK
  <2>. QED BY <2>3, <2>4 DEF ConnectionTypeOK
<1>13. ASSUME NEW c \in Clients, Ack(c) PROVE ConnectionTypeOK'
  <2>1. \A r \in inflight[c] : r.counter \in Nat
    BY DEF ConnectionTypeOK
  <2>2. /\ received' \in [Clients -> SUBSET Nat]
        /\ inflight' \in [Clients -> SUBSET [mid: MessageIds, counter: Nat]]
    BY <1>13, <2>1 DEF Ack, ConnectionTypeOK
  <2>. QED BY <1>13, <2>2 DEF Ack, ConnectionTypeOK
<1>14. ASSUME NEW ok \in BOOLEAN, WriteSnapshot(ok) PROVE ConnectionTypeOK'
  BY <1>14 DEF WriteSnapshot, ConnectionTypeOK
<1>15. CASE Restarted
  BY <1>15 DEF Restarted, ConnectionTypeOK
<1>16. CASE UNCHANGED brokerVars
  BY <1>16 DEF brokerVars, ConnectionTypeOK
<1>. QED
  BY <1>1, <1>2, <1>3, <1>4, <1>5, <1>6, <1>7, <1>8, <1>9, <1>10, <1>11, <1>12, <1>13, <1>14,
     <1>15, <1>16
  DEF BrokerNext, BrokerCrash, BrokerStop

\* What is from the past stays so as time goes on; only what is new counts.
LEMMA PastKept ==
  ASSUME TypeOK, ConnectionTypeOK, Past, now' \in Nat, epoch' \in Nat,
         now <= now', epoch <= epoch', now' <= MaxNow,
         \A c \in Clients : \A p \in outgoing'[c] \cup disk'.queue[c] :
            p \in outgoing[c] \cup disk.queue[c] \/ (p.broker <= epoch' /\ p.counter < now'),
         \A c \in Clients : \A n \in live'[c] \cup replay'[c] :
            n \in live[c] \cup replay[c] \/ n < now',
         \A c \in Clients : \A r \in inflight'[c] : r \in inflight[c] \/ r.counter < now'
  PROVE  Past'
<1>1. ASSUME NEW c \in Clients, NEW p \in outgoing'[c] \cup disk'.queue[c]
      PROVE  p.broker <= epoch' /\ p.counter < now'
  <2>1. CASE p \in outgoing[c] \cup disk.queue[c]
    <3>1. p \in Packet
      BY <2>1 DEF TypeOK
    <3>2. p.broker \in Nat /\ p.counter \in Nat /\ p.broker <= epoch /\ p.counter < now
      BY <2>1, <3>1 DEF Past, Stamped, Packet
    <3>. QED BY <3>2 DEF TypeOK
  <2>. QED BY <2>1
<1>2. ASSUME NEW c \in Clients, NEW n \in live'[c] \cup replay'[c] PROVE n < now'
  <2>1. CASE n \in live[c] \cup replay[c]
    <3>1. n \in Nat /\ n < now
      BY <2>1 DEF Past, OnTime, ConnectionTypeOK
    <3>. QED BY <3>1 DEF TypeOK
  <2>. QED BY <2>1
<1>3. ASSUME NEW c \in Clients, NEW r \in inflight'[c] PROVE r.counter < now'
  <2>1. CASE r \in inflight[c]
    <3>1. r.counter \in Nat /\ r.counter < now
      BY <2>1 DEF Past, OnTime, ConnectionTypeOK
    <3>. QED BY <3>1 DEF TypeOK
  <2>. QED BY <2>1
<1>. QED BY <1>1, <1>2, <1>3 DEF Past, Stamped, OnTime

\* A packet that a delivery changes keeps its broker and counter, or gets those
\* of the packet in hand.
LEMMA UpdatedPackets ==
  ASSUME TypeOK, NEW c \in Clients, NEW b \in Nat, NEW n \in Nat, NEW mid \in MessageIds,
         OutgoingUpdate(c, b, n, mid),
         NEW e \in Clients, NEW p \in outgoing'[e], p \notin outgoing[e]
  PROVE  \/ p.broker = b /\ p.counter = n
         \/ \E old \in outgoing[e] : p.broker = old.broker /\ p.counter = old.counter
<1>. DEFINE matches == Matches(c, b, n, mid)
            old     == First(matches)
            new     == IF old.broker = b THEN [old EXCEPT !.mid = mid]
                                         ELSE Replacement(old, b, n, mid)
<1>1. matches # {}
  BY DEF OutgoingUpdate
<1>2. outgoing' = [outgoing EXCEPT ![c] = (outgoing[c] \ {old}) \cup {new}]
  BY <1>1 DEF OutgoingUpdate
<1>3. matches \in SUBSET outgoing[c] /\ matches \in SUBSET Packet
  BY DEF Matches, TypeOK
<1>4. old \in outgoing[c] /\ old \in Packet
  BY <1>1, <1>3, HeadExists
<1>5. p = new /\ e = c
  <2>. HIDE DEF new, old
  <2>. QED BY <1>2 DEF TypeOK
<1>6. CASE old.broker = b
  BY <1>4, <1>5, <1>6 DEF Packet
<1>7. CASE old.broker # b
  BY <1>5, <1>7 DEF Replacement
<1>. QED BY <1>6, <1>7

\* A delivery of what was published in the past leaves such packets behind.
LEMMA WritePast ==
  ASSUME TypeOK, ConnectionTypeOK, Past, NEW c \in Clients, NEW b \in Nat, NEW n \in Nat,
         NEW mid \in MessageIds, b <= epoch, n < now, Write(c, b, n, mid),
         \A e \in Clients : live'[e] \cup replay'[e] \subseteq live[e] \cup replay[e]
  PROVE  Past'
<1>1. OutgoingUpdate(c, b, n, mid) /\ now' = now /\ epoch' = epoch /\ disk' = disk
  BY DEF Write, OutgoingUpdate, ScheduleFlush, saving, clock
<1>2. ASSUME NEW e \in Clients, NEW p \in outgoing'[e] \cup disk'.queue[e]
      PROVE  p \in outgoing[e] \cup disk.queue[e] \/ (p.broker <= epoch' /\ p.counter < now')
  <2>1. CASE p \in outgoing'[e] /\ p \notin outgoing[e]
    BY <1>1, <2>1, UpdatedPackets DEF Past, Stamped
  <2>. QED BY <1>1, <2>1
<1>3. ASSUME NEW e \in Clients, NEW r \in inflight'[e] PROVE r \in inflight[e] \/ r.counter < now'
  <2>1. \/ inflight' = inflight
        \/ inflight' = [inflight EXCEPT ![c] = @ \cup {[mid |-> mid, counter |-> n]}]
    BY DEF Write
  <2>. QED BY <1>1, <2>1 DEF ConnectionTypeOK
<1>4. now \in Nat /\ epoch \in Nat /\ now <= MaxNow
  BY DEF TypeOK, Past
<1>5. now' \in Nat /\ epoch' \in Nat /\ now <= now' /\ epoch <= epoch' /\ now' <= MaxNow
  BY <1>1, <1>4
<1>. QED BY <1>2, <1>3, <1>5, PastKept

\* A broker that starts again at the same moment holds what was on disk, or in
\* memory, before.
LEMMA RestartHolds ==
  ASSUME TypeOK, BrokerCrash \/ \E ok \in BOOLEAN : BrokerStop(ok)
  PROVE  /\ \E d \in {disk, Snapshot} : Load(d, now)
         /\ now' = now /\ epoch' = epoch + 1
         /\ \A c \in Clients : /\ outgoing'[c] \subseteq outgoing[c] \cup disk.queue[c]
                               /\ disk'.queue[c] \subseteq outgoing[c] \cup disk.queue[c]
         /\ Restarted
<1>1. PICK d \in {disk, Snapshot} : Load(d, now)
  BY DEF BrokerCrash, BrokerStop, CrashRestart, StopRestart
<1>2. \A c \in Clients : d.queue[c] \subseteq outgoing[c] \cup disk.queue[c]
  BY DEF Snapshot
<1>3. \A c \in Clients : outgoing'[c] \subseteq d.queue[c] /\ disk'.queue[c] = d.queue[c]
  BY <1>1, LiveIsPart DEF Load
<1>4. Restarted
  BY DEF BrokerCrash, BrokerStop
<1>5. now' = now /\ epoch' = epoch + 1
  BY <1>1 DEF Load
<1>. QED BY <1>1, <1>2, <1>3, <1>4, <1>5

\* A step that queues nothing and sends nothing: what is queued, saved and on
\* its way was so before.
Shrinks ==
  /\ now' = now /\ epoch' = epoch
  /\ \A c \in Clients : /\ outgoing'[c] \subseteq outgoing[c]
                        /\ disk'.queue[c] \in {disk.queue[c], Snapshot.queue[c]}
                        /\ live'[c] \subseteq live[c] /\ replay'[c] \subseteq replay[c]
                        /\ inflight'[c] \subseteq inflight[c]

\* Only a publish, the reading of a backlog, a delivery and a restart do more.
LEMMA StepKinds ==
  ASSUME TypeOK, ConnectionTypeOK, [BrokerNext]_brokerVars
  PROVE  \/ \E t \in Topics : EnqueuePublish(t)
         \/ \E c \in Clients : StartReplay(c)
         \/ \E c \in Clients : Replay(c) \/ Deliver(c)
         \/ BrokerCrash \/ \E ok \in BOOLEAN : BrokerStop(ok)
         \/ Shrinks
<1>. USE DEF store, connection, transit, notices, memory, clock, saving
<1>f. ASSUME NEW c \in Clients, ForgetTransit(c), NEW e \in Clients
      PROVE  live'[e] \subseteq live[e] /\ replay'[e] \subseteq replay[e] /\ inflight'[e] \subseteq inflight[e]
  BY <1>f DEF ForgetTransit, ConnectionTypeOK
<1>c. ASSUME NEW c \in Clients, CleanSubscriptions(c)
      PROVE  /\ now' = now /\ epoch' = epoch /\ disk' = disk
             /\ \A e \in Clients : outgoing'[e] \subseteq outgoing[e]
  BY <1>c DEF CleanSubscriptions, ScheduleFlush, TypeOK
<1>1. ASSUME NEW t \in Topics, AuthorizePublish(t) PROVE Shrinks
  BY <1>1 DEF AuthorizePublish, EnsureMailbox, ScheduleFlush, Shrinks
<1>2. ASSUME NEW c \in Clients, Subscribe(c) PROVE Shrinks
  BY <1>2 DEF Subscribe, AddSubscriptions, ScheduleFlush, Shrinks
<1>3. ASSUME NEW c \in Clients, Unsubscribe(c) PROVE Shrinks
  BY <1>3 DEF Unsubscribe, RemoveSubscriptions, ScheduleFlush, Shrinks
<1>4. ASSUME NEW c \in Clients, Connect(c) PROVE Shrinks
  BY <1>4, <1>f DEF Connect, Shrinks
<1>5. ASSUME NEW c \in Clients, CleanConnect(c) PROVE Shrinks
  BY <1>5, <1>f, <1>c DEF CleanConnect, Shrinks
<1>6. ASSUME NEW c \in Clients, Disconnect(c) PROVE Shrinks
  BY <1>6, <1>f DEF Disconnect, Gone, Shrinks
<1>7. ASSUME NEW c \in Clients, NEW force \in BOOLEAN, Drop(c, force) PROVE Shrinks
  BY <1>7, <1>f, <1>c DEF Drop, Gone, Shrinks
<1>8. ASSUME NEW c \in Clients, ClearSession(c) PROVE Shrinks
  BY <1>8 DEF ClearSession, Shrinks
<1>9. ASSUME NEW c \in Clients, Ack(c) PROVE Shrinks
  <2>1. PICK r \in inflight[c] : OutgoingClearMessageId(c, r.mid)
                                 /\ inflight' = [inflight EXCEPT ![c] = @ \ {r}]
    BY <1>9 DEF Ack
  <2>2. \A e \in Clients : outgoing'[e] \subseteq outgoing[e]
    BY <2>1 DEF OutgoingClearMessageId, TypeOK
  <2>3. disk' = disk /\ now' = now /\ epoch' = epoch
    BY <2>1 DEF OutgoingClearMessageId, ScheduleFlush
  <2>4. \A e \in Clients : inflight'[e] \subseteq inflight[e]
    BY <2>1 DEF ConnectionTypeOK
  <2>5. live' = live /\ replay' = replay
    BY <1>9 DEF Ack
  <2>. QED BY <2>2, <2>3, <2>4, <2>5 DEF Shrinks
<1>10. ASSUME NEW ok \in BOOLEAN, WriteSnapshot(ok) PROVE Shrinks
  BY <1>10 DEF WriteSnapshot, FlushTimer, Flush, Shrinks
<1>11. CASE UNCHANGED brokerVars
  BY <1>11 DEF brokerVars, Shrinks
<1>. QED
  BY <1>1, <1>2, <1>3, <1>4, <1>5, <1>6, <1>7, <1>8, <1>9, <1>10, <1>11 DEF BrokerNext

\* A publish adds the packet of the moment to queues, and its number to what is
\* on its way to subscribed connections.
LEMMA PublishShape ==
  ASSUME NEW t \in Topics, EnqueuePublish(t)
  PROVE  /\ epoch' = epoch /\ disk' = disk /\ replay' = replay /\ inflight' = inflight
         /\ UNCHANGED <<conn, liveSub, gapless>>
         /\ \/ UNCHANGED <<live, outgoing, now>>
            \/ /\ now' = now + 1 /\ now < MaxNow
               /\ \A c \in Clients :
                    \/ outgoing'[c] = outgoing[c]
                    \/ c \in Subscribers(t) /\ outgoing'[c] = Enqueued(outgoing[c])
               /\ \A c \in Clients :
                    live'[c] = IF t = Inbox(c) /\ liveSub[c] THEN live[c] \cup {now} ELSE live[c]
BY DEF EnqueuePublish, OutgoingEnqueueCombi, ScheduleFlush, store, memory, saving, clock, connection

\* Reading the backlog prunes it.
LEMMA StartReplayShape ==
  ASSUME TypeOK, ConnectionTypeOK, NEW c \in Clients, StartReplay(c)
  PROVE  /\ epoch' = epoch /\ now' = now /\ disk' = disk
         /\ live' = live /\ inflight' = inflight /\ liveSub' = liveSub /\ gapless' = gapless
         /\ conn[c] = "opening" /\ conn'[c] = "open"
         /\ \A e \in Clients : outgoing'[e] \subseteq outgoing[e]
         /\ \A e \in Clients \ {c} : outgoing'[e] = outgoing[e] /\ replay'[e] = replay[e]
                                     /\ conn'[e] = conn[e]
         /\ replay'[c] = {p.counter : p \in outgoing'[c]}
BY LiveIsPart DEF StartReplay, OutgoingStream, saving, clock, TypeOK, ConnectionTypeOK

\* Every step of the broker leaves packets and numbers of the past behind.
LEMMA PastStep ==
  ASSUME TypeOK, ConnectionTypeOK, Past, [BrokerNext]_brokerVars
  PROVE  Past'
<1>0. now \in Nat /\ epoch \in Nat /\ now <= MaxNow /\ MaxNow \in Nat
  BY BoundsAssumption DEF TypeOK, Past
<1>1. ASSUME NEW t \in Topics, EnqueuePublish(t) PROVE Past'
  <2>1. /\ now' \in Nat /\ epoch' \in Nat /\ now <= now' /\ epoch <= epoch' /\ now' <= MaxNow
        /\ disk' = disk /\ replay' = replay /\ inflight' = inflight
    BY <1>0, <1>1, PublishShape
  <2>2. ASSUME NEW c \in Clients, NEW p \in outgoing'[c] \cup disk'.queue[c]
        PROVE  p \in outgoing[c] \cup disk.queue[c] \/ (p.broker <= epoch' /\ p.counter < now')
    <3>1. \/ outgoing'[c] = outgoing[c]
          \/ outgoing'[c] \subseteq outgoing[c] \cup {NewPacket} /\ now' = now + 1 /\ epoch' = epoch
      BY <1>1, PublishShape, EnqueuedShape
    <3>2. NewPacket.broker <= epoch /\ NewPacket.counter < now + 1
      BY <1>0 DEF NewPacket
    <3>. QED BY <2>1, <3>1, <3>2
  <2>3. ASSUME NEW c \in Clients, NEW n \in live'[c] \cup replay'[c]
        PROVE  n \in live[c] \cup replay[c] \/ n < now'
    <3>1. live'[c] = live[c] \/ (live'[c] \subseteq live[c] \cup {now} /\ now' = now + 1)
      BY <1>1, PublishShape
    <3>2. now < now + 1
      BY <1>0
    <3>. QED BY <2>1, <3>1, <3>2
  <2>. QED BY <2>1, <2>2, <2>3, PastKept
<1>2. ASSUME NEW c \in Clients, StartReplay(c) PROVE Past'
  <2>1. /\ now' = now /\ epoch' = epoch
        /\ \A e \in Clients : outgoing'[e] \cup disk'.queue[e] \subseteq outgoing[e] \cup disk.queue[e]
    BY <1>2, StartReplayShape
  <2>2. \A p \in outgoing'[c] : p.counter < now'
    BY <2>1 DEF Past, Stamped
  <2>3. \A e \in Clients : \A n \in live'[e] \cup replay'[e] : n \in live[e] \cup replay[e] \/ n < now'
    BY <1>2, <2>2, StartReplayShape
  <2>4. now' \in Nat /\ epoch' \in Nat /\ now <= now' /\ epoch <= epoch' /\ now' <= MaxNow
    BY <1>0, <2>1
  <2>5. inflight' = inflight
    BY <1>2, StartReplayShape
  <2>. QED BY <2>1, <2>3, <2>4, <2>5, PastKept
<1>3. ASSUME NEW c \in Clients, Replay(c) PROVE Past'
  <2>. DEFINE n == Oldest(replay[c])
  <2>1. \A e \in Clients : live'[e] \cup replay'[e] \subseteq live[e] \cup replay[e]
    BY <1>3 DEF Replay, ConnectionTypeOK
  <2>2. CASE UNCHANGED <<store, inflight>>
    <3>1. UNCHANGED <<outgoing, disk, inflight, now, epoch>>
      BY <2>2 DEF store, memory, saving, clock
    <3>2. now' \in Nat /\ epoch' \in Nat /\ now <= now' /\ epoch <= epoch' /\ now' <= MaxNow
      BY <1>0, <3>1
    <3>. QED BY <2>1, <3>1, <3>2, PastKept
  <2>3. CASE \E p \in outgoing[c], mid \in MessageIds : p.counter = n /\ Write(c, p.broker, n, mid)
    <3>1. PICK p \in outgoing[c], mid \in MessageIds : p.counter = n /\ Write(c, p.broker, n, mid)
      BY <2>3
    <3>2. p \in Packet /\ p.broker <= epoch /\ p.counter < now
      BY DEF TypeOK, Past, Stamped
    <3>3. p.broker \in Nat /\ p.counter \in Nat
      BY <3>2 DEF Packet
    <3>. HIDE DEF n
    <3>. QED BY <2>1, <3>1, <3>2, <3>3, WritePast
  <2>4. NextIds(c) \subseteq MessageIds /\ \A p \in outgoing[c] : p.mid # NoId => p.mid \in MessageIds
    BY DEF NextIds, TypeOK, Packet
  <2>. QED BY <1>3, <2>2, <2>3, <2>4 DEF Replay
<1>4. ASSUME NEW c \in Clients, Deliver(c) PROVE Past'
  <2>. DEFINE n == Oldest(live[c])
  <2>1. PICK mid \in NextIds(c) : Write(c, epoch, n, mid)
    BY <1>4 DEF Deliver
  <2>2. n \in live[c] /\ live[c] \in SUBSET Nat
    BY <1>4, OldestExists DEF Deliver, ConnectionTypeOK
  <2>3. n \in Nat /\ n < now /\ mid \in MessageIds /\ epoch <= epoch
    BY <1>0, <2>2 DEF Past, OnTime, NextIds
  <2>4. \A e \in Clients : live'[e] \cup replay'[e] \subseteq live[e] \cup replay[e]
    BY <1>4 DEF Deliver, ConnectionTypeOK
  <2>. HIDE DEF n
  <2>. QED BY <1>0, <2>1, <2>3, <2>4, WritePast
<1>5. CASE BrokerCrash \/ \E ok \in BOOLEAN : BrokerStop(ok)
  <2>1. /\ now' = now /\ epoch' = epoch + 1 /\ Restarted
        /\ \A c \in Clients : outgoing'[c] \cup disk'.queue[c] \subseteq outgoing[c] \cup disk.queue[c]
    BY <1>5, RestartHolds
  <2>2. \A c \in Clients : live'[c] = {} /\ replay'[c] = {} /\ inflight'[c] = {}
    BY <2>1 DEF Restarted
  <2>3. now' \in Nat /\ epoch' \in Nat /\ now <= now' /\ epoch <= epoch' /\ now' <= MaxNow
    BY <1>0, <2>1
  <2>. QED BY <2>1, <2>2, <2>3, PastKept
<1>6. CASE Shrinks
  <2>1. now' \in Nat /\ epoch' \in Nat /\ now <= now' /\ epoch <= epoch' /\ now' <= MaxNow
    BY <1>0, <1>6 DEF Shrinks
  <2>2. ASSUME NEW c \in Clients
        PROVE  /\ outgoing'[c] \cup disk'.queue[c] \subseteq outgoing[c] \cup disk.queue[c]
               /\ live'[c] \cup replay'[c] \subseteq live[c] \cup replay[c]
               /\ inflight'[c] \subseteq inflight[c]
    BY <1>6 DEF Shrinks, Snapshot
  <2>. QED BY <2>1, <2>2, PastKept
<1>. QED BY <1>1, <1>2, <1>3, <1>4, <1>5, <1>6, StepKinds

\* Together.
LEMMA BrokerTypes == BrokerSpec => [](TypeOK /\ ConnectionTypeOK /\ Past)
<1>1. TypeOK /\ ConnectionTypeOK /\ Past /\ [BrokerNext]_brokerVars =>
        (TypeOK /\ ConnectionTypeOK /\ Past)'
  BY StoreStep, TypeStep, ConnectionTypeStep, PastStep
<1>. QED BY <1>1, BrokerInitType, PTL DEF BrokerSpec

\* The types of the broker's state (startBroker).
THEOREM BrokerTyping == BrokerSpec => []BrokerTypeOK
<1>1. TypeOK /\ ConnectionTypeOK => BrokerTypeOK
  BY DEF ConnectionTypeOK, BrokerTypeOK
<1>. QED BY <1>1, BrokerTypes, PTL

\* The broker uses its store as module Mailbox says a store is used, so what is
\* proved of every run of the store holds of the broker's.
THEOREM StoreInBroker == BrokerSpec => Spec
<1>1. BrokerInit => Init
  BY DEF BrokerInit
<1>2. TypeOK /\ ConnectionTypeOK /\ Past /\ [BrokerNext]_brokerVars => [Next]_vars
  BY StoreStep
<1>. QED BY <1>1, <1>2, BrokerTypes, PTL DEF BrokerSpec, Spec

-----------------------------------------------------------------------------
(***************************************************************************)
(* Who holds a mailbox, and what stands behind it.                         *)
(***************************************************************************)

\* Only a session has anything on its way to it, and what it has had since its
\* CONNACK it still has.
Quiet(c) == live[c] = {} /\ replay[c] = {} /\ inflight[c] = {} /\ ~liveSub[c]
OnlySessions == \A c \in Clients : (~Persistent(c) => Quiet(c)) /\ (gapless[c] => liveSub[c])

\* The end of a connection leaves nothing of it.
LEMMA GoneQuiet ==
  ASSUME ConnectionTypeOK, NEW c \in Clients, Gone(c)
  PROVE  /\ ~Persistent(c)' /\ Quiet(c)' /\ ~gapless'[c]
         /\ \A e \in Clients \ {c} : /\ conn'[e] = conn[e] /\ liveSub'[e] = liveSub[e]
                                     /\ gapless'[e] = gapless[e] /\ live'[e] = live[e]
                                     /\ replay'[e] = replay[e] /\ inflight'[e] = inflight[e]
                                     /\ retained'[e] = retained[e]
BY DEF Gone, ForgetTransit, Quiet, Persistent, ConnectionTypeOK

\* Every step of the broker keeps that.
LEMMA OnlySessionsStep ==
  ASSUME TypeOK, ConnectionTypeOK, OnlySessions, [BrokerNext]_brokerVars
  PROVE  OnlySessions'
<1>. USE DEF connection, transit
\* A connection that stays as it is may lose what is on its way.
<1>k. ASSUME NEW c \in Clients, conn'[c] = conn[c], liveSub'[c] = liveSub[c], gapless'[c] = gapless[c],
             live[c] = {} => live'[c] = {}, replay[c] = {} => replay'[c] = {},
             inflight[c] = {} => inflight'[c] = {}
      PROVE  (~Persistent(c)' => Quiet(c)') /\ (gapless'[c] => liveSub'[c])
  BY <1>k DEF OnlySessions, Quiet, Persistent
<1>1. ASSUME NEW t \in Topics, AuthorizePublish(t) PROVE OnlySessions'
  BY <1>1, <1>k DEF AuthorizePublish, OnlySessions
<1>2. ASSUME NEW t \in Topics, EnqueuePublish(t) PROVE OnlySessions'
  <2>1. ASSUME NEW c \in Clients, ~Persistent(c) PROVE live'[c] = live[c]
    BY <1>2, <2>1 DEF EnqueuePublish, OnlySessions, Quiet
  <2>2. UNCHANGED <<conn, liveSub, gapless, replay, inflight>>
    BY <1>2 DEF EnqueuePublish
  <2>. QED BY <2>1, <2>2 DEF OnlySessions, Quiet, Persistent
<1>3. ASSUME NEW c \in Clients, Subscribe(c) \/ Unsubscribe(c) PROVE OnlySessions'
  BY <1>3 DEF Subscribe, Unsubscribe, OnlySessions, Quiet, Persistent, ConnectionTypeOK
<1>4. ASSUME NEW c \in Clients, Connect(c) PROVE OnlySessions'
  <2>1. HoldsSubscription(c, Inbox(c)) \in BOOLEAN
    BY DEF HoldsSubscription
  <2>2. /\ conn'[c] = "opening" /\ liveSub'[c] = gapless'[c]
        /\ \A e \in Clients \ {c} : /\ conn'[e] = conn[e] /\ liveSub'[e] = liveSub[e]
                                    /\ gapless'[e] = gapless[e] /\ live'[e] = live[e]
                                    /\ replay'[e] = replay[e] /\ inflight'[e] = inflight[e]
    BY <1>4, <2>1 DEF Connect, ForgetTransit, ConnectionTypeOK
  <2>3. Persistent(c)'
    BY <2>2 DEF Persistent
  <2>. QED BY <1>k, <2>2, <2>3 DEF OnlySessions
<1>5. ASSUME NEW c \in Clients, CleanConnect(c) PROVE OnlySessions'
  <2>1. /\ Quiet(c)' /\ ~gapless'[c]
        /\ \A e \in Clients \ {c} : /\ conn'[e] = conn[e] /\ liveSub'[e] = liveSub[e]
                                    /\ gapless'[e] = gapless[e] /\ live'[e] = live[e]
                                    /\ replay'[e] = replay[e] /\ inflight'[e] = inflight[e]
    BY <1>5 DEF CleanConnect, ForgetTransit, Quiet, ConnectionTypeOK
  <2>. QED BY <1>k, <2>1 DEF OnlySessions
<1>6. ASSUME NEW c \in Clients, Gone(c) PROVE OnlySessions'
  BY <1>6, <1>k, GoneQuiet DEF OnlySessions
<1>7. ASSUME NEW c \in Clients, NEW force \in BOOLEAN, Drop(c, force) PROVE OnlySessions'
  <2>1. CASE UNCHANGED <<connection, transit>>
    BY <2>1, <1>k DEF OnlySessions
  <2>. QED BY <1>6, <1>7, <2>1 DEF Drop
<1>8. ASSUME NEW c \in Clients, ClearSession(c) PROVE OnlySessions'
  BY <1>8, <1>k DEF ClearSession, OnlySessions
<1>9. ASSUME NEW c \in Clients, StartReplay(c) PROVE OnlySessions'
  <2>1. /\ Persistent(c)' /\ liveSub' = liveSub /\ gapless' = gapless
        /\ \A e \in Clients \ {c} : conn'[e] = conn[e] /\ replay'[e] = replay[e]
        /\ live' = live /\ inflight' = inflight
    BY <1>9 DEF StartReplay, Persistent, ConnectionTypeOK
  <2>2. gapless'[c] => liveSub'[c]
    BY <2>1 DEF OnlySessions
  <2>. QED BY <1>k, <2>1, <2>2 DEF OnlySessions
\* A delivery is to a session, as something was on its way.
<1>w. ASSUME NEW c \in Clients, UNCHANGED connection, live[c] # {} \/ replay[c] # {},
             \A e \in Clients \ {c} : /\ live'[e] = live[e] /\ replay'[e] = replay[e]
                                      /\ inflight'[e] = inflight[e]
      PROVE  OnlySessions'
  <2>1. Persistent(c)
    BY <1>w DEF OnlySessions, Quiet
  <2>2. Persistent(c)' /\ (gapless'[c] => liveSub'[c])
    BY <1>w, <2>1 DEF Persistent, OnlySessions
  <2>. QED BY <1>k, <1>w, <2>2 DEF OnlySessions
<1>10. ASSUME NEW c \in Clients, Replay(c) PROVE OnlySessions'
  <2>1. UNCHANGED connection /\ replay[c] # {} /\ live' = live
        /\ \A e \in Clients \ {c} : replay'[e] = replay[e]
    BY <1>10 DEF Replay, ConnectionTypeOK
  <2>2. \A e \in Clients \ {c} : inflight'[e] = inflight[e]
    BY <1>10 DEF Replay, Write, ConnectionTypeOK
  <2>. QED BY <1>w, <2>1, <2>2
<1>11. ASSUME NEW c \in Clients, Deliver(c) PROVE OnlySessions'
  <2>1. UNCHANGED connection /\ live[c] # {} /\ replay' = replay
        /\ \A e \in Clients \ {c} : live'[e] = live[e]
    BY <1>11 DEF Deliver, ConnectionTypeOK
  <2>2. \A e \in Clients \ {c} : inflight'[e] = inflight[e]
    BY <1>11 DEF Deliver, Write, ConnectionTypeOK
  <2>. QED BY <1>w, <2>1, <2>2
<1>12. ASSUME NEW c \in Clients, Ack(c) PROVE OnlySessions'
  <2>1. \A e \in Clients : inflight[e] = {} => inflight'[e] = {}
    BY <1>12 DEF Ack, ConnectionTypeOK
  <2>2. UNCHANGED <<conn, liveSub, gapless, live, replay>>
    BY <1>12 DEF Ack
  <2>. QED BY <1>k, <2>1, <2>2 DEF OnlySessions
<1>13. ASSUME NEW ok \in BOOLEAN, WriteSnapshot(ok) PROVE OnlySessions'
  BY <1>13, <1>k DEF WriteSnapshot, OnlySessions
<1>14. CASE Restarted
  BY <1>14 DEF Restarted, OnlySessions, Quiet, Persistent
<1>15. CASE UNCHANGED brokerVars
  BY <1>15, <1>k DEF brokerVars, OnlySessions
<1>. QED
  BY <1>1, <1>2, <1>3, <1>4, <1>5, <1>6, <1>7, <1>8, <1>9, <1>10, <1>11, <1>12, <1>13, <1>14, <1>15
  DEF BrokerNext, BrokerCrash, BrokerStop, Disconnect

\* It holds at every moment.
LEMMA OnlySessionsInvariant == BrokerSpec => []OnlySessions
<1>1. BrokerInit => OnlySessions
  BY DEF BrokerInit, OnlySessions, Quiet, Persistent
<1>2. TypeOK /\ ConnectionTypeOK /\ OnlySessions /\ [BrokerNext]_brokerVars => OnlySessions'
  BY OnlySessionsStep
<1>. QED BY <1>1, <1>2, BrokerTypes, PTL DEF BrokerSpec

\* The session topic of a mailbox never says free while a consumer holds it
\* (publishSession, and everything that publishes or clears the topic).
THEOREM HeldNotFree == BrokerSpec => []NeverAdvertisedFree
<1>1. BrokerInit => NeverAdvertisedFree
  BY DEF BrokerInit, NeverAdvertisedFree, Persistent
<1>2. ConnectionTypeOK /\ NeverAdvertisedFree /\ [BrokerNext]_brokerVars => NeverAdvertisedFree'
  <2>. SUFFICES ASSUME ConnectionTypeOK, NeverAdvertisedFree, [BrokerNext]_brokerVars,
                       NEW c \in Clients, Persistent(c)'
                PROVE  retained'[c] # "free"
    BY DEF NeverAdvertisedFree
  <2>. USE DEF connection, notices
  \* Whoever was connected was not advertised free, and is not by this step.
  <2>k. ASSUME conn'[c] = conn[c], retained'[c] = retained[c] PROVE retained'[c] # "free"
    BY <2>k DEF NeverAdvertisedFree, Persistent
  <2>1. ASSUME NEW t \in Topics, AuthorizePublish(t) PROVE retained'[c] # "free"
    <3>1. Persistent(c) /\ conn' = conn
      BY <2>1 DEF AuthorizePublish, Persistent
    <3>2. SessionState(c) = "connected"
      BY <3>1 DEF SessionState, Registered, Persistent
    <3>. QED BY <2>1, <2>k, <3>1, <3>2 DEF AuthorizePublish, ConnectionTypeOK
  <2>2. ASSUME NEW t \in Topics, EnqueuePublish(t) PROVE retained'[c] # "free"
    BY <2>2, <2>k DEF EnqueuePublish
  <2>3. ASSUME NEW e \in Clients, Connect(e) PROVE retained'[c] # "free"
    BY <2>3, <2>k DEF Connect, ConnectionTypeOK
  <2>4. ASSUME NEW e \in Clients, CleanConnect(e) PROVE retained'[c] # "free"
    BY <2>4, <2>k DEF CleanConnect, Persistent, ConnectionTypeOK
  <2>5. ASSUME NEW e \in Clients, Gone(e) PROVE retained'[c] # "free"
    BY <2>5, <2>k, GoneQuiet
  <2>6. ASSUME NEW e \in Clients, NEW force \in BOOLEAN, Drop(e, force) PROVE retained'[c] # "free"
    BY <2>5, <2>6, <2>k DEF Drop
  <2>7. ASSUME NEW e \in Clients, ClearSession(e) PROVE retained'[c] # "free"
    BY <2>7, <2>k DEF ClearSession, ConnectionTypeOK
  <2>8. ASSUME NEW e \in Clients, StartReplay(e) PROVE retained'[c] # "free"
    <3>1. Persistent(c) /\ retained' = retained
      BY <2>8 DEF StartReplay, Persistent, ConnectionTypeOK
    <3>. QED BY <3>1 DEF NeverAdvertisedFree
  <2>9. CASE UNCHANGED <<conn, retained>>
    BY <2>9, <2>k
  <2>10. CASE Restarted
    BY <2>10 DEF Restarted, Persistent
  <2>. QED
    BY <2>1, <2>2, <2>3, <2>4, <2>5, <2>6, <2>7, <2>8, <2>9, <2>10
    DEF BrokerNext, brokerVars, Subscribe, Unsubscribe, Disconnect, Replay, Deliver, Ack,
        WriteSnapshot, BrokerCrash, BrokerStop
<1>. QED BY <1>1, <1>2, BrokerTypes, PTL DEF BrokerSpec

\* No drop, provisioning, unsubscribe or restart takes the mailbox from under a
\* subscribed consumer (dropMailbox, removeSubscriptions).
THEOREM MailboxBehind == BrokerSpec => []ConsumerHasMailbox
<1>1. BrokerInit => ConsumerHasMailbox
  BY DEF BrokerInit, ConsumerHasMailbox, Persistent
<1>2. TypeOK /\ ConnectionTypeOK /\ OnlySessions /\ ConsumerHasMailbox /\ [BrokerNext]_brokerVars
        => ConsumerHasMailbox'
  <2>. SUFFICES ASSUME TypeOK, ConnectionTypeOK, OnlySessions, ConsumerHasMailbox,
                       [BrokerNext]_brokerVars, NEW c \in Clients, Persistent(c)', liveSub'[c]
                PROVE  subs'[c][Inbox(c)] = "qos1"
    BY DEF ConsumerHasMailbox, HoldsSubscription
  <2>. USE DEF connection, store, memory
  <2>. DEFINE Kept == subs'[c][Inbox(c)] = "qos1"
  <2>i. Inbox(c) \in Topics /\ Owner[Inbox(c)] = c
    BY InboxOwned
  <2>s. subs \in [Clients -> [Topics -> QoS]]
    BY DEF TypeOK
  \* Who was subscribed had a mailbox, and keeps it unless it is discarded.
  <2>k. ASSUME Persistent(c), liveSub[c], subs'[c] = subs[c] PROVE Kept
    BY <2>k DEF ConsumerHasMailbox, HoldsSubscription
  <2>l. ASSUME UNCHANGED <<conn, liveSub, subs>> PROVE Kept
    BY <2>k, <2>l DEF Persistent
  <2>1. ASSUME NEW t \in Topics, AuthorizePublish(t) PROVE Kept
    <3>1. CASE UNCHANGED store
      BY <2>1, <2>l, <3>1 DEF AuthorizePublish
    <3>2. CASE t \in AgentInbox /\ EnsureMailbox(t)
      <4>1. /\ subs' = [subs EXCEPT ![Owner[t]][t] = "qos1"] /\ Owner[t] \in Clients
            /\ UNCHANGED <<conn, liveSub>>
        BY <2>1, <3>2, TopicsAssumption DEF EnsureMailbox, AuthorizePublish
      <4>2. subs[c][Inbox(c)] = "qos1"
        BY <4>1 DEF ConsumerHasMailbox, HoldsSubscription, Persistent
      <4>. QED BY <2>i, <2>s, <4>1, <4>2
    <3>. QED BY <2>1, <3>1, <3>2 DEF AuthorizePublish
  <2>2. ASSUME NEW t \in Topics, EnqueuePublish(t) PROVE Kept
    BY <2>2, <2>l DEF EnqueuePublish, OutgoingEnqueueCombi
  <2>3. ASSUME NEW e \in Clients, Connect(e) PROVE Kept
    <3>1. CASE e = c
      BY <2>3, <3>1 DEF Connect, HoldsSubscription, ConnectionTypeOK
    <3>2. CASE e # c
      BY <2>3, <2>k, <3>2 DEF Connect, Persistent, ConnectionTypeOK
    <3>. QED BY <3>1, <3>2
  <2>4. ASSUME NEW e \in Clients, CleanConnect(e) PROVE Kept
    <3>1. e # c
      BY <2>4 DEF CleanConnect, ConnectionTypeOK
    <3>. QED BY <2>4, <2>k, <3>1 DEF CleanConnect, CleanSubscriptions, Persistent,
                                    ConnectionTypeOK, TypeOK
  <2>5. ASSUME NEW e \in Clients, Subscribe(e) PROVE Kept
    <3>1. /\ subs' = [subs EXCEPT ![e] = [t \in Topics |->
                        IF t \in {Inbox(e)} THEN StoredQoS(e, t, "qos1") ELSE @[t]]]
          /\ conn' = conn /\ liveSub' = [liveSub EXCEPT ![e] = TRUE]
      BY <2>5 DEF Subscribe, AddSubscriptions
    <3>2. CASE e = c
      BY <2>i, <2>s, <3>1, <3>2 DEF StoredQoS
    <3>3. CASE e # c
      BY <2>k, <2>s, <3>1, <3>3 DEF Persistent, ConnectionTypeOK
    <3>. QED BY <3>2, <3>3
  <2>6. ASSUME NEW e \in Clients, Unsubscribe(e) PROVE Kept
    <3>1. Removable(e, {Inbox(e)}) = {}
      BY InboxOwned DEF Removable
    <3>2. /\ UNCHANGED <<conn, subs>> /\ e # c
          /\ liveSub' = [liveSub EXCEPT ![e] = FALSE]
      BY <2>6, <3>1 DEF Unsubscribe, RemoveSubscriptions, ConnectionTypeOK
    <3>. QED BY <2>k, <3>2 DEF Persistent, ConnectionTypeOK
  <2>7. ASSUME NEW e \in Clients, Gone(e), e # c, subs'[c] = subs[c] PROVE Kept
    BY <2>7, <2>k, GoneQuiet DEF Persistent
  <2>8. ASSUME NEW e \in Clients, Disconnect(e) PROVE Kept
    <3>1. e # c
      BY <2>8, GoneQuiet DEF Disconnect
    <3>. QED BY <2>7, <2>8, <3>1 DEF Disconnect
  <2>9. ASSUME NEW e \in Clients, NEW force \in BOOLEAN, Drop(e, force) PROVE Kept
    <3>1. e # c
      <4>1. CASE Gone(e)
        BY <4>1, GoneQuiet
      <4>2. CASE ~Registered(e) /\ UNCHANGED connection
        BY <4>2 DEF Registered, Persistent
      <4>. QED BY <2>9, <4>1, <4>2 DEF Drop, DropAllowed
    <3>2. subs'[c] = subs[c]
      BY <2>9, <2>s, <3>1 DEF Drop, CleanSubscriptions
    <3>3. CASE UNCHANGED connection
      BY <2>k, <3>2, <3>3 DEF Persistent
    <3>. QED BY <2>7, <2>9, <3>1, <3>2, <3>3 DEF Drop
  <2>10. ASSUME NEW e \in Clients, StartReplay(e) PROVE Kept
    <3>1. Persistent(c) /\ liveSub' = liveSub /\ subs' = subs
      BY <2>10 DEF StartReplay, OutgoingStream, Persistent, ConnectionTypeOK
    <3>. QED BY <2>k, <3>1
  <2>11. ASSUME NEW e \in Clients, Replay(e) \/ Deliver(e) \/ Ack(e) \/ ClearSession(e) PROVE Kept
    BY <2>11, <2>l DEF Replay, Deliver, Ack, ClearSession, Write, OutgoingUpdate,
                       OutgoingClearMessageId
  <2>12. ASSUME NEW ok \in BOOLEAN, WriteSnapshot(ok) PROVE Kept
    BY <2>12, <2>l DEF WriteSnapshot, FlushTimer
  <2>13. CASE Restarted
    BY <2>13 DEF Restarted, Persistent
  <2>14. CASE UNCHANGED brokerVars
    BY <2>14, <2>l DEF brokerVars
  <2>. QED
    BY <2>1, <2>2, <2>3, <2>4, <2>5, <2>6, <2>8, <2>9, <2>10, <2>11, <2>12, <2>13, <2>14
    DEF BrokerNext, BrokerCrash, BrokerStop
<1>. QED BY <1>1, <1>2, BrokerTypes, OnlySessionsInvariant, PTL DEF BrokerSpec

-----------------------------------------------------------------------------
(***************************************************************************)
(* What is queued for a consumer, and what is on its way to it.            *)
(***************************************************************************)

\* A mailbox is subscribed to its own inbox, if to anything.
OwnInboxOnly ==
  \A c \in Clients, t \in Topics :
    subs[c][t] # "none" \/ disk.subs[c][t] # "none" => t = Inbox(c)

\* Every step of the broker keeps that.
LEMMA OwnInboxStep ==
  ASSUME TypeOK, OwnInboxOnly, [BrokerNext]_brokerVars
  PROVE  OwnInboxOnly'
<1>. USE DEF store, memory, saving
<1>. SUFFICES ASSUME NEW c \in Clients, NEW t \in Topics, t # Inbox(c)
              PROVE  subs'[c][t] = "none" /\ disk'.subs[c][t] = "none"
  BY DEF OwnInboxOnly
<1>. DEFINE None == subs'[c][t] = "none" /\ disk'.subs[c][t] = "none"
<1>0. subs[c][t] = "none" /\ disk.subs[c][t] = "none"
  BY DEF OwnInboxOnly
<1>s. subs \in [Clients -> [Topics -> QoS]]
  BY DEF TypeOK
<1>1. ASSUME UNCHANGED <<subs, disk>> PROVE None
  BY <1>0, <1>1
<1>2. ASSUME NEW u \in Topics, AuthorizePublish(u) PROVE None
  <2>1. CASE u \in AgentInbox /\ EnsureMailbox(u)
    <3>1. /\ subs' = [subs EXCEPT ![Owner[u]][u] = "qos1"] /\ Owner[u] \in Clients
          /\ disk' = disk
      BY <2>1, TopicsAssumption DEF EnsureMailbox, ScheduleFlush
    <3>2. Owner[u] = c => u = Inbox(c)
      BY InboxOwned
    <3>. QED BY <1>0, <1>s, <3>1, <3>2
  <2>. QED BY <1>1, <1>2, <2>1 DEF AuthorizePublish
<1>3. ASSUME NEW e \in Clients, Subscribe(e) PROVE None
  <2>1. /\ subs' = [subs EXCEPT ![e] = [u \in Topics |->
                      IF u \in {Inbox(e)} THEN StoredQoS(e, u, "qos1") ELSE @[u]]]
        /\ disk' = disk
    BY <1>3 DEF Subscribe, AddSubscriptions, ScheduleFlush
  <2>. QED BY <1>0, <1>s, <2>1
<1>4. ASSUME NEW e \in Clients, Unsubscribe(e) PROVE None
  <2>1. Removable(e, {Inbox(e)}) = {}
    BY InboxOwned DEF Removable
  <2>2. UNCHANGED store
    BY <1>4, <2>1 DEF Unsubscribe, RemoveSubscriptions
  <2>. QED BY <1>1, <2>2
<1>5. ASSUME NEW e \in Clients, CleanSubscriptions(e) PROVE None
  <2>1. subs' = [subs EXCEPT ![e] = NoSubs] /\ disk' = disk
    BY <1>5 DEF CleanSubscriptions, ScheduleFlush
  <2>. QED BY <1>0, <1>s, <2>1 DEF NoSubs
<1>6. Snapshot.subs[c][t] = "none"
  BY <1>0 DEF Snapshot, NoSubs
<1>7. ASSUME NEW ok \in BOOLEAN, WriteSnapshot(ok) PROVE None
  <2>1. subs' = subs /\ (disk' = disk \/ disk' = Snapshot)
    BY <1>7 DEF WriteSnapshot, FlushTimer, Flush
  <2>. QED BY <1>0, <1>6, <2>1
<1>8. CASE BrokerCrash \/ \E ok \in BOOLEAN : BrokerStop(ok)
  <2>1. PICK d \in {disk, Snapshot} : Load(d, now)
    BY <1>8, RestartHolds
  <2>2. subs' = d.subs /\ disk' = d
    BY <2>1 DEF Load
  <2>. QED BY <1>0, <1>6, <2>2
<1>9. ASSUME NEW u \in Topics, EnqueuePublish(u) PROVE None
  BY <1>9, <1>1 DEF EnqueuePublish, OutgoingEnqueueCombi, ScheduleFlush
<1>10. ASSUME NEW e \in Clients, Replay(e) \/ Deliver(e) PROVE None
  BY <1>10, <1>1 DEF Replay, Deliver, Write, OutgoingUpdate, ScheduleFlush
<1>11. ASSUME NEW e \in Clients, Ack(e) PROVE None
  BY <1>11, <1>1 DEF Ack, OutgoingClearMessageId, ScheduleFlush
<1>12. ASSUME NEW e \in Clients, StartReplay(e) PROVE None
  BY <1>12, <1>1 DEF StartReplay, OutgoingStream
<1>13. CASE UNCHANGED store
  BY <1>13, <1>1
<1>. QED
  BY <1>2, <1>3, <1>4, <1>5, <1>7, <1>8, <1>9, <1>10, <1>11, <1>12, <1>13
  DEF BrokerNext, brokerVars, Connect, CleanConnect, Disconnect, Drop, ClearSession

\* It holds at every moment.
LEMMA OwnInboxInvariant == BrokerSpec => []OwnInboxOnly
<1>1. BrokerInit => OwnInboxOnly
  BY DEF BrokerInit, Init, OwnInboxOnly, EmptyDisk, NoSubs
<1>2. TypeOK /\ OwnInboxOnly /\ [BrokerNext]_brokerVars => OwnInboxOnly'
  BY OwnInboxStep
<1>. QED BY <1>1, <1>2, BrokerTypes, PTL DEF BrokerSpec

\* In a queue, the number of a packet is its stamp, and no two packets have the
\* same message id.
Unaltered(q) ==
  /\ \A p \in q : p.counter = p.at
  /\ \A p, r \in q : p.mid = r.mid /\ p.mid # NoId => p = r
Numbered == \A c \in Clients : Unaltered(outgoing[c]) /\ Unaltered(disk.queue[c])

\* A consumer that acknowledges a message id acknowledges the message that the
\* queue has under that id, if it has any.
TrueIds ==
  \A c \in Clients : \A r \in inflight[c], p \in outgoing[c] : p.mid = r.mid => p.counter = r.counter

\* What is emitted to a connection was published in this run of the broker.
LiveFresh ==
  \A c \in Clients : \A n \in live[c], p \in outgoing[c] : p.counter = n => p.broker = epoch

Identified == Numbered /\ TrueIds /\ LiveFresh

\* A part of such a queue is one.
LEMMA PartUnaltered ==
  ASSUME NEW q, Unaltered(q), NEW part \in SUBSET q
  PROVE  Unaltered(part)
BY DEF Unaltered

\* Packet p of c's queue has been given message id mid, and is written to the
\* consumer under it.
Rewritten(c, p, mid) ==
  /\ outgoing' = [outgoing EXCEPT ![c] = (@ \ {p}) \cup {[p EXCEPT !.mid = mid]}]
  /\ inflight' = [inflight EXCEPT ![c] = @ \cup {[mid |-> mid, counter |-> p.counter]}]

\* No other message of c is known by message id mid, to the queue or the consumer.
SafeId(c, n, mid) ==
  /\ \A p \in outgoing[c] : p.mid = mid => p.counter = n
  /\ \A r \in inflight[c] : r.mid = mid => r.counter = n

\* What a delivery of message n comes to: the packet is still queued and gets an
\* id, or it has left the queue and nothing happens.
Delivered(c, n) ==
  \/ /\ \A p \in outgoing[c] : p.counter # n
     /\ UNCHANGED <<outgoing, inflight>>
  \/ \E p \in outgoing[c], mid \in MessageIds :
       p.counter = n /\ SafeId(c, n, mid) /\ Rewritten(c, p, mid)

\* outgoingUpdate finds the packet in hand, and no other.
LEMMA WriteShape ==
  ASSUME TypeOK, ConnectionTypeOK, Queues, Numbered, NEW c \in Clients,
         NEW b, NEW n, NEW mid \in MessageIds, Write(c, b, n, mid),
         \A p \in outgoing[c] : p.counter = n => p.broker = b,
         SafeId(c, n, mid)
  PROVE  Delivered(c, n)
<1>. DEFINE matches == Matches(c, b, n, mid)
<1>1. \A p \in matches : p \in outgoing[c] /\ p.counter = n /\ p.broker = b
  BY DEF Matches, SafeId
<1>2. \A p \in outgoing[c] : p.counter = n => p \in matches
  BY DEF Matches
<1>3. CASE matches = {}
  <2>1. UNCHANGED <<outgoing, inflight>>
    BY <1>3 DEF Write, OutgoingUpdate
  <2>. QED BY <1>2, <1>3, <2>1 DEF Delivered
<1>4. CASE matches # {}
  <2>. DEFINE old == First(matches)
              new == IF old.broker = b THEN [old EXCEPT !.mid = mid]
                                       ELSE Replacement(old, b, n, mid)
  <2>1. matches \in SUBSET Packet
    BY <1>1 DEF TypeOK
  <2>2. old \in matches
    BY <1>4, <2>1, HeadExists
  <2>3. outgoing' = [outgoing EXCEPT ![c] = (@ \ {old}) \cup {new}]
    BY <1>4 DEF Write, OutgoingUpdate
  <2>4. inflight' = [inflight EXCEPT ![c] = @ \cup {[mid |-> mid, counter |-> n]}]
    BY <1>4 DEF Write
  <2>5. new = [old EXCEPT !.mid = mid] /\ old \in outgoing[c] /\ old.counter = n
    BY <1>1, <2>2
  <2>. HIDE DEF old, new
  <2>6. Rewritten(c, old, mid)
    BY <2>3, <2>4, <2>5 DEF Rewritten
  <2>. QED BY <2>5, <2>6 DEF Delivered
<1>. QED BY <1>3, <1>4

\* No two packets of a queue have the same number.
LEMMA OnePerNumber ==
  ASSUME Queues, Numbered, NEW c \in Clients
  PROVE  \A p, r \in outgoing[c] : p.counter = r.counter => p = r
BY DEF Queues, Queue, Numbered, Unaltered

\* Every delivery, of a live message or of the backlog, is of this kind, if ids
\* are not given twice.
LEMMA DeliveryShape ==
  ASSUME TypeOK, ConnectionTypeOK, Queues, Identified, ~IdsMayCollide,
         NEW c \in Clients, Replay(c) \/ Deliver(c)
  PROVE  \E n \in Nat :
           /\ Delivered(c, n)
           /\ \/ /\ live' = [live EXCEPT ![c] = @ \ {n}] /\ replay' = replay
              \/ /\ replay' = [replay EXCEPT ![c] = @ \ {n}] /\ live' = live
<1>0. Numbered /\ TrueIds /\ LiveFresh
  BY DEF Identified
\* An id that is not in use is safe.
<1>i. ASSUME NEW n, NEW mid \in NextIds(c) PROVE SafeId(c, n, mid) /\ mid \in MessageIds
  BY <1>i DEF NextIds, SafeId
<1>1. CASE Deliver(c)
  <2>. DEFINE n == Oldest(live[c])
  <2>1. PICK mid \in NextIds(c) : Write(c, epoch, n, mid)
    BY <1>1 DEF Deliver
  <2>2. n \in live[c] /\ n \in Nat
    BY <1>1, OldestExists DEF Deliver, ConnectionTypeOK
  <2>3. live' = [live EXCEPT ![c] = @ \ {n}] /\ replay' = replay
    BY <1>1 DEF Deliver
  <2>4. SafeId(c, n, mid) /\ mid \in MessageIds
    BY <1>i, <2>1
  <2>. HIDE DEF n
  <2>5. \A p \in outgoing[c] : p.counter = n => p.broker = epoch
    BY <1>0, <2>2 DEF LiveFresh
  <2>6. Delivered(c, n)
    BY <1>0, <2>1, <2>4, <2>5, WriteShape
  <2>. QED BY <2>2, <2>3, <2>6
<1>2. CASE Replay(c)
  <2>. DEFINE n == Oldest(replay[c])
  <2>1. n \in Nat
    BY <1>2, OldestExists DEF Replay, ConnectionTypeOK
  <2>2. replay' = [replay EXCEPT ![c] = @ \ {n}] /\ live' = live
    BY <1>2 DEF Replay
  <2>3. \/ (\A p \in outgoing[c] : p.counter # n) /\ UNCHANGED <<store, inflight>>
        \/ \E p \in outgoing[c] :
             /\ p.counter = n
             /\ \E mid \in IF p.mid = NoId THEN NextIds(c) ELSE {p.mid} : Write(c, p.broker, n, mid)
    BY <1>2 DEF Replay
  <2>. HIDE DEF n
  <2>4. CASE (\A p \in outgoing[c] : p.counter # n) /\ UNCHANGED <<store, inflight>>
    BY <2>1, <2>2, <2>4 DEF Delivered, store, memory
  <2>5. ASSUME NEW p \in outgoing[c], p.counter = n,
               NEW mid \in IF p.mid = NoId THEN NextIds(c) ELSE {p.mid}, Write(c, p.broker, n, mid)
        PROVE  Delivered(c, n)
    <3>1. mid \in MessageIds /\ SafeId(c, n, mid)
      <4>1. CASE p.mid = NoId
        BY <1>i, <2>5, <4>1
      <4>2. CASE p.mid # NoId
        <5>1. mid = p.mid /\ mid \in MessageIds
          BY <2>5, <4>2 DEF TypeOK, Packet
        <5>2. \A r \in outgoing[c] : r.mid = mid => r = p
          BY <1>0, <4>2, <5>1 DEF Numbered, Unaltered
        <5>3. \A r \in inflight[c] : r.mid = mid => r.counter = n
          BY <1>0, <2>5, <5>1 DEF TrueIds
        <5>. QED BY <2>5, <5>1, <5>2, <5>3 DEF SafeId
      <4>. QED BY <4>1, <4>2
    <3>2. \A r \in outgoing[c] : r.counter = n => r.broker = p.broker
      BY <1>0, <2>5, OnePerNumber
    <3>. QED BY <1>0, <2>5, <3>1, <3>2, WriteShape
  <2>. QED BY <2>1, <2>2, <2>3, <2>4, <2>5
<1>. QED BY <1>1, <1>2

\* A delivery changes a message id, in the queue and for the consumer, and
\* nothing else.
LEMMA DeliveredQueue ==
  ASSUME TypeOK, ConnectionTypeOK, Queues, Identified, NEW c \in Clients, NEW n, Delivered(c, n)
  PROVE  /\ \A e \in Clients : Unaltered(outgoing'[e])
         /\ \A e \in Clients : Counters(e)' = Counters(e)
         /\ \A e \in Clients : \A p \in outgoing'[e] :
              \/ p \in outgoing[e]
              \/ e = c /\ p.counter = n /\ [mid |-> p.mid, counter |-> p.counter] \in inflight'[e]
         /\ \A e \in Clients : \A p \in outgoing'[e] :
              \E old \in outgoing[e] : p.counter = old.counter /\ p.broker = old.broker
         /\ \A e \in Clients : inflight[e] \subseteq inflight'[e]
         /\ TrueIds'
<1>0. Numbered /\ TrueIds
  BY DEF Identified
<1>1. CASE UNCHANGED <<outgoing, inflight>>
  BY <1>0, <1>1 DEF Numbered, Counters, TrueIds
<1>2. ASSUME NEW p \in outgoing[c], NEW mid \in MessageIds, p.counter = n, SafeId(c, n, mid),
             Rewritten(c, p, mid)
      PROVE  /\ \A e \in Clients : Unaltered(outgoing'[e])
             /\ \A e \in Clients : Counters(e)' = Counters(e)
             /\ \A e \in Clients : \A r \in outgoing'[e] :
                  \/ r \in outgoing[e]
                  \/ e = c /\ r.counter = n /\ [mid |-> r.mid, counter |-> r.counter] \in inflight'[e]
             /\ \A e \in Clients : \A r \in outgoing'[e] :
                  \E old \in outgoing[e] : r.counter = old.counter /\ r.broker = old.broker
             /\ \A e \in Clients : inflight[e] \subseteq inflight'[e]
             /\ TrueIds'
  <2>. DEFINE new == [p EXCEPT !.mid = mid]
  <2>1. p \in Packet
    BY DEF TypeOK
  <2>2. new.mid = mid /\ new.counter = n /\ new.broker = p.broker /\ new.at = p.at /\ p.counter = n
    BY <1>2, <2>1 DEF Packet
  <2>3. /\ outgoing'[c] = (outgoing[c] \ {p}) \cup {new}
        /\ inflight'[c] = inflight[c] \cup {[mid |-> mid, counter |-> n]}
        /\ \A e \in Clients \ {c} : outgoing'[e] = outgoing[e] /\ inflight'[e] = inflight[e]
    BY <1>2 DEF Rewritten, TypeOK, ConnectionTypeOK
  <2>. HIDE DEF new
  <2>4. \A r \in outgoing[c] \ {p} : r.mid # mid /\ r.counter # n
    <3>1. \A r \in outgoing[c] : r.counter = n => r = p
      BY <1>0, <1>2, OnePerNumber
    <3>. QED BY <1>2, <3>1 DEF SafeId
  <2>5. Unaltered(outgoing'[c])
    <3>1. Unaltered(outgoing[c])
      BY <1>0 DEF Numbered
    <3>2. \A r \in outgoing'[c] : r.counter = r.at
      BY <2>2, <2>3, <3>1 DEF Unaltered
    <3>3. ASSUME NEW r \in outgoing'[c], NEW s \in outgoing'[c], r.mid = s.mid, r.mid # NoId
          PROVE  r = s
      BY <2>2, <2>3, <2>4, <3>1, <3>3 DEF Unaltered
    <3>. QED BY <3>2, <3>3 DEF Unaltered
  <2>6. Counters(c)' = Counters(c)
    BY <2>2, <2>3 DEF Counters
  <2>7. \A e \in Clients \ {c} : Unaltered(outgoing'[e]) /\ Counters(e)' = Counters(e)
    BY <1>0, <2>3 DEF Numbered, Counters
  <2>8. ASSUME NEW e \in Clients, NEW r \in outgoing'[e]
        PROVE  /\ \/ r \in outgoing[e]
                  \/ e = c /\ r.counter = n /\ [mid |-> r.mid, counter |-> r.counter] \in inflight'[e]
               /\ \E old \in outgoing[e] : r.counter = old.counter /\ r.broker = old.broker
    BY <2>2, <2>3
  <2>9. \A e \in Clients : inflight[e] \subseteq inflight'[e]
    BY <2>3
  <2>10. ASSUME NEW e \in Clients, NEW r \in inflight'[e], NEW s \in outgoing'[e], s.mid = r.mid
         PROVE  s.counter = r.counter
    <3>1. CASE e # c
      BY <1>0, <2>3, <2>10, <3>1 DEF TrueIds
    <3>2. CASE e = c
      <4>1. CASE s = new
        BY <1>2, <2>2, <2>3, <2>10, <3>2, <4>1 DEF SafeId
      <4>2. CASE s \in outgoing[c] \ {p}
        BY <1>0, <2>3, <2>4, <2>10, <3>2, <4>2 DEF TrueIds
      <4>. QED BY <2>3, <3>2, <4>1, <4>2
    <3>. QED BY <3>1, <3>2
  <2>11. TrueIds'
    BY <2>10 DEF TrueIds
  <2>. QED BY <2>5, <2>6, <2>7, <2>8, <2>9, <2>11
<1>. QED BY <1>1, <1>2 DEF Delivered

\* A publish queues a packet that carries the number of the moment and no id.
LEMMA EnqueuedUnaltered ==
  ASSUME NEW q, Unaltered(q)
  PROVE  Unaltered(Enqueued(q))
<1>1. PICK kept \in SUBSET q : Enqueued(q) = kept \cup {NewPacket}
  BY EnqueuedShape
<1>2. NewPacket.counter = NewPacket.at /\ NewPacket.mid = NoId
  BY DEF NewPacket
<1>. QED BY <1>1, <1>2 DEF Unaltered

\* Every step of a broker that gives no id twice keeps messages and ids apart.
LEMMA IdentifiedStep ==
  ASSUME TypeOK, ConnectionTypeOK, Past, Queues, Identified, ~IdsMayCollide,
         [BrokerNext]_brokerVars
  PROVE  Identified'
<1>0. Numbered /\ TrueIds /\ LiveFresh
  BY DEF Identified
<1>n. now \in Nat
  BY DEF TypeOK
<1>s. \A c \in Clients : Unaltered(Snapshot.queue[c])
  BY <1>0 DEF Snapshot, Numbered, Unaltered
<1>1. ASSUME NEW t \in Topics, EnqueuePublish(t) PROVE Identified'
  <2>1. /\ \A c \in Clients : outgoing'[c] = outgoing[c] \/ outgoing'[c] = Enqueued(outgoing[c])
        /\ epoch' = epoch /\ disk' = disk /\ inflight' = inflight
    BY <1>1, PublishShape
  <2>2. Numbered'
    BY <1>0, <2>1, EnqueuedUnaltered DEF Numbered
  <2>3. \A c \in Clients : outgoing'[c] \subseteq outgoing[c] \cup {NewPacket}
    BY <2>1, EnqueuedShape
  <2>4. NewPacket.mid = NoId /\ NewPacket.counter = now /\ NewPacket.broker = epoch
    BY DEF NewPacket
  <2>5. TrueIds'
    <3>1. \A c \in Clients : \A r \in inflight[c] : r.mid # NoId
      BY IdsAssumption DEF ConnectionTypeOK
    <3>. QED BY <1>0, <2>1, <2>3, <2>4, <3>1 DEF TrueIds
  <2>6. ASSUME NEW c \in Clients, NEW n \in live'[c], NEW p \in outgoing'[c], p.counter = n
        PROVE  p.broker = epoch'
    <3>1. n \in live[c] \cup {now}
      BY <1>1, PublishShape
    <3>2. CASE p = NewPacket
      BY <2>1, <2>4, <3>2
    <3>3. CASE p \in outgoing[c]
      <4>1. p.counter # now
        BY <1>n, <3>3 DEF Past, Stamped
      <4>. QED BY <1>0, <2>1, <2>6, <3>1, <3>3, <4>1 DEF LiveFresh
    <3>. QED BY <2>3, <3>2, <3>3
  <2>. QED BY <2>2, <2>5, <2>6 DEF LiveFresh, Identified
<1>2. ASSUME epoch' = epoch,
             \A c \in Clients : /\ outgoing'[c] \subseteq outgoing[c]
                                /\ disk'.queue[c] \in {disk.queue[c], Snapshot.queue[c]}
                                /\ live'[c] \subseteq live[c] /\ inflight'[c] \subseteq inflight[c]
      PROVE  Identified'
  <2>1. Numbered'
    <3>1. ASSUME NEW c \in Clients PROVE Unaltered(outgoing'[c]) /\ Unaltered(disk'.queue[c])
      BY <1>0, <1>2, <1>s, PartUnaltered DEF Numbered
    <3>. QED BY <3>1 DEF Numbered, Unaltered
  <2>2. TrueIds'
    BY <1>0, <1>2 DEF TrueIds
  <2>3. LiveFresh'
    BY <1>0, <1>2 DEF LiveFresh
  <2>. QED BY <2>1, <2>2, <2>3 DEF Identified
<1>3. ASSUME NEW c \in Clients, StartReplay(c) PROVE Identified'
  BY <1>2, <1>3, StartReplayShape
<1>4. CASE Shrinks
  BY <1>2, <1>4 DEF Shrinks
<1>5. ASSUME NEW c \in Clients, Replay(c) \/ Deliver(c) PROVE Identified'
  <2>1. PICK n : /\ Delivered(c, n)
                 /\ \A e \in Clients : live'[e] \subseteq live[e]
    BY <1>5, DeliveryShape DEF ConnectionTypeOK
  <2>2. epoch' = epoch /\ disk' = disk
    BY <1>5 DEF Replay, Deliver, Write, OutgoingUpdate, ScheduleFlush, store, clock, saving
  <2>3. Numbered'
    <3>1. ASSUME NEW e \in Clients PROVE Unaltered(outgoing'[e]) /\ Unaltered(disk'.queue[e])
      BY <1>0, <2>1, <2>2, DeliveredQueue DEF Numbered
    <3>. QED BY <3>1 DEF Numbered, Unaltered
  <2>4. TrueIds'
    BY <2>1, DeliveredQueue
  <2>5. \A e \in Clients : \A p \in outgoing'[e] :
          \E old \in outgoing[e] : p.counter = old.counter /\ p.broker = old.broker
    BY <2>1, DeliveredQueue
  <2>6. LiveFresh'
    BY <1>0, <2>1, <2>2, <2>5 DEF LiveFresh
  <2>. QED BY <2>3, <2>4, <2>6 DEF Identified
<1>6. CASE BrokerCrash \/ \E ok \in BOOLEAN : BrokerStop(ok)
  <2>1. PICK d \in {disk, Snapshot} : Load(d, now)
    BY <1>6, RestartHolds
  <2>2. ASSUME NEW c \in Clients PROVE Unaltered(outgoing'[c]) /\ Unaltered(disk'.queue[c])
    <3>1. Unaltered(d.queue[c])
      BY <1>0, <1>s DEF Numbered
    <3>2. outgoing'[c] \in SUBSET d.queue[c] /\ disk'.queue[c] = d.queue[c]
      BY <2>1, LiveIsPart DEF Load
    <3>. QED BY <3>1, <3>2, PartUnaltered
  <2>3. \A c \in Clients : live'[c] = {} /\ inflight'[c] = {}
    BY <1>6, RestartHolds DEF Restarted
  <2>. QED BY <2>2, <2>3 DEF Identified, Numbered, TrueIds, LiveFresh, Unaltered
<1>. QED BY <1>1, <1>3, <1>4, <1>5, <1>6, StepKinds

\* The queues of a broker are queues: see StoreInBroker.
LEMMA BrokerQueues == BrokerSpec => []Queues
BY StoreInBroker, QueuesInvariant, PTL

\* Messages and ids are apart at every moment.
LEMMA IdentifiedInvariant ==
  ASSUME ~IdsMayCollide
  PROVE  BrokerSpec => []Identified
<1>1. BrokerInit => Identified
  BY DEF BrokerInit, Init, EmptyDisk, Identified, Numbered, Unaltered, TrueIds, LiveFresh
<1>2. TypeOK /\ ConnectionTypeOK /\ Past /\ Queues /\ Identified /\ [BrokerNext]_brokerVars
        => Identified'
  BY IdentifiedStep
<1>. QED BY <1>1, <1>2, BrokerTypes, BrokerQueues, PTL DEF BrokerSpec

\* Whatever is queued for a consumer that has been subscribed since its CONNACK
\* is to be delivered yet, or the consumer has it under the id the queue has.
OnTheWay(c, p) ==
  \/ p.counter \in live[c] \cup replay[c]
  \/ [mid |-> p.mid, counter |-> p.counter] \in inflight[c]
Sent == \A c \in Clients : conn[c] = "open" /\ gapless[c] => \A p \in outgoing[c] : OnTheWay(c, p)

\* A step that leaves c's queue, connection and transit alone, at most ending
\* that it has been subscribed all the while.
Untouched(c) ==
  /\ outgoing'[c] = outgoing[c] /\ conn'[c] = conn[c] /\ (gapless'[c] => gapless[c])
  /\ live'[c] = live[c] /\ replay'[c] = replay[c] /\ inflight'[c] = inflight[c]

\* Only the end of a connection discards a mailbox: what is cleaned is not open.
LEMMA CleanedNotOpen ==
  ASSUME TypeOK, ConnectionTypeOK, NEW e \in Clients, NEW c \in Clients, conn'[c] = "open",
         CleanConnect(e) \/ Drop(e, TRUE) \/ Drop(e, FALSE)
  PROVE  Untouched(c) /\ e # c
<1>1. CASE CleanConnect(e)
  BY <1>1 DEF CleanConnect, CleanSubscriptions, ForgetTransit, Untouched, ConnectionTypeOK, TypeOK
<1>2. ASSUME NEW force \in BOOLEAN, Drop(e, force) PROVE Untouched(c) /\ e # c
  <2>1. CASE Gone(e)
    <3>1. e # c
      BY <2>1, GoneQuiet DEF Persistent
    <3>2. outgoing'[c] = outgoing[c]
      BY <1>2, <3>1 DEF Drop, CleanSubscriptions, TypeOK
    <3>. QED BY <2>1, <3>1, <3>2, GoneQuiet DEF Untouched
  <2>2. CASE ~Registered(e) /\ UNCHANGED <<connection, transit>>
    <3>1. e # c
      BY <2>2 DEF Registered, connection
    <3>2. outgoing'[c] = outgoing[c]
      BY <1>2, <3>1 DEF Drop, CleanSubscriptions, TypeOK
    <3>. QED BY <2>2, <3>1, <3>2 DEF Untouched, connection, transit
  <2>. QED BY <1>2, <2>1, <2>2 DEF Drop, DropAllowed
<1>. QED BY <1>1, <1>2

\* Every step of the broker keeps that.
LEMMA SentStep ==
  ASSUME TypeOK, ConnectionTypeOK, Queues, OnlySessions, OwnInboxOnly, Identified, Sent,
         ~IdsMayCollide, [BrokerNext]_brokerVars
  PROVE  Sent'
<1>. SUFFICES ASSUME NEW c \in Clients, conn'[c] = "open", gapless'[c], NEW p \in outgoing'[c]
              PROVE  OnTheWay(c, p)'
  BY DEF Sent
<1>. USE DEF store, connection, transit, memory
<1>0. ASSUME Untouched(c) PROVE OnTheWay(c, p)'
  BY <1>0 DEF Untouched, OnTheWay, Sent
<1>1. ASSUME NEW t \in Topics, EnqueuePublish(t) PROVE OnTheWay(c, p)'
  <2>1. /\ conn[c] = "open" /\ gapless[c] /\ liveSub[c]
        /\ replay' = replay /\ inflight' = inflight
    BY <1>1, PublishShape DEF OnlySessions
  <2>2. live[c] \subseteq live'[c]
    BY <1>1, PublishShape
  <2>3. CASE p \in outgoing[c]
    BY <2>1, <2>2, <2>3 DEF Sent, OnTheWay
  <2>4. CASE p \notin outgoing[c]
    <3>1. c \in Subscribers(t) /\ outgoing'[c] = Enqueued(outgoing[c])
          /\ live'[c] = IF t = Inbox(c) /\ liveSub[c] THEN live[c] \cup {now} ELSE live[c]
      BY <1>1, <2>4, PublishShape
    <3>2. t = Inbox(c)
      BY <3>1 DEF Subscribers, HoldsSubscription, OwnInboxOnly
    <3>3. p = NewPacket
      BY <2>4, <3>1, EnqueuedShape
    <3>. QED BY <2>1, <3>1, <3>2, <3>3 DEF NewPacket, OnTheWay
  <2>. QED BY <2>3, <2>4
<1>2. ASSUME NEW e \in Clients, StartReplay(e) PROVE OnTheWay(c, p)'
  <2>1. CASE e = c
    BY <1>2, <2>1, StartReplayShape DEF OnTheWay
  <2>2. CASE e # c
    BY <1>0, <1>2, <2>2, StartReplayShape DEF Untouched
  <2>. QED BY <2>1, <2>2
<1>3. ASSUME NEW e \in Clients, Replay(e) \/ Deliver(e) PROVE OnTheWay(c, p)'
  <2>1. UNCHANGED <<conn, gapless>>
    BY <1>3 DEF Replay, Deliver
  <2>2. PICK n \in Nat :
          /\ Delivered(e, n)
          /\ \/ /\ live' = [live EXCEPT ![e] = @ \ {n}] /\ replay' = replay
             \/ /\ replay' = [replay EXCEPT ![e] = @ \ {n}] /\ live' = live
    BY <1>3, DeliveryShape
  <2>3. CASE p \in outgoing[c]
    <3>1. OnTheWay(c, p)
      BY <2>1, <2>3 DEF Sent
    <3>2. inflight[c] \subseteq inflight'[c]
      BY <2>2, DeliveredQueue
    \* The message that has been taken from the way has been written, and its
    \* packet has a new id, unless it is not queued any more.
    <3>3. CASE e = c /\ p.counter = n
      <4>1. PICK q \in outgoing[c], mid \in MessageIds : q.counter = n /\ Rewritten(c, q, mid)
        BY <2>2, <2>3, <3>3 DEF Delivered
      <4>2. q = p
        BY <2>3, <3>3, <4>1, OnePerNumber DEF Identified
      <4>3. /\ outgoing'[c] = (outgoing[c] \ {p}) \cup {[p EXCEPT !.mid = mid]}
            /\ inflight'[c] = inflight[c] \cup {[mid |-> mid, counter |-> p.counter]}
        BY <4>1, <4>2 DEF Rewritten, TypeOK, ConnectionTypeOK
      <4>4. p \in Packet
        BY <2>3 DEF TypeOK
      <4>5. p.mid = mid
        BY <4>3, <4>4 DEF Packet
      <4>. QED BY <4>3, <4>5 DEF OnTheWay
    <3>4. CASE ~(e = c /\ p.counter = n)
      <4>1. p.counter \in live[c] => p.counter \in live'[c]
        BY <2>2, <3>4 DEF ConnectionTypeOK
      <4>2. p.counter \in replay[c] => p.counter \in replay'[c]
        BY <2>2, <3>4 DEF ConnectionTypeOK
      <4>. QED BY <3>1, <3>2, <4>1, <4>2 DEF OnTheWay
    <3>. QED BY <3>3, <3>4
  <2>4. CASE p \notin outgoing[c]
    <3>1. [mid |-> p.mid, counter |-> p.counter] \in inflight'[c]
      BY <2>2, <2>4, DeliveredQueue
    <3>. QED BY <3>1 DEF OnTheWay
  <2>. QED BY <2>3, <2>4
<1>4. ASSUME NEW e \in Clients, Ack(e) PROVE OnTheWay(c, p)'
  <2>1. PICK r \in inflight[e] : /\ OutgoingClearMessageId(e, r.mid)
                                 /\ inflight' = [inflight EXCEPT ![e] = @ \ {r}]
    BY <1>4 DEF Ack
  <2>2. UNCHANGED <<conn, gapless, live, replay>>
    BY <1>4 DEF Ack
  <2>3. CASE e # c
    <3>1. outgoing'[c] = outgoing[c] /\ inflight'[c] = inflight[c]
      BY <2>1, <2>3 DEF OutgoingClearMessageId, TypeOK, ConnectionTypeOK
    <3>. QED BY <1>0, <2>2, <3>1 DEF Untouched
  <2>4. CASE e = c
    <3>. DEFINE matches == {q \in outgoing[c] : q.mid = r.mid}
    <3>0. \/ outgoing' = outgoing
          \/ \E x \in {First(matches)} : outgoing' = [outgoing EXCEPT ![c] = outgoing[c] \ {x}]
      BY <2>1, <2>4 DEF OutgoingClearMessageId
    <3>1. p \in outgoing[c]
      <4>. HIDE DEF matches
      <4>. QED BY <3>0 DEF TypeOK
    <3>2. OnTheWay(c, p)
      BY <2>2, <3>1 DEF Sent
    <3>3. CASE p.mid # r.mid
      <4>1. [mid |-> p.mid, counter |-> p.counter] # r
        BY <3>3
      <4>. QED BY <2>1, <2>2, <2>4, <3>2, <4>1 DEF OnTheWay, ConnectionTypeOK
    <3>4. CASE p.mid = r.mid
      <4>1. r.mid # NoId
        BY IdsAssumption DEF ConnectionTypeOK
      <4>2. \A q \in matches : q = p
        BY <3>1, <3>4, <4>1 DEF Identified, Numbered, Unaltered
      <4>3. matches # {} /\ matches \in SUBSET Packet
        BY <3>1, <3>4 DEF TypeOK
      <4>4. First(matches) = p
        <5>1. First(matches) \in matches
          BY <4>3, HeadExists
        <5>. QED BY <4>2, <5>1
      <4>5. outgoing' = [outgoing EXCEPT ![c] = outgoing[c] \ {First(matches)}]
        BY <2>1, <2>4, <4>3 DEF OutgoingClearMessageId
      <4>. HIDE DEF matches
      <4>6. p \notin outgoing'[c]
        BY <4>4, <4>5 DEF TypeOK
      <4>. QED BY <4>6
    <3>. QED BY <3>3, <3>4
  <2>. QED BY <2>3, <2>4
<1>5. ASSUME NEW e \in Clients, Connect(e) PROVE OnTheWay(c, p)'
  <2>1. e # c
    BY <1>5 DEF Connect, ConnectionTypeOK
  <2>. QED BY <1>0, <1>5, <2>1 DEF Connect, ForgetTransit, Untouched, ConnectionTypeOK
<1>6. ASSUME NEW e \in Clients, CleanConnect(e) \/ Drop(e, TRUE) \/ Drop(e, FALSE) PROVE OnTheWay(c, p)'
  BY <1>0, <1>6, CleanedNotOpen
<1>7. ASSUME NEW e \in Clients, Disconnect(e) PROVE OnTheWay(c, p)'
  <2>1. e # c
    BY <1>7, GoneQuiet DEF Disconnect, Persistent
  <2>2. Untouched(c)
    BY <1>7, <2>1, GoneQuiet DEF Disconnect, Untouched
  <2>. QED BY <1>0, <2>2
<1>8. ASSUME NEW e \in Clients, Subscribe(e) \/ Unsubscribe(e) \/ ClearSession(e) PROVE OnTheWay(c, p)'
  <2>1. Untouched(c)
    BY <1>8 DEF Subscribe, Unsubscribe, ClearSession, AddSubscriptions, RemoveSubscriptions,
                Untouched, ConnectionTypeOK
  <2>. QED BY <1>0, <2>1
<1>9. ASSUME NEW t \in Topics, AuthorizePublish(t) PROVE OnTheWay(c, p)'
  BY <1>0, <1>9 DEF AuthorizePublish, EnsureMailbox, Untouched
<1>10. ASSUME NEW ok \in BOOLEAN, WriteSnapshot(ok) PROVE OnTheWay(c, p)'
  BY <1>0, <1>10 DEF WriteSnapshot, FlushTimer, Untouched
<1>11. ~Restarted
  BY DEF Restarted
<1>12. CASE UNCHANGED brokerVars
  BY <1>0, <1>12 DEF brokerVars, Untouched
<1>. QED
  BY <1>1, <1>2, <1>3, <1>4, <1>5, <1>6, <1>7, <1>8, <1>9, <1>10, <1>11, <1>12
  DEF BrokerNext, BrokerCrash, BrokerStop

\* No message queued for a consumer that subscribed at its CONNACK and stayed is
\* left behind between the backlog and the live messages (outgoingStream).
THEOREM Stranded ==
  ASSUME ~IdsMayCollide
  PROVE  BrokerSpec => []NothingStranded
<1>1. BrokerInit => Sent
  BY DEF BrokerInit, Sent
<1>2. TypeOK /\ ConnectionTypeOK /\ Queues /\ OnlySessions /\ OwnInboxOnly /\ Identified /\ Sent
        /\ [BrokerNext]_brokerVars => Sent'
  BY SentStep
<1>3. Sent => NothingStranded
  <2>. SUFFICES ASSUME Sent, NEW c \in Clients, conn[c] = "open", gapless[c], NEW p \in outgoing[c]
                PROVE  p.counter \in OnItsWay(c)
    BY DEF NothingStranded, Counters
  <2>1. OnTheWay(c, p)
    BY DEF Sent
  <2>2. CASE p.counter \in live[c] \cup replay[c]
    BY <2>2 DEF OnItsWay
  <2>3. CASE \E r \in inflight[c] : r.counter = p.counter
    BY <2>3 DEF OnItsWay
  <2>4. [mid |-> p.mid, counter |-> p.counter].counter = p.counter
    OBVIOUS
  <2>. QED BY <2>1, <2>2, <2>3, <2>4 DEF OnTheWay
<1>. QED
  BY <1>1, <1>2, <1>3, BrokerTypes, BrokerQueues, OnlySessionsInvariant, OwnInboxInvariant,
     IdentifiedInvariant, PTL
  DEF BrokerSpec

\* A delivery neither removes nor overwrites what is queued (outgoingUpdate).
THEOREM Overwritten ==
  ASSUME ~IdsMayCollide
  PROVE  BrokerSpec => NothingOverwritten
<1>1. TypeOK /\ ConnectionTypeOK /\ Queues /\ OnlySessions /\ Identified /\ [BrokerNext]_brokerVars =>
        \A c \in Clients :
          (live'[c] # live[c] \/ replay'[c] # replay[c]) /\ conn' = conn /\ now' = now =>
             Counters(c) \subseteq Counters(c)'
  <2>. SUFFICES ASSUME TypeOK, ConnectionTypeOK, Queues, OnlySessions, Identified,
                       [BrokerNext]_brokerVars, NEW c \in Clients,
                       live'[c] # live[c] \/ replay'[c] # replay[c], conn' = conn, now' = now
                PROVE  Counters(c) \subseteq Counters(c)'
    OBVIOUS
  <2>. USE DEF store, connection, transit, memory
  <2>0. ASSUME outgoing'[c] = outgoing[c] PROVE Counters(c) \subseteq Counters(c)'
    BY <2>0 DEF Counters
  <2>1. ASSUME NEW e \in Clients, Replay(e) \/ Deliver(e) PROVE Counters(c) \subseteq Counters(c)'
    BY <2>1, DeliveryShape, DeliveredQueue
  <2>2. ASSUME NEW t \in Topics, EnqueuePublish(t) PROVE FALSE
    <3>1. now' # now + 1
      BY DEF TypeOK
    <3>. QED BY <2>2, <3>1, PublishShape
  <2>3. ASSUME NEW e \in Clients, StartReplay(e) PROVE FALSE
    BY <2>3, StartReplayShape
  <2>4. ASSUME NEW e \in Clients, Connect(e) PROVE Counters(c) \subseteq Counters(c)'
    BY <2>0, <2>4 DEF Connect
  <2>5. ASSUME NEW e \in Clients, CleanConnect(e) PROVE Counters(c) \subseteq Counters(c)'
    <3>1. CASE e = c
      <4>1. conn[c] = "clean"
        BY <2>5, <3>1 DEF CleanConnect, ConnectionTypeOK
      <4>2. live[c] = {} /\ replay[c] = {}
        BY <4>1 DEF OnlySessions, Quiet, Persistent
      <4>. QED BY <2>5, <3>1, <4>2 DEF CleanConnect, ForgetTransit, ConnectionTypeOK
    <3>2. CASE e # c
      BY <2>0, <2>5, <3>2 DEF CleanConnect, CleanSubscriptions, TypeOK
    <3>. QED BY <3>1, <3>2
  <2>6. ASSUME NEW e \in Clients, Registered(e), Gone(e) PROVE FALSE
    BY <2>6 DEF Gone, Registered, ConnectionTypeOK
  <2>7. ASSUME NEW e \in Clients, NEW force \in BOOLEAN, Drop(e, force) PROVE FALSE
    BY <2>6, <2>7 DEF Drop
  <2>8. CASE Restarted
    <3>1. ~Persistent(c)
      BY <2>8 DEF Restarted, Persistent
    <3>. QED BY <2>8, <3>1 DEF Restarted, OnlySessions, Quiet
  <2>9. CASE UNCHANGED <<live, replay>>
    BY <2>9
  <2>. QED
    BY <2>1, <2>2, <2>3, <2>4, <2>5, <2>6, <2>7, <2>8, <2>9
    DEF BrokerNext, brokerVars, AuthorizePublish, Subscribe, Unsubscribe, Disconnect, Ack,
        ClearSession, WriteSnapshot, BrokerCrash, BrokerStop
<1>. QED
  BY <1>1, BrokerTypes, BrokerQueues, OnlySessionsInvariant, IdentifiedInvariant, PTL
  DEF BrokerSpec, NothingOverwritten

-----------------------------------------------------------------------------
(***************************************************************************)
(* The promise of the mailboxes.                                           *)
(***************************************************************************)

\* Taking one packet from the head of a queue takes its head.
LEMMA DropsHead ==
  ASSUME NEW q \in SUBSET Packet, IsFiniteSet(q), \A p, r \in q : p.at = r.at => p = r, q # {}
  PROVE  First(q) \in q /\ DropOldest(q, 1) = q \ {First(q)}
<1>. DEFINE older(p) == {r \in q : r.at < p.at}
<1>1. First(q) \in q /\ \A r \in q : First(q).at <= r.at
  BY HeadExists
<1>2. \A p \in q : p.at \in Nat
  BY DEF Packet
<1>3. ASSUME NEW p \in q PROVE Cardinality(older(p)) >= 1 <=> p # First(q)
  <2>1. older(p) = {} <=> p = First(q)
    BY <1>1, <1>2
  <2>2. IsFiniteSet(older(p))
    BY FS_Subset
  <2>3. Cardinality(older(p)) \in Nat /\ (Cardinality(older(p)) = 0 <=> older(p) = {})
    BY <2>2, FS_CardinalityType, FS_EmptySet
  <2>. HIDE DEF older
  <2>. QED BY <2>1, <2>3
<1>4. DropOldest(q, 1) = {p \in q : Cardinality(older(p)) >= 1}
  BY DEF DropOldest
<1>. HIDE DEF older
<1>. QED BY <1>1, <1>3, <1>4

\* Where nothing expires, a queue that loses something to a publish was full,
\* and is full again.
LEMMA FullAgain ==
  ASSUME TTL = 0, TypeOK, NEW q \in SUBSET Packet, Queue(q, now), ~(q \subseteq Enqueued(q))
  PROVE  Cap > 0 /\ IsFiniteSet(Enqueued(q)) /\ Cardinality(Enqueued(q)) = Cap
<1>. DEFINE over == Cardinality(q) - Cap + 1
<1>1. Enqueued(q) = (IF Cap > 0 /\ over > 0 THEN DropOldest(q, over) ELSE q) \cup {NewPacket}
  BY DEF Enqueued, LiveAt
<1>2. Cap > 0 /\ over > 0 /\ Enqueued(q) = DropOldest(q, over) \cup {NewPacket}
  BY <1>1
<1>3. IsFiniteSet(q) /\ Cardinality(q) \in Nat /\ Cardinality(q) <= Cap /\ Cap \in Nat
  BY <1>2, FS_CardinalityType, BoundsAssumption DEF Queue
<1>4. over = 1 /\ Cardinality(q) = Cap
  BY <1>2, <1>3
<1>5. q # {}
  BY <1>2, <1>4, FS_EmptySet
<1>6. \A p, r \in q : p.at = r.at => p = r
  BY DEF Queue
<1>7. First(q) \in q /\ DropOldest(q, 1) = q \ {First(q)}
  BY <1>3, <1>5, <1>6, DropsHead
<1>. DEFINE kept == q \ {First(q)}
<1>8. IsFiniteSet(kept) /\ Cardinality(kept) = Cap - 1
  BY <1>3, <1>4, <1>7, FS_RemoveElement
<1>9. NewPacket \notin kept
  <2>1. \A p \in q : p.at < now /\ p.at \in Nat
    BY DEF Queue, Packet
  <2>2. now \in Nat /\ NewPacket.at = now
    BY DEF TypeOK, NewPacket
  <2>. QED BY <2>1, <2>2
<1>10. Enqueued(q) = kept \cup {NewPacket}
  BY <1>2, <1>4, <1>7
<1>. HIDE DEF kept, over
<1>11. IsFiniteSet(kept \cup {NewPacket}) /\ Cardinality(kept \cup {NewPacket}) = Cardinality(kept) + 1
  BY <1>8, <1>9, FS_AddElement
<1>12. Cap > 0
  BY <1>2
<1>13. Cardinality(kept \cup {NewPacket}) = Cap
  BY <1>3, <1>8, <1>11
<1>. QED BY <1>10, <1>11, <1>12, <1>13

\* The messages of a queue, and how many they are.
Numbers(q) == {p.counter : p \in q}
LEMMA AsManyNumbers ==
  ASSUME NEW q, IsFiniteSet(q), \A p, r \in q : p.counter = r.counter => p = r
  PROVE  Cardinality(Numbers(q)) = Cardinality(q)
<1>. DEFINE f == [p \in q |-> p.counter]
<1>1. f \in Bijection(q, Numbers(q))
  BY DEF Numbers, Bijection, Injection, Surjection, IsInjective
<1>2. ExistsBijection(q, Numbers(q))
  BY <1>1 DEF ExistsBijection
<1>. QED BY <1>2, FS_Bijection

\* A queue of the broker that loses messages to a publish loses the oldest, and
\* only if it is full.
LEMMA PublishedNumbers ==
  ASSUME TTL = 0, TypeOK, NEW q \in SUBSET Packet, Queue(q, now), Unaltered(q),
         \A p \in q : p.counter < now
  PROVE  LET lost == Numbers(q) \ Numbers(Enqueued(q))
         IN  /\ Numbers(Enqueued(q)) = (Numbers(q) \ lost) \cup {now}
             /\ \A l \in lost, k \in Numbers(q) \ lost : l < k
             /\ lost # {} => Cap > 0 /\ Cardinality(Numbers(Enqueued(q))) = Cap
<1>. DEFINE lost == Numbers(q) \ Numbers(Enqueued(q))
<1>1. PICK kept \in SUBSET q : Enqueued(q) = kept \cup {NewPacket}
  BY EnqueuedShape
<1>2. NewPacket.counter = now /\ now \in Nat
  BY DEF NewPacket, TypeOK
<1>3. Numbers(Enqueued(q)) = Numbers(kept) \cup {now}
  BY <1>1, <1>2 DEF Numbers
<1>4. \A n \in Numbers(q) : n # now
  BY <1>2 DEF Numbers
<1>5. Numbers(kept) \subseteq Numbers(q)
  BY DEF Numbers
<1>6. Numbers(Enqueued(q)) = (Numbers(q) \ lost) \cup {now}
  BY <1>3, <1>4, <1>5
<1>7. ASSUME NEW l \in lost, NEW k \in Numbers(q) \ lost PROVE l < k
  <2>1. PICK p \in q : p.counter = l /\ p \notin Enqueued(q)
    BY DEF Numbers
  <2>2. PICK r \in kept : r.counter = k
    BY <1>3, <1>4 DEF Numbers
  <2>3. p.at < r.at
    BY <1>1, <2>1, <2>2, OldestLeave
  <2>. QED BY <2>1, <2>2, <2>3 DEF Unaltered
<1>8. ASSUME lost # {} PROVE Cap > 0 /\ Cardinality(Numbers(Enqueued(q))) = Cap
  <2>1. ~(q \subseteq Enqueued(q))
    BY <1>8 DEF Numbers
  <2>2. Cap > 0 /\ IsFiniteSet(Enqueued(q)) /\ Cardinality(Enqueued(q)) = Cap
    BY <2>1, FullAgain
  <2>3. Queue(Enqueued(q), now + 1) /\ Unaltered(Enqueued(q))
    BY EnqueuedQueue, EnqueuedUnaltered
  <2>4. \A p, r \in Enqueued(q) : p.counter = r.counter => p = r
    BY <2>3 DEF Queue, Unaltered
  <2>. QED BY <2>2, <2>4, AsManyNumbers
<1>. QED BY <1>6, <1>7, <1>8

\* What the mailboxes hold, and what a restart would find in them.
HeldBy  == [c \in Clients |-> Counters(c)]
SavedOf == [c \in Clients |-> Numbers(disk.queue[c])]

\* The abstract specification counts as this one does.
LEMMA SameCount == \A S : Promise!Cardinality(S) = Cardinality(S)
BY DEF Promise!Cardinality, Cardinality

\* A publish is a message sent to the mailboxes that are subscribed.
LEMMA PublishPromised ==
  ASSUME TTL = 0, TypeOK, Past, Past', Queues, Numbered, NEW t \in Topics, EnqueuePublish(t),
         now' # now
  PROVE  \E n \in 0 .. MaxNow, to \in SUBSET Clients : Promise!Send(n, to)
<1>1. OutgoingEnqueueCombi(Subscribers(t)) /\ Subscribers(t) # {} /\ received' = received
  BY DEF EnqueuePublish, store, clock
<1>2. /\ disk' = disk /\ now' = now + 1 /\ now < MaxNow
      /\ outgoing' = [c \in Clients |-> IF c \in Subscribers(t) THEN Enqueued(outgoing[c])
                                                                 ELSE outgoing[c]]
  BY <1>1 DEF OutgoingEnqueueCombi, ScheduleFlush
<1>3. Subscribers(t) \in SUBSET Clients
  BY DEF Subscribers
<1>4. now \in 0 .. MaxNow /\ now \in Nat /\ MaxNow \in Nat
  BY <1>2, BoundsAssumption DEF TypeOK
<1>5. HeldBy' \in [Clients -> SUBSET (0 .. MaxNow)]
  <2>. SUFFICES ASSUME NEW c \in Clients, NEW p \in outgoing'[c] PROVE p.counter \in 0 .. MaxNow
    BY DEF HeldBy, Counters
  <2>1. p \in outgoing[c] \/ p = NewPacket
    BY <1>2, EnqueuedShape
  <2>2. p.counter \in Nat
    BY <1>4, <2>1 DEF TypeOK, Packet, NewPacket
  <2>3. p.counter < now'
    BY DEF Past, Stamped
  <2>. QED BY <1>2, <1>4, <2>2, <2>3
<1>6. ASSUME NEW c \in Clients
      PROVE  /\ HeldBy[c] = Numbers(outgoing[c]) /\ HeldBy'[c] = Numbers(outgoing'[c])
             /\ \A old \in HeldBy[c] \cup SavedOf[c] : old < now
  BY DEF HeldBy, SavedOf, Counters, Numbers, Past, Stamped
<1>7. ASSUME NEW c \in Clients \ Subscribers(t) PROVE HeldBy'[c] = HeldBy[c]
  BY <1>2, <1>6
<1>8. ASSUME NEW c \in Subscribers(t)
      PROVE  LET lost == HeldBy[c] \ HeldBy'[c]
             IN  /\ HeldBy'[c] = (HeldBy[c] \ lost) \cup {now}
                 /\ \A l \in lost, k \in HeldBy[c] \ lost : l < k
                 /\ lost # {} => Cap > 0 /\ Cardinality(HeldBy'[c]) = Cap
  <2>1. c \in Clients /\ outgoing'[c] = Enqueued(outgoing[c])
    BY <1>2, <1>3
  <2>2. /\ outgoing[c] \in SUBSET Packet /\ Queue(outgoing[c], now) /\ Unaltered(outgoing[c])
        /\ \A p \in outgoing[c] : p.counter < now
    BY <2>1 DEF TypeOK, Queues, Numbered, Past, Stamped
  <2>3. HeldBy[c] = Numbers(outgoing[c]) /\ HeldBy'[c] = Numbers(Enqueued(outgoing[c]))
    BY <1>6, <2>1
  <2>. QED BY <2>2, <2>3, PublishedNumbers
<1>9. UNCHANGED <<SavedOf, received>>
  BY <1>1, <1>2 DEF SavedOf
<1>10. Promise!Send(now, Subscribers(t))
  BY <1>1, <1>5, <1>6, <1>7, <1>8, <1>9, SameCount DEF Promise!Send, HeldBy, SavedOf, Numbers
<1>. QED BY <1>3, <1>4, <1>10

\* An acknowledgement takes the message it is about out of the mailbox.
LEMMA AckPromised ==
  ASSUME TypeOK, ConnectionTypeOK, Past, Queues, Identified, NEW c \in Clients, Ack(c)
  PROVE  \E n \in 0 .. MaxNow : Promise!Consume(c, n)
<1>1. PICK r \in inflight[c] : /\ OutgoingClearMessageId(c, r.mid)
                               /\ received' = [received EXCEPT ![c] = @ \cup {r.counter}]
  BY DEF Ack
<1>. DEFINE matches == {p \in outgoing[c] : p.mid = r.mid}
            head    == First(matches)
<1>2. r.counter \in 0 .. MaxNow
  <2>1. r.counter \in Nat /\ r.counter < now /\ now <= MaxNow /\ now \in Nat /\ MaxNow \in Nat
    BY BoundsAssumption DEF ConnectionTypeOK, Past, OnTime, TypeOK
  <2>. QED BY <2>1
<1>3. disk' = disk
  BY <1>1 DEF OutgoingClearMessageId, ScheduleFlush, saving
<1>4. CASE matches = {}
  <2>1. outgoing' = outgoing
    BY <1>1, <1>4 DEF OutgoingClearMessageId
  <2>2. HeldBy' = HeldBy /\ SavedOf' = SavedOf
    BY <1>3, <2>1 DEF HeldBy, Counters, SavedOf
  <2>. QED BY <1>1, <1>2, <2>2 DEF Promise!Consume, HeldBy, SavedOf, Numbers
<1>5. CASE matches # {}
  <2>1. outgoing' = [outgoing EXCEPT ![c] = outgoing[c] \ {head}]
    BY <1>1, <1>5 DEF OutgoingClearMessageId
  <2>2. matches \in SUBSET Packet
    BY DEF TypeOK
  <2>3. head \in outgoing[c] /\ head.mid = r.mid
    BY <1>5, <2>2, HeadExists
  <2>. HIDE DEF head
  <2>4. head.counter = r.counter
    BY <2>3 DEF Identified, TrueIds
  <2>5. \A p \in outgoing[c] : p.counter = r.counter => p = head
    BY <2>3, <2>4, OnePerNumber DEF Identified
  <2>6. Counters(c)' = Counters(c) \ {r.counter}
    BY <2>1, <2>3, <2>4, <2>5 DEF Counters, TypeOK
  <2>7. \A e \in Clients \ {c} : Counters(e)' = Counters(e)
    BY <2>1 DEF Counters, TypeOK
  <2>8. HeldBy' = [HeldBy EXCEPT ![c] = @ \ {r.counter}]
    BY <2>6, <2>7 DEF HeldBy
  <2>9. SavedOf' = SavedOf
    BY <1>3 DEF SavedOf
  <2>. QED BY <1>1, <1>2, <2>8, <2>9 DEF Promise!Consume, HeldBy, SavedOf, Numbers
<1>. QED BY <1>4, <1>5

\* A drop and a clean session discard the mailbox.
LEMMA DiscardPromised ==
  ASSUME TypeOK, NEW c \in Clients, CleanSubscriptions(c), received' = received
  PROVE  Promise!Discard(c)
<1>1. outgoing' = [outgoing EXCEPT ![c] = {}] /\ disk' = disk
  BY DEF CleanSubscriptions, ScheduleFlush
<1>2. Counters(c)' = {} /\ \A e \in Clients \ {c} : Counters(e)' = Counters(e)
  BY <1>1 DEF Counters, TypeOK
<1>3. HeldBy' = [HeldBy EXCEPT ![c] = {}] /\ SavedOf' = SavedOf
  BY <1>1, <1>2 DEF HeldBy, SavedOf
<1>. QED BY <1>3 DEF Promise!Discard, HeldBy, SavedOf, Numbers

\* A snapshot saves what is held.
LEMMA SnapshotNumbers ==
  ASSUME TypeOK, Covered, disk' = Snapshot
  PROVE  SavedOf' = HeldBy
BY SnapshotIsMemory DEF SavedOf, HeldBy, Counters, Numbers

\* Where nothing expires, a restart finds what is on disk, which a stop may have
\* saved just before.
LEMMA RestartPromised ==
  ASSUME TTL = 0, TypeOK, Covered, BrokerCrash \/ \E ok \in BOOLEAN : BrokerStop(ok)
  PROVE  Promise!Crash \/ Promise!Save
<1>1. PICK d \in {disk, Snapshot} : Load(d, now)
  BY RestartHolds
<1>2. disk' = d /\ \A c \in Clients : outgoing'[c] = d.queue[c]
  BY <1>1 DEF Load, LiveAt
<1>3. HeldBy' = SavedOf'
  BY <1>2 DEF HeldBy, SavedOf, Counters, Numbers
<1>4. received' = received
  BY RestartHolds DEF Restarted
<1>5. CASE d = disk
  <2>1. SavedOf' = SavedOf
    BY <1>2, <1>5 DEF SavedOf
  <2>. QED BY <1>3, <1>4, <2>1 DEF Promise!Crash, HeldBy, SavedOf, Numbers
<1>6. CASE d = Snapshot
  <2>1. SavedOf' = HeldBy
    BY <1>2, <1>6, SnapshotNumbers
  <2>. QED BY <1>3, <1>4, <2>1 DEF Promise!Save, HeldBy, SavedOf, Numbers
<1>. QED BY <1>5, <1>6

\* Whatever else the broker does, the mailboxes hold what they held.
LEMMA StepPromised ==
  ASSUME TTL = 0, ~IdsMayCollide, TypeOK, ConnectionTypeOK, Past, Past', Queues, Identified, Covered,
         [BrokerNext]_brokerVars
  PROVE  [Promise!Next]_(Promise!vars)
<1>. USE DEF store, memory, saving, clock
<1>n. Numbered
  BY DEF Identified
<1>q. ASSUME \A c \in Clients : Counters(c)' = Counters(c), disk' = disk, received' = received
      PROVE  UNCHANGED Promise!vars
  <2>1. HeldBy' = HeldBy
    BY <1>q DEF HeldBy
  <2>2. SavedOf' = SavedOf
    BY <1>q DEF SavedOf
  <2>. QED BY <1>q, <2>1, <2>2 DEF Promise!vars, HeldBy, SavedOf, Numbers
<1>s. ASSUME outgoing' = outgoing, disk' = disk, received' = received
      PROVE  UNCHANGED Promise!vars
  BY <1>q, <1>s DEF Counters
<1>1. ASSUME NEW t \in Topics, EnqueuePublish(t) PROVE [Promise!Next]_(Promise!vars)
  <2>1. CASE now' = now
    <3>1. UNCHANGED <<outgoing, disk, received>>
      <4>1. now' # now + 1
        BY <2>1 DEF TypeOK
      <4>. QED BY <1>1, <4>1, PublishShape DEF EnqueuePublish
    <3>. QED BY <1>s, <3>1
  <2>2. CASE now' # now
    BY <1>1, <1>n, <2>2, PublishPromised DEF Promise!Next
  <2>. QED BY <2>1, <2>2
<1>2. ASSUME NEW c \in Clients, Ack(c) PROVE [Promise!Next]_(Promise!vars)
  BY <1>2, AckPromised DEF Promise!Next
<1>3. ASSUME NEW c \in Clients, CleanConnect(c) \/ Drop(c, TRUE) \/ Drop(c, FALSE)
      PROVE  [Promise!Next]_(Promise!vars)
  <2>1. CleanSubscriptions(c) /\ received' = received
    BY <1>3 DEF CleanConnect, Drop
  <2>. QED BY <2>1, DiscardPromised DEF Promise!Next
<1>4. ASSUME NEW ok \in BOOLEAN, WriteSnapshot(ok) PROVE [Promise!Next]_(Promise!vars)
  <2>1. /\ outgoing' = outgoing /\ received' = received
        /\ disk' = disk \/ disk' = Snapshot
    BY <1>4 DEF WriteSnapshot, FlushTimer, Flush
  <2>2. CASE disk' = Snapshot
    <3>1. SavedOf' = HeldBy
      BY <2>2, SnapshotNumbers
    <3>2. HeldBy' = HeldBy
      BY <2>1 DEF HeldBy, Counters
    <3>3. Promise!Save
      BY <2>1, <3>1, <3>2 DEF Promise!Save, HeldBy, SavedOf, Numbers
    <3>. QED BY <3>3 DEF Promise!Next
  <2>. QED BY <1>s, <2>1, <2>2
<1>5. CASE BrokerCrash \/ \E ok \in BOOLEAN : BrokerStop(ok)
  BY <1>5, RestartPromised DEF Promise!Next
<1>6. ASSUME NEW c \in Clients, Replay(c) \/ Deliver(c) PROVE [Promise!Next]_(Promise!vars)
  <2>1. \A e \in Clients : Counters(e)' = Counters(e)
    BY <1>6, DeliveryShape, DeliveredQueue
  <2>2. disk' = disk /\ received' = received
    BY <1>6 DEF Replay, Deliver, Write, OutgoingUpdate, ScheduleFlush
  <2>. QED BY <1>q, <2>1, <2>2
<1>7. ASSUME NEW c \in Clients, StartReplay(c) PROVE [Promise!Next]_(Promise!vars)
  <2>1. \A e \in Clients : outgoing'[e] = outgoing[e]
    BY <1>7 DEF StartReplay, OutgoingStream, LiveAt, TypeOK
  <2>2. disk' = disk /\ received' = received
    BY <1>7 DEF StartReplay, OutgoingStream
  <2>3. \A e \in Clients : Counters(e)' = Counters(e)
    BY <2>1 DEF Counters
  <2>. QED BY <1>q, <2>2, <2>3
<1>8. ASSUME NEW t \in Topics, AuthorizePublish(t) PROVE [Promise!Next]_(Promise!vars)
  BY <1>8, <1>s DEF AuthorizePublish, EnsureMailbox, ScheduleFlush
<1>9. ASSUME NEW c \in Clients, Subscribe(c) \/ Unsubscribe(c) PROVE [Promise!Next]_(Promise!vars)
  BY <1>9, <1>s DEF Subscribe, Unsubscribe, AddSubscriptions, RemoveSubscriptions, ScheduleFlush
<1>10. ASSUME NEW c \in Clients, Connect(c) \/ Disconnect(c) \/ ClearSession(c)
       PROVE  [Promise!Next]_(Promise!vars)
  BY <1>10, <1>s DEF Connect, Disconnect, ClearSession
<1>11. CASE UNCHANGED brokerVars
  BY <1>11, <1>s DEF brokerVars
<1>. QED
  BY <1>1, <1>2, <1>3, <1>4, <1>5, <1>6, <1>7, <1>8, <1>9, <1>10, <1>11 DEF BrokerNext

\* Where no packet expires and no message id is given twice, the broker keeps
\* the promise of PROTOCOL.md, whatever comes, goes and crashes.
THEOREM KeepsPromise ==
  ASSUME TTL = 0, ~IdsMayCollide
  PROVE  BrokerSpec => PromiseKept
<1>1. BrokerInit => Promise!Init
  BY DEF BrokerInit, Init, EmptyDisk, Counters, Promise!Init
<1>2. TypeOK /\ ConnectionTypeOK /\ Past /\ Past' /\ Queues /\ Identified /\ DurableInv
        /\ [BrokerNext]_brokerVars => [Promise!Next]_(Promise!vars)
  BY StepPromised DEF DurableInv
<1>. QED
  BY <1>1, <1>2, BrokerTypes, BrokerQueues, IdentifiedInvariant, StoreInBroker, DurableInvariant, PTL
  DEF BrokerSpec, PromiseKept, Promise!Spec

-----------------------------------------------------------------------------
(***************************************************************************)
(* The consumers.                                                          *)
(***************************************************************************)

\* What a consumer is doing, and what it knows; a poll that collects is connected.
PollTypeOK ==
  /\ poll \in [Clients -> {"idle", "asking", "free", "collecting", "kicked"}]
  /\ late \in [Clients -> BOOLEAN] /\ yielded \in [Clients -> BOOLEAN]
Collecting == \A c \in Clients : poll[c] = "collecting" => Registered(c)
ConsumerInv == TypeOK /\ ConnectionTypeOK /\ Past /\ PollTypeOK /\ Collecting

\* What a consumer does to the broker is what the broker lets it do.
LEMMA ConsumerIsBroker ==
  ASSUME Collecting, [ConsumerNext]_consumerVars
  PROVE  [BrokerNext]_brokerVars
<1>1. CASE BrokerStep
  BY <1>1 DEF BrokerStep, BrokerNext
<1>2. ASSUME NEW c \in Clients, Listen(c) \/ PollConnects(c) PROVE BrokerNext
  BY <1>2 DEF Listen, PollConnects, BrokerNext
<1>3. ASSUME NEW c \in Clients, Breaks(c) \/ Handled(c) PROVE BrokerNext
  BY <1>3 DEF Breaks, Handled, BrokerNext
<1>4. ASSUME NEW c \in Clients, DropMailbox(c, TRUE) \/ DropMailbox(c, FALSE) PROVE BrokerNext
  BY <1>4 DEF DropMailbox, BrokerNext
<1>5. ASSUME NEW c \in Clients, AskSession(c) \/ SessionAnswers(c) \/ SessionTimesOut(c)
      PROVE  UNCHANGED brokerVars
  BY <1>5 DEF AskSession, SessionAnswers, SessionTimesOut
<1>6. ASSUME NEW c \in Clients, PollReturns(c) PROVE [BrokerNext]_brokerVars
  <2>1. CASE poll[c] = "collecting" /\ Gone(c)
    <3>1. Disconnect(c)
      BY <1>6, <2>1 DEF PollReturns, Disconnect, Collecting
    <3>. QED BY <3>1 DEF BrokerNext
  <2>2. CASE UNCHANGED <<connection, transit, retained>>
    <3>1. UNCHANGED brokerVars
      BY <1>6, <2>2 DEF PollReturns, brokerVars, notices
    <3>. QED BY <3>1
  <2>. QED BY <1>6, <2>1, <2>2 DEF PollReturns
<1>7. CASE UNCHANGED consumerVars
  BY <1>7 DEF consumerVars
<1>. QED BY <1>1, <1>2, <1>3, <1>4, <1>5, <1>6, <1>7 DEF ConsumerNext

\* What each step means for the polls: who is asking goes on asking, unless the
\* session answers or the time is over; and a session that is given up is seen
\* to be.
LEMMA PollStep ==
  ASSUME ConnectionTypeOK, PollTypeOK, Collecting, [ConsumerNext]_consumerVars
  PROVE  /\ PollTypeOK' /\ Collecting'
         /\ \A c \in Clients :
              \/ AskSession(c) \/ SessionAnswers(c) \/ SessionTimesOut(c)
              \/ /\ late'[c] = late[c] /\ (yielded[c] => yielded'[c])
                 /\ poll'[c] = poll[c] \/ poll'[c] \notin {"asking", "free"}
                 /\ Persistent(c) /\ ~Persistent(c)' => yielded'[c]
<1>. USE DEF connection, pollVars
<1>. DEFINE Goes(c) == /\ late'[c] = late[c] /\ (yielded[c] => yielded'[c])
                       /\ poll'[c] = poll[c] \/ poll'[c] \notin {"asking", "free"}
                       /\ Persistent(c) /\ ~Persistent(c)' => yielded'[c]
            Asks(c) == AskSession(c) \/ SessionAnswers(c) \/ SessionTimesOut(c)
            Goal == /\ PollTypeOK' /\ Collecting'
                    /\ \A c \in Clients : Asks(c) \/ Goes(c)
<1>1. ASSUME UNCHANGED <<poll, late, yielded>>,
             \A c \in Clients : conn'[c] = conn[c] \/ conn'[c] = "open"
      PROVE  Goal
  BY <1>1 DEF PollTypeOK, Collecting, Persistent, Registered
<1>2. ASSUME BrokerStep PROVE Goal
  <2>1. \A c \in Clients : conn'[c] = conn[c] \/ conn'[c] = "open"
    BY <1>2 DEF BrokerStep, AuthorizePublish, EnqueuePublish, Subscribe, StartReplay, Replay, Deliver,
                ClearSession, ConnectionTypeOK
  <2>2. UNCHANGED <<poll, late, yielded>>
    BY <1>2 DEF BrokerStep
  <2>. HIDE DEF Goal
  <2>. QED BY <1>1, <2>1, <2>2
<1>3. ASSUME NEW c \in Clients, Handled(c) PROVE Goal
  <2>1. conn' = conn /\ UNCHANGED <<poll, late, yielded>>
    BY <1>3 DEF Handled, Ack
  <2>. HIDE DEF Goal
  <2>. QED BY <1>1, <2>1
<1>4. ASSUME NEW c \in Clients, Listen(c) \/ PollConnects(c) PROVE Goal
  <2>1. /\ Persistent(c)' /\ Registered(c)'
        /\ \A e \in Clients \ {c} : conn'[e] = conn[e] /\ poll'[e] = poll[e]
        /\ poll'[c] \in {"collecting", "kicked", poll[c]}
        /\ poll' \in [Clients -> {"idle", "asking", "free", "collecting", "kicked"}]
        /\ UNCHANGED <<late, yielded>>
    BY <1>4 DEF Listen, PollConnects, Connect, Persistent, Registered, ConnectionTypeOK, PollTypeOK
  <2>. QED BY <2>1 DEF PollTypeOK, Collecting, Persistent, Registered
\* A connection that ends, and what its end makes of a poll on it.
<1>5. ASSUME NEW c \in Clients, late' = late, NoteUnheld,
             \A e \in Clients \ {c} : conn'[e] = conn[e] /\ poll'[e] = poll[e],
             poll' \in [Clients -> {"idle", "asking", "free", "collecting", "kicked"}],
             poll'[c] = poll[c] \/ poll'[c] \notin {"asking", "free"},
             poll'[c] # "collecting"
      PROVE  Goal
  <2>1. \A e \in Clients : /\ yielded[e] => yielded'[e]
                           /\ ~Persistent(e)' => yielded'[e]
    BY <1>5 DEF NoteUnheld, Persistent
  <2>2. yielded' \in [Clients -> BOOLEAN]
    BY <1>5 DEF NoteUnheld, PollTypeOK
  <2>. QED BY <1>5, <2>1, <2>2 DEF PollTypeOK, Collecting, Registered
<1>6. ASSUME NEW c \in Clients, PollReturns(c) PROVE Goal
  <2>1. \A e \in Clients \ {c} : conn'[e] = conn[e]
    BY <1>6 DEF PollReturns, Gone, ConnectionTypeOK
  <2>2. poll' = [poll EXCEPT ![c] = "idle"] /\ late' = late /\ NoteUnheld
    BY <1>6 DEF PollReturns
  <2>3. /\ poll' \in [Clients -> {"idle", "asking", "free", "collecting", "kicked"}]
        /\ poll'[c] = "idle" /\ \A e \in Clients \ {c} : poll'[e] = poll[e]
    BY <2>2 DEF PollTypeOK
  <2>. HIDE DEF Goal
  <2>. QED BY <1>5, <2>1, <2>2, <2>3
<1>7. ASSUME NEW c \in Clients, Breaks(c) \/ DropMailbox(c, TRUE) \/ DropMailbox(c, FALSE) PROVE Goal
  <2>1. \A e \in Clients \ {c} : conn'[e] = conn[e]
    BY <1>7 DEF Breaks, Disconnect, DropMailbox, Drop, Gone, ConnectionTypeOK
  <2>2. /\ poll' = [poll EXCEPT ![c] = IF @ = "collecting" THEN "kicked" ELSE @]
        /\ late' = late /\ NoteUnheld
    BY <1>7 DEF Breaks, DropMailbox
  <2>3. /\ poll' \in [Clients -> {"idle", "asking", "free", "collecting", "kicked"}]
        /\ poll'[c] = poll[c] \/ poll'[c] = "kicked"
        /\ poll'[c] # "collecting" /\ \A e \in Clients \ {c} : poll'[e] = poll[e]
    BY <2>2 DEF PollTypeOK
  <2>. HIDE DEF Goal
  <2>. QED BY <1>5, <2>1, <2>2, <2>3
<1>8. ASSUME NEW c \in Clients, Asks(c) PROVE Goal
  <2>1. /\ conn' = conn /\ PollTypeOK' /\ poll'[c] # "collecting"
        /\ \A e \in Clients \ {c} : /\ poll'[e] = poll[e] /\ late'[e] = late[e]
                                    /\ yielded'[e] = yielded[e]
    BY <1>8 DEF AskSession, SessionAnswers, SessionTimesOut, Unheld, Persistent, brokerVars, PollTypeOK
  <2>. QED BY <1>8, <2>1 DEF Collecting, Persistent, Registered
<1>9. ASSUME UNCHANGED consumerVars PROVE Goal
  <2>1. conn' = conn /\ UNCHANGED <<poll, late, yielded>>
    BY <1>9 DEF consumerVars, brokerVars
  <2>. HIDE DEF Goal
  <2>. QED BY <1>1, <2>1
<1>. QED BY <1>2, <1>3, <1>4, <1>6, <1>7, <1>8, <1>9 DEF ConsumerNext

\* It holds at every moment.
LEMMA ConsumerInvariant == ConsumerSpec => []ConsumerInv
<1>1. ConsumerInit => ConsumerInv
  BY BrokerInitType DEF ConsumerInit, ConsumerInv, PollTypeOK, Collecting
<1>2. ConsumerInv /\ [ConsumerNext]_consumerVars => ConsumerInv'
  BY ConsumerIsBroker, StoreStep, TypeStep, ConnectionTypeStep, PastStep, PollStep DEF ConsumerInv
<1>. QED BY <1>1, <1>2, PTL DEF ConsumerSpec

\* The listeners and polls of client.js run on the broker as module Broker has
\* it, so what is proved of every run of the broker holds of theirs.
THEOREM BrokerInConsumer == ConsumerSpec => BrokerSpec
<1>1. ConsumerInit => BrokerInit
  BY DEF ConsumerInit
<1>2. ConsumerInv /\ [ConsumerNext]_consumerVars => [BrokerNext]_brokerVars
  BY ConsumerIsBroker DEF ConsumerInv
<1>. QED BY <1>1, <1>2, ConsumerInvariant, PTL DEF ConsumerSpec, BrokerSpec

\* A poll that is asking while nobody holds the session has seen it unheld.
Seen == \A c \in Clients : poll[c] = "asking" /\ ~Persistent(c) => yielded[c]

\* A poll that was answered in time takes the mailbox from nobody who held it
\* all the while (pollInbox, sessionState).
THEOREM Yields == ConsumerSpec => []PollYields
<1>1. ConsumerInit => Seen /\ PollYields
  BY DEF ConsumerInit, Seen, PollYields
<1>2. ConsumerInv /\ NeverAdvertisedFree /\ Seen /\ PollYields /\ [ConsumerNext]_consumerVars
        => (Seen /\ PollYields)'
  <2>. SUFFICES ASSUME ConnectionTypeOK, PollTypeOK, Collecting, NeverAdvertisedFree, Seen, PollYields,
                       [ConsumerNext]_consumerVars, NEW c \in Clients
                PROVE  /\ poll'[c] = "asking" /\ ~Persistent(c)' => yielded'[c]
                       /\ poll'[c] = "free" /\ ~late'[c] => yielded'[c]
    BY DEF ConsumerInv, Seen, PollYields
  <2>1. CASE AskSession(c)
    BY <2>1 DEF AskSession, Unheld, Persistent, brokerVars, connection, PollTypeOK
  <2>2. CASE SessionAnswers(c)
    <3>1. poll[c] = "asking" /\ poll'[c] \in {"idle", "free"} /\ yielded' = yielded
          /\ (poll'[c] = "free" => retained[c] = "free")
      BY <2>2 DEF SessionAnswers, PollTypeOK, ConnectionTypeOK
    <3>2. retained[c] = "free" => yielded[c]
      BY <3>1 DEF NeverAdvertisedFree, Seen
    <3>. QED BY <3>1, <3>2
  <2>3. CASE SessionTimesOut(c)
    BY <2>3 DEF SessionTimesOut, PollTypeOK
  <2>4. CASE /\ late'[c] = late[c] /\ (yielded[c] => yielded'[c])
             /\ poll'[c] = poll[c] \/ poll'[c] \notin {"asking", "free"}
             /\ Persistent(c) /\ ~Persistent(c)' => yielded'[c]
    BY <2>4 DEF Seen, PollYields
  <2>. QED BY <2>1, <2>2, <2>3, <2>4, PollStep
<1>. QED BY <1>1, <1>2, ConsumerInvariant, BrokerInConsumer, HeldNotFree, PTL DEF ConsumerSpec
=============================================================================
