-------------------------- MODULE RelayInboxProofs --------------------------
(* Theorems about the polling of a log, for every log, every cap and TTL of*)
(* the seen-set, every number of restarts and every failure of a read or a *)
(* write.                                                                  *)
EXTENDS RelayInbox, FiniteSetTheorems, TLAPS

(***************************************************************************)
(* The invariant.                                                          *)
(***************************************************************************)

\* What the variables hold, and that nothing is marked before it is there.
Typed ==
  /\ TypeOK
  /\ now > 0
  /\ cutoff <= now
  /\ \A m \in Messages : seen[m] # 0 => stamp[m] # 0 /\ stamp[m] <= seen[m]
  /\ \A m \in Messages : seenFile[m] # 0 => stamp[m] # 0 /\ stamp[m] <= seenFile[m]
  /\ \A m \in Messages : stamp[m] <= now /\ (stamp[m] = 0 => handed[m] = 0)

\* What the first run skips is its backlog.
SkipsBacklog ==
  cutoff # 0 => \A m \in Stored : stamp[m] < cutoff => m \in backlog

Within(m) == Cardinality(Stored) <= SeenMax /\ now - stamp[m] <= SeenTTL

\* A message is handed over for its mark in memory, or for one that was lost.
Accounted ==
  \A m \in Stored : Within(m) =>
    handed[m] <= unsaved[m] + (IF seen[m] # 0 THEN 1 ELSE 0)

Inv == Typed /\ SkipsBacklog /\ MarkedWasHanded /\ Accounted
-----------------------------------------------------------------------------
\* Everything holds at first.
LEMMA InitInv == Init => Inv
<1>. SUFFICES ASSUME Init PROVE Inv
  OBVIOUS
<1>1. Typed
  <2>1. /\ stamp \in [Messages -> Nat] /\ \A m \in Messages : stamp[m] <= now
        /\ now \in Nat /\ now > 0 /\ cutoff \in Int /\ cutoff <= now
    BY InboxAssumption DEF Init
  <2>2. \A m \in Messages : seen[m] = 0 /\ seenFile[m] = 0 /\ handed[m] = 0
    BY DEF Init, NoMarks
  <2>3. TypeOK
    BY <2>1 DEF Init, TypeOK, NoMarks, Stored, Marked
  <2>. QED BY <2>1, <2>2, <2>3 DEF Typed
<1>2. SkipsBacklog /\ MarkedWasHanded
  BY DEF Init, SkipsBacklog, MarkedWasHanded, NoMarks, Marked
<1>3. Accounted
  BY DEF Init, Accounted, NoMarks, Stored, Marked
<1>. QED BY <1>1, <1>2, <1>3 DEF Inv

\* While the log fits, the seen-set drops only what is past its TTL.
LEMMA NothingEvicted ==
  ASSUME NEW s \in [Messages -> Nat], Marked(s) \subseteq Stored,
         Cardinality(Stored) <= SeenMax, NEW keep \in Bounded(s), now \in Nat
  PROVE  keep = {m \in Marked(s) : s[m] >= now - SeenTTL}
<1>. DEFINE live == {m \in Marked(s) : s[m] >= now - SeenTTL}
<1>1. IsFiniteSet(Stored)
  BY InboxAssumption, FS_Subset DEF Stored, Marked
<1>2. live \subseteq Stored
  OBVIOUS
<1>3. IsFiniteSet(live) /\ Cardinality(live) <= Cardinality(Stored)
  BY <1>1, <1>2, FS_Subset
<1>4. Cardinality(live) \in Nat /\ Cardinality(Stored) \in Nat
  BY <1>1, <1>3, FS_CardinalityType
<1>5. Cardinality(live) <= SeenMax
  BY <1>3, <1>4, InboxAssumption
<1>6. Bounded(s) = {live}
  BY <1>5 DEF Bounded
<1>. QED BY <1>6

\* A poll: what it has not seen is marked, and skipped, handed over or lost.
LEMMA PollKeeps ==
  ASSUME Inv, NEW answer \in SUBSET Stored, NEW ok \in BOOLEAN, PollOnce(answer, ok)
  PROVE  Inv'
<1>. DEFINE given == Fresh(answer) \ Skipped(answer)
            s == [m \in Messages |-> IF m \in Fresh(answer) THEN now ELSE seen[m]]
<1>0. /\ Typed /\ TypeOK /\ SkipsBacklog /\ MarkedWasHanded /\ Accounted
      /\ stamp' = stamp /\ now' = now /\ linkUp' = linkUp /\ starts' = starts
      /\ unsaved' = unsaved /\ backlog' = backlog
      /\ cutoff' \in {0, cutoff}
  BY DEF Inv, Typed, PollOnce
<1>1. /\ Stored' = Stored /\ Stored \subseteq Messages /\ Fresh(answer) \subseteq answer
      /\ answer \subseteq Stored
  BY <1>0 DEF Stored, Marked, Fresh
<1>2. /\ handed' \in [Messages -> Nat] /\ lost' \subseteq Messages
      /\ \A m \in Messages : handed'[m] >= handed[m]
      /\ lost \subseteq lost'
      /\ \A m \in given : handed'[m] > 0 \/ m \in lost'
      /\ \A m \in Messages : handed'[m] <= handed[m] + (IF m \in given THEN 1 ELSE 0)
  <2>1. DeliverLocally(given)
    BY DEF PollOnce
  <2>2. handed \in [Messages -> Nat] /\ lost \subseteq Messages /\ given \subseteq Messages
    BY <1>0, <1>1 DEF TypeOK
  <2>3. MaxHanded \in Nat /\ MaxHanded > 0
    BY InboxAssumption DEF MaxHanded
  <2>. HIDE DEF given
  <2>4. CASE linkUp
    BY <2>1, <2>2, <2>3, <2>4 DEF DeliverLocally
  <2>5. CASE ~linkUp
    BY <2>1, <2>2, <2>5 DEF DeliverLocally
  <2>. QED BY <2>4, <2>5
<1>3. s \in [Messages -> Nat]
  BY <1>0 DEF TypeOK
<1>4. Marked(s) \subseteq Stored /\ \A m \in Marked(s) : stamp[m] <= s[m]
  BY <1>0, <1>1 DEF Typed, TypeOK, Marked, Stored
<1>5. \/ Fresh(answer) = {} /\ UNCHANGED <<seen, seenFile, fileThere>>
      \/ \E keep \in Bounded(s) :
           /\ Fresh(answer) # {}
           /\ seen' = [m \in Messages |-> IF m \in keep THEN s[m] ELSE 0]
           /\ seenFile' \in {seen', seenFile} /\ fileThere' \in BOOLEAN
  BY <1>0 DEF PollOnce, SaveSeen, TypeOK
<1>6. \A m \in Messages : seen'[m] \in {0, seen[m], s[m]}
  BY <1>0, <1>5 DEF TypeOK
<1>7. \A m \in Messages : seenFile'[m] \in {0, seenFile[m], seen[m], s[m]}
  BY <1>0, <1>5, <1>6
<1>8. seen' \in [Messages -> Nat] /\ seenFile' \in [Messages -> Nat] /\ fileThere' \in BOOLEAN
  <2>. HIDE DEF s
  <2>1. seen \in [Messages -> Nat] /\ seenFile \in [Messages -> Nat] /\ fileThere \in BOOLEAN
    BY <1>0 DEF TypeOK
  <2>2. seen' \in [Messages -> Nat]
    BY <1>3, <1>5, <2>1
  <2>. QED BY <1>5, <2>1, <2>2
<1>. HIDE DEF given
<1>9. TypeOK'
  BY <1>0, <1>2, <1>8 DEF TypeOK
<1>10. \A m \in Messages : s[m] # 0 => stamp[m] # 0 /\ stamp[m] <= s[m]
  BY <1>4 DEF Marked, Stored
<1>11. Typed'
  <2>. HIDE DEF s
  <2>1. now' > 0 /\ cutoff' <= now'
    BY <1>0 DEF Typed, TypeOK
  <2>2. \A m \in Messages : seen'[m] # 0 => stamp'[m] # 0 /\ stamp'[m] <= seen'[m]
    BY <1>0, <1>6, <1>10 DEF Typed
  <2>3. \A m \in Messages : seenFile'[m] # 0 => stamp'[m] # 0 /\ stamp'[m] <= seenFile'[m]
    BY <1>0, <1>7, <1>10 DEF Typed
  <2>4. \A m \in Messages : stamp[m] = 0 => handed'[m] = 0
    <3>1. \A m \in Messages : stamp[m] = 0 => m \notin given
      BY <1>1 DEF given, Stored, Marked
    <3>2. \A m \in Messages : handed[m] \in Nat /\ handed'[m] \in Nat
      BY <1>0, <1>2 DEF TypeOK
    <3>. QED BY <3>1, <3>2, <1>0, <1>2 DEF Typed
  <2>. QED BY <1>0, <1>9, <2>1, <2>2, <2>3, <2>4 DEF Typed
<1>12. SkipsBacklog'
  BY <1>0, <1>1 DEF SkipsBacklog
<1>13. MarkedWasHanded'
  <2>1. \A m \in Fresh(answer) : handed'[m] > 0 \/ m \in lost' \/ m \in backlog'
    <3>1. \A m \in Skipped(answer) : m \in backlog
      BY <1>0, <1>1 DEF Skipped, SkipsBacklog
    <3>. QED BY <3>1, <1>0, <1>2 DEF given
  <2>2. \A m \in Messages : m \in Marked(seen) \cup Marked(seenFile) =>
           handed'[m] > 0 \/ m \in lost' \/ m \in backlog'
    BY <1>0, <1>2 DEF MarkedWasHanded, TypeOK
  <2>3. \A m \in Marked(seen') \cup Marked(seenFile') :
           m \in Messages /\ (m \in Fresh(answer) \/ m \in Marked(seen) \cup Marked(seenFile))
    BY <1>6, <1>7 DEF Marked
  <2>. QED BY <2>1, <2>2, <2>3 DEF MarkedWasHanded, Marked
<1>14. Accounted'
  <2>. SUFFICES ASSUME NEW m \in Stored, Within(m)
                PROVE  handed'[m] <= unsaved[m] + (IF seen'[m] # 0 THEN 1 ELSE 0)
    BY <1>0, <1>1 DEF Accounted, Within
  <2>0. /\ m \in Messages /\ handed[m] \in Nat /\ handed'[m] \in Nat /\ unsaved[m] \in Nat
        /\ now \in Nat /\ now > 0 /\ stamp[m] \in Nat /\ SeenTTL \in Nat
        /\ stamp[m] <= now /\ seen[m] \in Nat
        /\ handed[m] <= unsaved[m] + (IF seen[m] # 0 THEN 1 ELSE 0)
    BY <1>0, <1>1, <1>2, InboxAssumption DEF Typed, TypeOK, Accounted
  <2>1. s[m] # 0 => s[m] >= now - SeenTTL
    <3>1. s[m] \in Nat /\ (s[m] # 0 => stamp[m] <= s[m])
      BY <1>3, <1>10, <2>0
    <3>2. now - stamp[m] <= SeenTTL
      BY DEF Within
    <3>. HIDE DEF s
    <3>. QED BY <2>0, <3>1, <3>2
  <2>2. s[m] # 0 => seen'[m] # 0
    <3>1. CASE Fresh(answer) = {} /\ UNCHANGED <<seen, seenFile, fileThere>>
      BY <3>1, <2>0
    <3>2. ASSUME NEW keep \in Bounded(s),
                 seen' = [x \in Messages |-> IF x \in keep THEN s[x] ELSE 0]
          PROVE  s[m] # 0 => seen'[m] # 0
      <4>1. keep = {x \in Marked(s) : s[x] >= now - SeenTTL}
        <5>. HIDE DEF s
        <5>. QED BY NothingEvicted, <1>3, <1>4, <2>0 DEF Within
      <4>. HIDE DEF s
      <4>. QED BY <2>0, <2>1, <3>2, <4>1 DEF Marked
    <3>. QED BY <1>5, <3>1, <3>2
  <2>3. CASE m \in Fresh(answer)
    <3>1. s[m] # 0 /\ seen[m] = 0
      BY <2>0, <2>3 DEF Fresh
    <3>. QED BY <1>2, <2>0, <2>2, <3>1
  <2>4. CASE m \notin Fresh(answer)
    <3>1. m \notin given /\ s[m] = seen[m]
      BY <2>0, <2>4 DEF given
    <3>. HIDE DEF s
    <3>. QED BY <1>2, <2>0, <2>2, <3>1
  <2>. QED BY <2>3, <2>4
<1>. QED BY <1>11, <1>12, <1>13, <1>14 DEF Inv

\* A restart forgets what is not in the file, and owns up to it.
LEMMA RestartKeeps == Inv /\ Restart => Inv'
<1>. SUFFICES ASSUME Inv, Restart PROVE Inv'
  OBVIOUS
<1>0. /\ Typed /\ TypeOK /\ SkipsBacklog /\ MarkedWasHanded /\ Accounted
      /\ stamp' = stamp /\ now' = now /\ seenFile' = seenFile /\ fileThere' = fileThere
      /\ handed' = handed /\ lost' = lost /\ seen' = seenFile /\ linkUp' = TRUE
      /\ starts' = starts + 1
      /\ cutoff' = (IF fileThere THEN 0 ELSE now - Window)
      /\ backlog' = (IF fileThere THEN backlog
                     ELSE backlog \cup {m \in Stored : stamp[m] < now - Window})
  BY DEF Inv, Typed, Restart, LoadSeen, FirstCutoff
<1>1. unsaved' = [m \in Messages |-> IF seen[m] # 0 /\ seenFile[m] = 0 THEN unsaved[m] + 1
                                                                     ELSE unsaved[m]]
  BY DEF Restart
<1>2. Stored' = Stored /\ Stored \subseteq Messages
  BY <1>0 DEF Stored, Marked
<1>3. Typed'
  BY <1>0, <1>1, <1>2, InboxAssumption DEF Typed, TypeOK
<1>4. SkipsBacklog'
  BY <1>0, <1>2 DEF SkipsBacklog
<1>5. MarkedWasHanded'
  BY <1>0 DEF MarkedWasHanded
<1>6. Accounted'
  <2>. SUFFICES ASSUME NEW m \in Stored, Within(m)
                PROVE  handed[m] <= unsaved'[m] + (IF seenFile[m] # 0 THEN 1 ELSE 0)
    BY <1>0, <1>2 DEF Accounted, Within
  <2>1. /\ m \in Messages /\ handed[m] \in Nat /\ unsaved[m] \in Nat
        /\ handed[m] <= unsaved[m] + (IF seen[m] # 0 THEN 1 ELSE 0)
    BY <1>0, <1>2 DEF Accounted, TypeOK
  <2>. QED BY <1>1, <2>1
<1>. QED BY <1>3, <1>4, <1>5, <1>6 DEF Inv

\* A message arrives, unmarked and too young to be skipped.
LEMMA ArriveKeeps == ASSUME Inv, NEW n \in Messages, Arrive(n) PROVE Inv'
<1>0. /\ Typed /\ TypeOK /\ SkipsBacklog /\ MarkedWasHanded /\ Accounted
      /\ stamp[n] = 0 /\ stamp' = [stamp EXCEPT ![n] = now]
      /\ UNCHANGED <<now, marks, linkUp, starts, history>>
  BY DEF Inv, Typed, Arrive
<1>1. /\ stamp'[n] = now /\ \A m \in Messages : m # n => stamp'[m] = stamp[m]
      /\ stamp' \in [Messages -> Nat] /\ now \in Nat /\ now > 0
      /\ seen[n] = 0 /\ seenFile[n] = 0
  BY <1>0 DEF Typed, TypeOK
<1>2. /\ Stored' = Stored \cup {n} /\ Stored \subseteq Messages /\ n \notin Stored
      /\ seen' = seen /\ seenFile' = seenFile /\ cutoff' = cutoff /\ now' = now
      /\ handed' = handed /\ unsaved' = unsaved /\ lost' = lost /\ backlog' = backlog
  BY <1>0, <1>1 DEF Stored, Marked, marks, history
<1>3. Typed'
  <2>1. TypeOK'
    BY <1>0, <1>1 DEF TypeOK, marks, history
  <2>. QED BY <2>1, <1>0, <1>1, <1>2 DEF Typed
<1>4. SkipsBacklog'
  BY <1>0, <1>1, <1>2 DEF SkipsBacklog, Typed, TypeOK
<1>5. MarkedWasHanded'
  BY <1>0, <1>2 DEF MarkedWasHanded
<1>6. handed[n] = 0
  BY <1>0 DEF Typed
<1>7. Accounted'
  <2>. SUFFICES ASSUME NEW m \in Stored', Within(m)'
                PROVE  handed[m] <= unsaved[m] + (IF seen[m] # 0 THEN 1 ELSE 0)
    BY <1>2 DEF Accounted
  <2>1. CASE m = n
    BY <1>1, <1>6, <2>1, <1>0 DEF TypeOK
  <2>2. CASE m # n
    <3>1. m \in Stored /\ stamp'[m] = stamp[m]
      BY <1>1, <1>2, <2>2
    <3>2. IsFiniteSet(Stored)
      BY <1>2, InboxAssumption, FS_Subset
    <3>3. Cardinality(Stored') = Cardinality(Stored) + 1 /\ Cardinality(Stored) \in Nat
      BY <1>2, <3>2, FS_AddElement, FS_CardinalityType
    <3>4. Within(m)
      BY <1>2, <3>1, <3>3, InboxAssumption DEF Within
    <3>. QED BY <1>0, <3>1, <3>4 DEF Accounted
  <2>. QED BY <2>1, <2>2
<1>. QED BY <1>3, <1>4, <1>5, <1>7 DEF Inv

\* Time passes, the link goes and comes back.
LEMMA RestKeeps == Inv /\ (Tick \/ LinkDown \/ LinkUp \/ UNCHANGED vars) => Inv'
<1>. SUFFICES ASSUME Inv, Tick \/ LinkDown \/ LinkUp \/ UNCHANGED vars PROVE Inv'
  OBVIOUS
<1>0. /\ Typed /\ TypeOK /\ SkipsBacklog /\ MarkedWasHanded /\ Accounted
      /\ now' \in {now, now + 1} /\ linkUp' \in BOOLEAN
      /\ UNCHANGED <<stamp, seen, seenFile, fileThere, cutoff, starts, handed, lost, unsaved, backlog>>
  BY DEF Inv, Typed, TypeOK, Tick, LinkDown, LinkUp, vars, marks, history
<1>1. Stored' = Stored
  BY <1>0 DEF Stored, Marked
<1>2. Typed'
  BY <1>0 DEF Typed, TypeOK
<1>3. SkipsBacklog' /\ MarkedWasHanded'
  BY <1>0, <1>1 DEF SkipsBacklog, MarkedWasHanded
<1>4. \A m \in Stored : Within(m)' => Within(m)
  <2>1. now \in Nat /\ SeenTTL \in Nat /\ \A m \in Stored : stamp[m] \in Nat
    BY <1>0, InboxAssumption DEF TypeOK, Stored, Marked
  <2>. QED BY <2>1, <1>0, <1>1 DEF Within
<1>5. Accounted'
  BY <1>0, <1>1, <1>4 DEF Accounted
<1>. QED BY <1>2, <1>3, <1>5 DEF Inv

\* The invariant holds at every moment.
THEOREM Invariance == Spec => []Inv
<1>1. Init => Inv
  BY InitInv
<1>2. Inv /\ [Next]_vars => Inv'
  BY PollKeeps, RestartKeeps, ArriveKeeps, RestKeeps DEF Next
<1>. QED BY <1>1, <1>2, PTL DEF Spec

\* The state of the polling bridge has its type.
THEOREM Typing == Spec => []TypeOK
<1>1. Inv => TypeOK
  BY DEF Inv, Typed
<1>. QED BY <1>1, Invariance, PTL

\* Within the bounds of the seen-set, a message is handed over once, and once
\* more for each of its marks that a restart lost.
THEOREM Once == Spec => []OnceWithinBounds
<1>1. Inv => OnceWithinBounds
  <2>. SUFFICES ASSUME Inv, NEW m \in Stored,
                       Cardinality(Stored) <= SeenMax, now - stamp[m] <= SeenTTL
                PROVE  handed[m] <= 1 + unsaved[m]
    BY DEF OnceWithinBounds
  <2>1. handed[m] \in Nat /\ unsaved[m] \in Nat
    BY DEF Inv, Typed, TypeOK, Stored, Marked
  <2>2. handed[m] <= unsaved[m] + (IF seen[m] # 0 THEN 1 ELSE 0)
    BY DEF Inv, Accounted, Within
  <2>. QED BY <2>1, <2>2
<1>. QED BY <1>1, Invariance, PTL

\* Nothing is marked, in memory or on disk, that was not dealt with.
THEOREM Handed == Spec => []MarkedWasHanded
<1>1. Inv => MarkedWasHanded
  BY DEF Inv
<1>. QED BY <1>1, Invariance, PTL
=============================================================================
